---------------------------- MODULE CommandLine ----------------------------
(***************************************************************************)
(* packages/cli: the arguments of a command.  CommandEventMapper parses    *)
(* argv, CommandParameterPrompter binds flags to properties and asks for   *)
(* what is missing, CommandOptionsResolver maps the result to the options  *)
(* class with the data mapper and validates it, and                        *)
(* CommandArgumentErrorFormatter says what is wrong.                       *)
(*                                                                         *)
(* A token of argv is [dashes, name, value], `value` None without "=".     *)
(* A parameter is [property, flag, type, question, sensitive, required,    *)
(* choices, accepted]; `accepted` are the values its validators let pass.  *)
(* The user's answers are a sequence of texts, the empty text when it has  *)
(* ended; in a menu an answer is the choice, the first one when it is none *)
(* of them.  Cancel stands for Ctrl+C, which rejects the prompt and with   *)
(* it all of the command.                                                  *)
(***************************************************************************)
EXTENDS DataMapping

CONSTANT MaxAttempts    \* CommandParameterPrompter.MaxAttempts

String(t) == <<"string", t>>
Truth(b) == <<"boolean", b>>
Prop(args, k) == Get(Plain(args), k)
SetArgument(args, k, v) == Put(Plain(args), k, v)[3]

-----------------------------------------------------------------------------
(* CommandEventMapper.map().                                                *)

\* An option that has a value already becomes an array.
accumulate(args, k, v) ==
    LET old == Prop(args, k)
    IN  SetArgument(args, k, CASE old = Undef -> v
                               [] old[1] = "array" -> <<"array", Append(old[2], v)>>
                               [] OTHER -> <<"array", <<old, v>>>>)
positional(args, name) ==
    LET flagged == SetArgument(args, name, Truth(TRUE))
        old == Prop(flagged, "_")
    IN  SetArgument(flagged, "_", <<"array", Append(IF old[1] = "array" THEN old[2] ELSE <<>>, String(name))>>)
\* The word after an option: numbers and booleans replace, texts accumulate.
valueOf(args, k, text) ==
    CASE parseFloat(text) # None -> SetArgument(args, k, <<"number", parseFloat(text)>>)
      [] text \in {"true", "TRUE"} -> SetArgument(args, k, Truth(TRUE))
      [] text = "false" -> SetArgument(args, k, Truth(FALSE))
      [] OTHER -> accumulate(args, k, String(text))
parseStep(argv, state, i) ==
    LET t == argv[i]
        Then(args, skip) == [args |-> args, skip |-> skip]
    IN  CASE state.skip -> Then(state.args, FALSE)
          [] ~state.skip /\ t.dashes = 0 -> Then(positional(state.args, t.name), FALSE)
          [] ~state.skip /\ t.dashes = 2 /\ t.value # None -> Then(accumulate(state.args, t.name, String(t.value)), FALSE)
          [] ~state.skip /\ t.dashes > 0 /\ t.value = None ->
               IF i = Len(argv) \/ argv[i + 1].dashes > 0 THEN Then(SetArgument(state.args, t.name, Truth(TRUE)), FALSE)
               ELSE Then(valueOf(state.args, t.name, argv[i + 1].name), TRUE)
parse(argv) ==
    FoldLeft(LAMBDA s, i : parseStep(argv, s, i), [args |-> <<>>, skip |-> FALSE], [i \in DOMAIN argv |-> i]).args

-----------------------------------------------------------------------------
(* CommandParameterPrompter.  `asked` counts the questions of a property,   *)
(* `cache` is the data mapper's.                                            *)

OptionsClass(parameters) ==
    [c \in {"Options"} |-> [i \in DOMAIN parameters |->
        [name |-> parameters[i].property, type |-> parameters[i].type, member |-> None]]]
parseBoolean(t) ==
    CASE t \in {"y", "true", "TRUE", "1"} -> Truth(TRUE) [] t \in {"n", "false", "0"} -> Truth(FALSE) [] OTHER -> Undef
accepts(p, v) == IF v = Undef THEN ~p.required ELSE v \in p.accepted

\* The raw answer mapped alone to the class of the options, then validated; the
\* mapper keeps the tree that it builds for the class.
Outcome(p, probe) ==
    LET v == Get(probe.result, p.property) IN [valid |-> accepts(p, v), value |-> v, cache |-> probe.cache]
coerceAndValidate(parameters, cache, p, raw) ==
    Outcome(p, autoMap(OptionsClass(parameters), cache, Plain([k \in {p.property} |-> raw]), "Options", TRUE, None))

collectParameters(parameters) ==
    IF \E i, j \in DOMAIN parameters : i # j /\ parameters[i].flag = parameters[j].flag THEN Error ELSE parameters

\* A list, or what a resolver or provider returns; one that throws is None.
resolveChoices(p) == IF p.choices = None THEN <<>> ELSE p.choices

Cancel == "^C"
Answer(s) == IF s.answers = <<>> THEN "" ELSE Head(s.answers)
Cancelled(s) == [s EXCEPT !.cancelled = TRUE]
Answered(s, p) ==
    [s EXCEPT !.answers = IF @ = <<>> THEN @ ELSE Tail(@),
              !.asked = [k \in DOMAIN @ \cup {p.property} |-> IF k # p.property THEN @[k]
                                                              ELSE IF k \in DOMAIN @ THEN @[k] + 1 ELSE 1]]
Given(s, p, v) == IF v = Undef THEN s ELSE [s EXCEPT !.args = SetArgument(@, p.property, v)]

\* The menu: what is chosen is kept even when it is not valid.
Chosen(s, p, chosen, outcome) ==
    Given([Answered(s, p) EXCEPT !.cache = outcome.cache], p, IF outcome.valid THEN outcome.value ELSE chosen)
select(parameters, s, p) ==
    LET choices == resolveChoices(p)
        chosen == String(IF Answer(s) \in ToSet(choices) THEN Answer(s) ELSE choices[1])
    IN  IF Answer(s) = Cancel THEN Cancelled(s)
        ELSE Chosen(s, p, chosen, coerceAndValidate(parameters, s.cache, p, chosen))

RECURSIVE ask(_, _, _, _)
Checked(parameters, next, p, attempt, outcome) ==
    LET checked == [next EXCEPT !.cache = outcome.cache]
    IN  IF outcome.valid THEN Given(checked, p, outcome.value) ELSE ask(parameters, checked, p, attempt + 1)
ask(parameters, s, p, attempt) ==
    LET raw == Answer(s)
        next == Answered(s, p)
        isBoolean == p.type = "boolean" /\ ~p.sensitive
    IN  CASE attempt = MaxAttempts -> s
          [] attempt < MaxAttempts /\ raw = "" -> next
          [] attempt < MaxAttempts /\ raw = Cancel -> Cancelled(next)
          [] attempt < MaxAttempts /\ raw \notin {"", Cancel} /\ isBoolean ->
               IF parseBoolean(raw) = Undef THEN ask(parameters, next, p, attempt + 1) ELSE Given(next, p, parseBoolean(raw))
          [] OTHER -> Checked(parameters, next, p, attempt, coerceAndValidate(parameters, s.cache, p, String(raw)))

promptForValue(parameters, s, p) ==
    IF ~p.sensitive /\ p.type # "boolean" /\ resolveChoices(p) # <<>> THEN select(parameters, s, p)
    ELSE ask(parameters, s, p, 0)

\* A flag that is not the name of its property is copied to the property.
bindNothing(args, p) == args
bindFlag(args, p) ==
    IF p.flag # p.property /\ Prop(args, p.flag) # Undef THEN SetArgument(args, p.property, Prop(args, p.flag)) ELSE args
fillParameter(parameters, s, p, interactive) ==
    LET bound == [s EXCEPT !.args = bindFlag(@, p)]
        isPassed == Undef # Prop(bound.args, p.property) \/ Undef # Prop(bound.args, p.flag)
    IN  IF s.cancelled THEN s
        ELSE IF isPassed \/ ~p.question \/ ~interactive THEN bound ELSE promptForValue(parameters, bound, p)
fillMissingParameters(parameters, args, interactive, answers) ==
    FoldLeft(LAMBDA s, p : fillParameter(parameters, s, p, interactive),
             [args |-> args, answers |-> answers, asked |-> <<>>, cache |-> <<>>, cancelled |-> FALSE], parameters)

-----------------------------------------------------------------------------
(* CommandOptionsResolver.resolve() and the errors.                         *)

isMissing(v) == v \in {Undef, Null, String("")}
invalidLine(p, v) == [flag |-> p.flag, shown |-> IF p.sensitive THEN None ELSE v]
buildValidationError(failed, mapped) ==
    LET missing == {p \in failed : isMissing(Get(mapped, p.property))}
    IN  IF missing # {} THEN [kind |-> "usage", missing |-> {p.flag : p \in missing}, lines |-> {}]
        ELSE [kind |-> "invalid", missing |-> {}, lines |-> {invalidLine(p, Get(mapped, p.property)) : p \in failed}]
validated(parameters, mapped) ==
    LET failed == {p \in ToSet(parameters) : ~accepts(p, Get(mapped, p.property))}
    IN  IF failed # {} THEN buildValidationError(failed, mapped)
        ELSE [kind |-> "options", options |-> mapped]
\* throwOnErrors: what cannot be mapped is an error here, not the source.
orThrow(parameters, probe) ==
    IF probe.failed THEN [kind |-> "mapping failed", missing |-> {}, lines |-> {}] ELSE validated(parameters, probe.result)
mapOptions(parameters, prepared) ==
    IF prepared.cancelled THEN [kind |-> "cancelled", missing |-> {}, lines |-> {}]
    ELSE orThrow(parameters, autoMap(OptionsClass(parameters), prepared.cache, Plain(prepared.args), "Options", TRUE, None))
resolveOptions(parameters, args, interactive, answers) ==
    IF collectParameters(parameters) = Error THEN [kind |-> "conflict", missing |-> {}, lines |-> {}]
    ELSE mapOptions(parameters, fillMissingParameters(parameters, args, interactive, answers))

\* CliEventHandler.handle(): the command with that name runs with its arguments.
\* `commands` maps names to parameters, None for a command without options class.
handle(commands, name, argv, interactive, answers) ==
    IF name \notin DOMAIN commands THEN [kind |-> "not found"]
    ELSE IF commands[name] = None THEN [kind |-> "options", options |-> Plain(parse(argv))]
    ELSE resolveOptions(commands[name], parse(argv), interactive, answers)

-----------------------------------------------------------------------------
Spell(p, text) ==
    {<<[dashes |-> 2, name |-> p.flag, value |-> text]>>,
     <<[dashes |-> 2, name |-> p.flag, value |-> None], [dashes |-> 0, name |-> text, value |-> None]>>}
\* A word that stays itself when it is read as a number or a boolean.
Canonical(text) == text \notin {"3d", "TRUE"}

\* What the command sees of its parameters.
Seen(parameters, r) ==
    IF r.kind # "options" THEN r
    ELSE [kind |-> r.kind, options |-> [i \in DOMAIN parameters |-> Get(r.options, parameters[i].property)]]

\* A text given as --flag=text or --flag text, or typed at the prompt and accepted
\* there at once, gives the command the same option.
AcceptedAtOnce(p, typed) ==
    /\ p.property \in DOMAIN typed.asked \cap DOMAIN typed.args
    /\ typed.asked[p.property] = 1
    /\ p.type # "boolean" /\ p.choices = None
Agree(flagged, spelled, atOnce, typed) ==
    flagged = spelled /\ (atOnce /\ flagged.kind = "options" => typed = flagged)
SpellingsAgree(parameters, rest, text, answers) ==
    LET p == parameters[1]
        Run(argv, said) == Seen(parameters, resolveOptions(parameters, parse(argv), TRUE, said \o answers))
    IN  Canonical(text) =>
          \A a, b \in Spell(p, text) :
             Agree(Run(a \o rest, <<>>), Run(b \o rest, <<>>),
                   AcceptedAtOnce(p, fillMissingParameters(parameters, parse(rest), TRUE, <<text>> \o answers)),
                   Run(rest, <<text>>))

\* A command runs only with values that its validators accept, and not at all once a
\* prompt of it was cancelled; nobody is asked for a parameter that was passed or has
\* no question, nor without a terminal, nor more than MaxAttempts times; a sensitive
\* value is never part of a message.
RunsOnlyAccepted(parameters, interactive, passed, s, r) ==
    r.kind # "conflict" =>
      /\ s.cancelled => r.kind = "cancelled"
      /\ r.kind = "options" => \A p \in ToSet(parameters) : accepts(p, Get(r.options, p.property))
      /\ \A p \in ToSet(parameters) : p.property \in DOMAIN s.asked =>
            /\ interactive /\ p.question /\ {p.flag, p.property} \cap passed = {}
            /\ s.asked[p.property] <= MaxAttempts
      /\ r.kind = "invalid" =>
           \A l \in r.lines, p \in ToSet(parameters) : p.sensitive /\ l.flag = p.flag => l.shown = None
OnlyAcceptedOptionsRun(parameters, argv, interactive, answers) ==
    LET args == parse(argv)
    IN  RunsOnlyAccepted(parameters, interactive, {k \in DOMAIN args : args[k] # Undef},
          fillMissingParameters(parameters, args, interactive, answers),
          resolveOptions(parameters, args, interactive, answers))
=============================================================================
