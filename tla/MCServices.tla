----------------------------- MODULE MCServices -----------------------------
(***************************************************************************)
(* The services around the core, for TLC.  A behaviour is of one part.     *)
(* The parts that keep no state are operators: `case` is one input of      *)
(* theirs and nothing more happens.  The others are state machines with    *)
(* variables of their own, but for logging and tracing: each of these two  *)
(* is given the variables s1, s2, ... in the order its module declares     *)
(* its own.                                                                *)
(***************************************************************************)
EXTENDS CronExpression, Databases, AppBuild, Aws, Security, HttpExchange
CONSTANTS Parts, Error, MaxAttempts, Unused,
          c1, c2, c3    \* callers, processes, deployers
VARIABLES part, case, s1, s2, s3, s4, s5, s6, s7
slots == <<s1, s2, s3, s4, s5, s6, s7>>

-----------------------------------------------------------------------------
(* Cron: minutes of two seconds, hours of two minutes, days of three hours, *)
(* months of three and two days and a leap day in some years.               *)
ThreeAndTwo == <<3, 2>>
CronTexts ==
    LET all == AllStar
        Seg(low, high, n) == <<[low |-> low, high |-> high, step |-> n]>>
    IN  {all, [all EXCEPT !.second = step(2)], [all EXCEPT !.minute = at(<<1>>)],
         hourlyAtMinute(all, 1), dailyAt(all, 1, 0), weeklyOn(all, 3, 2, 1),
         monthlyOn(all, 3, 0, 0), [monthlyOn(all, 3, 0, 0) EXCEPT !.month = Seg(Name("FEB"), Undefined, Undefined)],
         [monthlyOn(all, 2, 1, 1) EXCEPT !.dayOfWeek = Seg(Name("MON"), Undefined, Undefined)],
         [all EXCEPT !.hour = range(1, 2, Undefined), !.minute = Seg(Number(1), Undefined, Number(1))],
         [all EXCEPT !.dayOfMonth = step(1), !.dayOfWeek = at(<<0, 2>>), !.hour = at(<<2>>)],
         [all EXCEPT !.hour = range(2, 1, Undefined)], [all EXCEPT !.minute = Seg(Name("MON"), Undefined, Undefined)],
         [all EXCEPT !.second = at(<<1>>), !.month = range(1, 2, 1), !.minute = step(2)]}
\* An hour or half of one skipped or repeated, in the day
\* and at its end.
Zones == {[change |-> t, before |-> 0, after |-> d] : t \in {32, 36}, d \in {0, 4, -4, 2, -2}}
CronCases == {[text |-> t, zone |-> z, from |-> f] : t \in CronTexts, z \in Zones, f \in (20..100) \cup {137, 150}}

-----------------------------------------------------------------------------
(* A file of lines, read in chunks from either end.                         *)
Jsonl == INSTANCE JsonlReader
LineCases ==
    {[file |-> f, chunk |-> c, limit |-> l] :
       f \in UNION {[1..n -> {Jsonl!NEWLINE, Jsonl!Blank, Jsonl!Bad, "a"}] : n \in 0..5}, c \in 1..3, l \in 1..2}

-----------------------------------------------------------------------------
(* The rows of a table.                                                     *)
Sql == INSTANCE SqlStatements
SqlColumns(first, second) ==
    <<[property |-> "id", column |-> TRUE, name |-> FALSE, primary |-> first, json |-> FALSE, searchable |-> TRUE],
      [property |-> "data", column |-> TRUE, name |-> FALSE, primary |-> FALSE, json |-> second, searchable |-> TRUE],
      [property |-> "name", column |-> second, name |-> FALSE, primary |-> ~first, json |-> FALSE, searchable |-> TRUE]>>
SqlClasses ==
    {[table |-> t, naming |-> n, reverse |-> r, columns |-> SqlColumns(f, j)] :
       t \in BOOLEAN, n \in BOOLEAN, r \in BOOLEAN, f \in BOOLEAN, j \in BOOLEAN}
    \cup {[table |-> TRUE, naming |-> TRUE, reverse |-> TRUE, columns |-> SubSeq(SqlColumns(TRUE, TRUE), 1, n)] : n \in 1..2}
SqlElements == [{"id", "data", "name"} -> {<<"v", 1>>, <<"v", 2>>}]
RowCases ==
    {[class |-> c, element |-> e, changed |-> d, other |-> o] :
       c \in SqlClasses, e \in SqlElements, d \in SqlElements, o \in SqlElements}
SqlRows == UNION {[1..n -> [like : SUBSET {"f", "g"}, meets : {{}, {"x"}}]] : n \in 0..2}
SearchCases ==
    {[q |-> [query |-> t, include |-> i, exclude |-> x, filters |-> w, page |-> 1, size |-> z], rows |-> r] :
       t \in BOOLEAN, i \in SUBSET {"f", "g"}, x \in {{}, {"f"}}, w \in {{}, {"x"}}, z \in 1..2, r \in SqlRows}

-----------------------------------------------------------------------------
(* What the platforms deliver.                                              *)
Map == INSTANCE EventMappers WITH None <- Undefined
Headers(id, type) ==
    [h \in {"x-pristine-request-id", "ce-type", "ce-id"} |->
       CASE h = "x-pristine-request-id" -> id [] h = "ce-type" -> type [] h = "ce-id" -> "1"]
Raw(context, keys) ==
    [context |-> context, keys |-> keys, version |-> Undefined, source |-> Undefined,
     type |-> <<Undefined>>, isArray |-> TRUE, records |-> <<>>, headers |-> Headers(Undefined, Undefined),
     body |-> Undefined, url |-> Undefined, method |-> Undefined, id |-> Undefined, argv |-> <<>>]
RecordsOf(key, source, own, names) ==
    {[i \in 1..n |-> [keys |-> {key} \cup own, source |-> source, name |-> IF i = 1 THEN "Notification" ELSE name, id |-> i]] :
       n \in 0..2, name \in names}
LambdaEvents ==
    {[Raw("AwsLambda", {"Records"}) EXCEPT !.records = r] :
       r \in RecordsOf("eventSource", "aws:dynamodb", {"dynamodb"}, {"INSERT", "?"})
             \cup RecordsOf("eventSource", "aws:s3", {"s3"}, {"ObjectCreated:Put"})
             \cup RecordsOf("EventSource", "aws:sns", {"Sns"}, {"?"})
             \cup RecordsOf("eventSource", "aws:sqs", {"body"}, {"?"})}
    \cup {[Raw("AwsLambda", {"eventSource", "records"}) EXCEPT !.source = "aws:kafka", !.records = r] :
            r \in RecordsOf("topic", "t", {}, {"?"})}
    \cup {[Raw("AwsLambda", {"source", "id", "version", "detail-type", "account", "time", "region",
                             "resources", "detail"}) EXCEPT !.source = s, !.id = "1"] : s \in {"aws.events", "own"}}
    \cup {[Raw("AwsLambda", {"version", "headers", "requestContext", "body"}) EXCEPT
             !.version = "2.0", !.headers = Headers(i, Undefined)] : i \in {"1", Undefined}}
    \cup {[Raw("AwsLambda", {"version", "resource", "path", "httpMethod", "headers", "requestContext"}) EXCEPT
             !.version = "1.0", !.headers = Headers(i, Undefined)] : i \in {"1", Undefined}}
CloudEvents ==
    {[Raw(c, {"type", "source", "id", "data"}) EXCEPT !.type = t, !.source = "s", !.id = i] :
       c \in {"GcpCloudFunction", "GcpCloudRun"}, i \in {"1", Undefined},
       t \in {<<"storage", "finalized">>, <<"storage", "?">>, <<"firestore", "created">>, <<"audit", "?">>}}
    \cup {Raw("GcpCloudRun", {"message", "subscription"} \cup k) : k \in SUBSET {"orderingKey"}}
HttpEvents ==
    {[Raw(c, {"method", "url", "headers", "body"}) EXCEPT !.headers = Headers(i, t), !.body = b] :
       c \in {"GcpCloudFunction", "GcpCloudRun", "Express"}, i \in {"1", Undefined},
       t \in {"custom", Undefined}, b \in {"cloud event", "json"}}
ArgvEvents ==
    {[Raw("Cli", {}) EXCEPT !.argv = <<"node", "pristine">> \o a] :
       a \in UNION {[1..n -> {"repl", "build", "pristine"}] : n \in 0..2}}
MapperCases ==
    {[event |-> e, strategy |-> s] : e \in LambdaEvents \cup CloudEvents \cup HttpEvents \cup ArgvEvents,
                                     s \in {"Request", "Event"}}

-----------------------------------------------------------------------------
(* Requests of browsers under every policy.                                 *)
Policies == [origins : SUBSET {"a"}, hosts : SUBSET {"h"}, exposed : BOOLEAN, credentials : {TRUE}, privateNetwork : BOOLEAN]
HttpRequests ==
    [method : {"GET", "OPTIONS", "POST"}, origin : {Unsent, "a", "b"}, host : {Unsent, "h", "i"},
     requestMethod : {Unsent, "PUT"}, privateNetwork : BOOLEAN,
     contentType : {"application/json", "image/png"}, charset : {Unsent, "latin1"}, body : {"json", ""}]
HttpOutcomes ==
    {[kind |-> k, status |-> 200, headers |-> h] :
       k \in {"object", "text", "throws", "too large"},
       h \in {NoHeaders, With(NoHeaders, "Allow-Origin", "*")}}
ExchangeCases == {[policy |-> p, request |-> r, outcome |-> o] : p \in Policies, r \in HttpRequests, o \in HttpOutcomes}
AnyExchange == CHOOSE x \in Exchanges : TRUE

-----------------------------------------------------------------------------
(* Two keys defined in every way, in every source.                          *)
Config == INSTANCE Configuration WITH None <- Undefined
EnvTexts == {Undefined, "", "0", "1", "6", "true", "false", "tree", "info", "junk"}
SourceOf(name) == {Config!NoValues, [k \in {"k"} |-> Config!Text(name)], [k \in {"k", "other"} |-> Config!Text(name)],
                   [k \in {"k"} |-> <<"object">>]}
ConfigFolders(file) ==
    {<<[n \in {} |-> Undefined], [n \in {"pristine.config.js"} |-> file]>>,
     <<[n \in {"pristine.config.js", "pristine.config.ts"} |-> IF n = "pristine.config.ts" THEN file ELSE Undefined],
       [n \in {"pristine.config.ts"} |-> Undefined]>>,
     <<[n \in {"package.json"} \ {"package.json"} |-> Undefined]>>}
LoadCases ==
    {[definitions |-> [k \in {"k", "q"} |-> IF k = "k" THEN c ELSE d], overrides |-> o, path |-> p, modules |-> <<m, n>>, env |-> e] :
       c \in {Config!Definition(Config!Num(1), <<Config!Reader("number", {}), Config!Reader("boolean", {})>>)},
       d \in {Config!Required({"q"}, 1)["q"], Config!Required({"q"}, 0)["q"], Config!Constants({"q"})["q"]},
       o \in SourceOf("o"), p \in UNION {ConfigFolders(f) : f \in SourceOf("f") \cup {Undefined}},
       m \in SourceOf("m"), n \in SourceOf("n"), e \in {Undefined, "1", "true", "junk"}}
EnvironmentCases == {[key |-> a[1], definition |-> a[2], env |-> e] : a \in Config!AllDefinitions, e \in EnvTexts}

-----------------------------------------------------------------------------
(* Trees of three members, and two classes.                                 *)
Data == INSTANCE DataMapping WITH None <- Undefined
DataScalars == {<<"string", "A">>, <<"string", "1">>, <<"number", 1>>, Data!Null}
DataChild == Data!Member("Leaf", "a", "b")
DataTrees ==
    LET roots == {Data!EmptyBuilder, Data!addRootNormalizer(Data!EmptyBuilder, "string"),
                  Data!addBeforeMappingInterceptor(Data!addAfterMappingInterceptor(
                      Data!addRootNormalizer(Data!EmptyBuilder, "number"), "after"), "before")}
        leaves == {Data!field(r, r, "Leaf", "a", d, o, x, n) :
                     r \in roots, d \in {Undefined, "b"}, o \in BOOLEAN, x \in {<<>>, <<"string", "number">>},
                     n \in {<<>>, <<"lowercase">>}}
        nests == {Data!nested(b, t, "o", d, TRUE, c, <<DataChild>>) :
                    b \in leaves, t \in {"Node", "ObjectArray"}, d \in {"o", "p"}, c \in {"C"}}
    IN  {Data!field(b, b, "ScalarArray", "s", Undefined, TRUE, <<"string">>, <<"boolean">>) : b \in nests}
DataInner == {Data!Undef, Data!Null, Data!Plain([k \in {"a"} |-> <<"string", "A">>]), Data!Plain([k \in {"a", "z"} |-> <<"number", 0>>])}
DataSources ==
    {Data!Plain([k \in {"a", "o", "s"} \cup z |->
       CASE k = "a" -> a [] k = "o" -> o [] k = "s" -> s [] OTHER -> <<"string", "1">>]) :
       a \in DataScalars, s \in {<<"array", <<>>>>, <<"array", <<<<"number", 1>>, <<"string", "A">>>>>>}, z \in {{}, {"z"}},
       o \in DataInner \cup {<<"array", q>> : q \in {<<>>} \cup {<<x>> : x \in DataInner}}}
    \cup {Data!Plain([k \in {"s"} |-> Data!Null]), Data!Null}
MappingCases == {[tree |-> t, source |-> s, exclude |-> e] : t \in DataTrees, s \in DataSources, e \in {TRUE, FALSE, Undefined}}
DataProperty(name, type, member) == [name |-> name, type |-> type, member |-> member]
DataClasses ==
    [c \in {"C", "D"} |->
       IF c = "C" THEN <<DataProperty("a", "string", Undefined), DataProperty("o", "object", "D"), DataProperty("s", "array", Undefined)>>
       ELSE <<DataProperty("a", "number", Undefined), DataProperty("o", "array", "D")>>]
AutoCases ==
    {[first |-> f, firstClass |-> c, second |-> s, class |-> d, exclude |-> e] :
       f \in {s \in DataSources : Data!Get(s, "a") # <<"string", "1">>}, c \in {"C", "D"},
       s \in {s \in DataSources : Data!Get(s, "a") \in {<<"number", 1>>, Data!Null, Data!Undef}}, d \in {"C", "D"}, e \in BOOLEAN}

-----------------------------------------------------------------------------
(* A command with two parameters.                                           *)
Cli == INSTANCE CommandLine WITH None <- Undefined
Parameter(name, flag, type, question, sensitive, required, choices, accepted) ==
    [property |-> name, flag |-> flag, type |-> type, question |-> question, sensitive |-> sensitive,
     required |-> required, choices |-> choices, accepted |-> accepted]
CliAccepted(type) ==
    CASE type = "string" -> {Cli!String("x"), Cli!String("5"), Cli!String("true")}
      [] type = "number" -> {<<"number", 5>>}
      [] type = "boolean" -> {Cli!Truth(TRUE), Cli!Truth(FALSE)}
Commands ==
    {<<Parameter("a", f, t, q, z, r, c, CliAccepted(t)),
       Parameter("b", g, "string", TRUE, FALSE, TRUE, Undefined, {Cli!String("x"), Cli!String("y")})>> :
       f \in {"a", "f"}, t \in {"string", "number", "boolean"}, q \in BOOLEAN, z \in BOOLEAN, r \in BOOLEAN,
       c \in {Undefined, <<"x", "q">>}, g \in {"b", "f"}}
Word(dashes, name, value) == [dashes |-> dashes, name |-> name, value |-> value]
Rests == {<<>>, <<Word(2, "b", "x")>>, <<Word(1, "b", Undefined)>>, <<Word(0, "y", Undefined), Word(2, "b", "y"), Word(2, "b", "x")>>}
CliTexts == {"x", "5", "true", "3d", "TRUE"}
\* Where nobody is asked, what would be answered is left out.
CliAnswers == {<<"3d", "q", "5">>, <<"q", "q", "q", "x">>, <<"q", "^C">>}
CommandCases ==
    {[parameters |-> p, rest |-> r, text |-> t, interactive |-> a # <<>>, answers |-> a] :
       p \in Commands, r \in Rests, t \in CliTexts, a \in CliAnswers \cup {<<>>}}

-----------------------------------------------------------------------------
(* Voters, guards and tokens.                                               *)
UpToThreeVoters == UNION {[1..n -> Voters] : n \in 0..3}
Claims ==
    {[isArray |-> TRUE, truthy |-> TRUE, names |-> n] : n \in SUBSET {"x", "y"}}
    \cup {[isArray |-> FALSE, truthy |-> t, names |-> {}] : t \in BOOLEAN}
Identities ==
    {None, [claims |-> None]}
    \cup {[claims |-> [k \in d |-> v]] : d \in SUBSET {"roles", "cognito:groups", "x"},
                                         v \in Claims}
GuardInputs ==
    {[context |-> c, more |-> m, identity |-> i] :
       c \in {None} \cup SUBSET {"x", "y"}, m \in SUBSET {"x", "y"}, i \in Identities}
JwtInputs ==
    {[header |-> h] : h \in {None} \cup [bearer : BOOLEAN, signed : BOOLEAN, expired : BOOLEAN,
                                              algorithm : {"configured", "none"}]}

-----------------------------------------------------------------------------
(* Logs of nested values.                                                   *)
LogValues0 == {<<"flat", "v">>}
LogValues1 == LogValues0 \cup {<<"array", <<v>>>> : v \in LogValues0}
                \cup {<<"object", [k \in d |-> <<"flat", "v">>]>> : d \in SUBSET {"a", "b"}}
LogValues2 == LogValues1 \cup {<<"array", <<v, w>>>> : v \in LogValues1, w \in LogValues0}
                \cup {<<"object", [k \in {"a", "c"} |-> IF k = "a" THEN v ELSE w]>> : v \in LogValues1, w \in LogValues1}
LogCases ==
    {[log |-> <<"object", [k \in {"severity", "message", "extra"} |-> IF k = "extra" THEN v ELSE <<"flat", k>>]>>,
      depth |-> d] : v \in LogValues2, d \in 1..4}

-----------------------------------------------------------------------------
(* The state machines.                                                      *)
\* What the theorems about these parts assume of the constants.
ASSUME ServicesAssumption == MigrationsAssumption /\ HandlesAssumption /\ BuildAssumption /\ CloudFormationAssumption
                             /\ DynamoAssumption /\ SecurityAssumption /\ ExchangeAssumption

Token(kid, signer, aud, expiry) ==
    [header |-> TRUE, kid |-> kid, signer |-> signer, iss |-> TRUE, exp |-> expiry, authTime |-> 0,
     aud |-> aud, scopes |-> {"scope"}]
ClientTokens ==
    {Token(1, 1, {"own"}, 1), Token(2, 2, {"own", "other"}, 2), Token(1, 2, {"own"}, 2), Token(3, 3, {"other"}, 2),
     [Token(1, 1, {"own"}, 2) EXCEPT !.iss = FALSE], [Token(1, 1, {"own"}, 2) EXCEPT !.scopes = {}],
     [Token(2, 2, {"own"}, 2) EXCEPT !.authTime = 1], [Token(1, 1, {"own"}, 2) EXCEPT !.header = FALSE]}

Console == INSTANCE Logging WITH
    ErrorSeverity <- 2, logSeverityLevelConfiguration <- 1, numberOfStackedLogs <- 3, maximumLogsPerSecond <- 2,
    SecondsPerMinute <- 2, MaxClock <- 3, MaxLogs <- 4, Traces <- {"trace"}, None <- Undefined,
    stackedLogs <- s1, arrays <- s2, throttle <- s3, clock <- s4, logged <- s5, written <- s6, reached <- s7

Telemetry == INSTANCE Tracing WITH
    Keynames <- {"root", "a"}, RootKeyname <- "root", MaxSpans <- 3, MaxTraces <- 2, MaxNow <- 1, None <- Undefined,
    isActive <- s1, traces <- s2, trace <- s3, spans <- s4, pushed <- s5, now <- s6

BuildConfig(paths, out, format, clean, plugins) ==
    [paths |-> paths, out |-> out, format |-> format, clean |-> clean, plugins |-> plugins]
BuildConfigs ==
    {Unset, BuildConfig(TRUE, "esm", "esm", FALSE, "ok"), BuildConfig(TRUE, "cjs", "esm", FALSE, "broken"),
     BuildConfig(TRUE, "cjs", "both", TRUE, "ok"), BuildConfig(FALSE, "esm", "cjs", FALSE, "none")}

-----------------------------------------------------------------------------
CasesOf(p) == CASE p = "cron" -> CronCases
                [] p = "lines" -> LineCases
                [] p = "rows" -> RowCases
                [] p = "search" -> SearchCases
                [] p = "mappers" -> MapperCases
                [] p = "load" -> LoadCases
                [] p = "environment" -> EnvironmentCases
                [] p = "mapping" -> MappingCases
                [] p = "automap" -> AutoCases
                [] p = "commands" -> CommandCases
                [] p = "logs" -> LogCases
                [] OTHER -> {Unused}

\* The slots a part does not use.
Free7 == s7 = Unused
Free6 == s6 = Unused /\ Free7
Free5 == s5 = Unused /\ Free6
Free4 == s4 = Unused /\ Free5
Free1 == s1 = Unused /\ s2 = Unused /\ s3 = Unused /\ Free4
Init ==
    /\ part \in Parts /\ case \in CasesOf(part)
    /\ MigrationsInit /\ (part # "migrations" => release = [m \in Names |-> Absent])
    /\ HandlesInit /\ (part # "handles" => client = "mysql")
    /\ BuildInit /\ (part # "builds" => project.isTTY /\ project.source = "one" /\ project.config = Unset)
    /\ TokenInit /\ (part # "tokens" => provider = "auth0")
    /\ CloudFormationInit
    /\ IF part = "http" THEN ExchangeInit ELSE served = AnyExchange
    /\ DynamoInit /\ (part # "table" => table = {})
    /\ \/ part \notin {"console", "tracing"} /\ Free1
       \/ part = "console" /\ Console!LoggingInit
       \/ part = "tracing" /\ Telemetry!TracingInit /\ Free7

Next ==
    /\ UNCHANGED <<part, case, served>>
    /\ \/ part = "migrations" /\ MigrationsNext /\ UNCHANGED <<handleVars, buildVars, tokenVars, cfVars, dynamoVars, slots>>
       \/ part = "handles" /\ HandlesNext /\ UNCHANGED <<migrationVars, buildVars, tokenVars, cfVars, dynamoVars, slots>>
       \/ part = "builds" /\ BuildNext /\ UNCHANGED <<migrationVars, handleVars, tokenVars, cfVars, dynamoVars, slots>>
       \/ part = "tokens" /\ TokenNext /\ UNCHANGED <<migrationVars, handleVars, buildVars, cfVars, dynamoVars, slots>>
       \/ part = "stacks" /\ CloudFormationNext /\ UNCHANGED <<migrationVars, handleVars, buildVars, tokenVars, dynamoVars, slots>>
       \/ part = "table" /\ DynamoNext /\ UNCHANGED <<migrationVars, handleVars, buildVars, tokenVars, cfVars, slots>>
       \/ /\ \/ part = "console" /\ Console!LoggingNext
             \/ part = "tracing" /\ Telemetry!TracingNext /\ UNCHANGED s7
          /\ UNCHANGED <<migrationVars, handleVars, buildVars, tokenVars, cfVars, dynamoVars>>
vars == <<part, case, served, slots, migrationVars, handleVars, buildVars, tokenVars, cfVars, dynamoVars>>
Spec == Init /\ [][Next]_vars

-----------------------------------------------------------------------------
(* Properties, as the modules of the parts state them.                      *)

\* CronExpression: the next date is the first one that matches, in any zone.
CronFindsTheFirst == part = "cron" => NextIsFirstMatch(case.text, case.zone, case.from)

\* The event mappers of every platform: an event is claimed by one of them and mapped.
EventsAreMappedOnce == part = "mappers" => Map!EventsAreMappedOnce(case.event, case.strategy)

\* ConfigurationManager: sources take precedence in one order, and what comes from the
\* environment has the type of its definition.
ConfigurationIsFaithful ==
    /\ part = "load" =>
         Config!LoadFollowsPrecedence(case.definitions, case.overrides, case.path, case.modules, case.env)
    /\ part = "environment" => Config!EnvironmentKeepsTypes(case.key, case.definition, case.env)

\* DataMapper: a tree maps alike after it was exported and imported, or taken from the cache.
\* MysqlClient and SqliteClient: a row reads back as it was written, and a search pages
\* through what matches.
MappingsAgree ==
    /\ part = "rows" => Sql!RowsRoundTrip(case.class, case.element, case.changed, case.other)
    /\ part = "search" => Sql!SearchMatches(<<"f", "g">>, {"f", "g"}, case.q, case.rows)
    /\ part = "mapping" => Data!ImportMapsAlike(case.tree, case.source, case.exclude)
                           /\ Data!ExtraneousFollowsOption(case.tree, case.source)
    /\ part = "automap" => Data!CacheMapsAlike(DataClasses, case.first, case.firstClass, case.second, case.class, case.exclude)

\* Commands: every spelling of an option means the same, and only options that were
\* accepted reach a command.
CommandsGetTheirOptions ==
    part = "commands" =>
      LET p == case.parameters
          spelled == Cli!Spell(p[1], case.text)
      IN  /\ Cli!SpellingsAgree(p, case.rest, case.text, case.answers)
          /\ \A a \in spelled \cup {<<>>} :
                Cli!OnlyAcceptedOptionsRun(p, a \o case.rest, case.interactive, case.answers)

\* ConsoleLogger, TracingManager and JsonlReader: logs and spans are neither lost nor
\* written twice on the way to the console, the tracers and the readers of the store.
TelemetryIsWhole ==
    /\ part = "console" => Console!ConsoleIsFaithful
    /\ part = "logs" => Console!OnlyDepthIsLost(case.log, case.depth)
    /\ part = "tracing" => Telemetry!TracesAreWhole
    /\ part = "lines" => Jsonl!ReadsEveryLine(case.file, case.chunk, case.limit)
=============================================================================
