--------------------------- MODULE Configuration ---------------------------
(***************************************************************************)
(* packages/configuration: the values of the keys that the modules define, *)
(* from the arguments of Kernel.start(), pristine.config.ts, the defaults  *)
(* of the modules, resolvers that read the environment and the default of  *)
(* the definition; the definitions of the modules of this repository; and  *)
(* the search for pristine.config.ts.                                      *)
(*                                                                         *)
(* A value is <<type, value>>.  The value of an environment variable is    *)
(* text: what it is as a number is Numeric, the rest are words.            *)
(***************************************************************************)
EXTENDS Naturals, Sequences, FiniteSets, SequencesExt

CONSTANT None           \* a variable that is not set, a resolver that throws

Text(t) == <<"string", t>>
Num(n) == <<"number", n>>
Bool(b) == <<"boolean", b>>

\* +text: the empty text is 0.
Numeric(t) == CASE t = "" -> 0 [] t = "0" -> 0 [] t = "1" -> 1 [] t = "6" -> 6 [] OTHER -> None

-----------------------------------------------------------------------------
(* Resolvers of an environment variable.                                    *)

resolveBoolean(t) ==
    CASE t \in {"true", "1"} -> Bool(TRUE) [] t \in {"false", "0"} -> Bool(FALSE) [] OTHER -> None
unconverted(t) == IF Numeric(t) = None THEN None ELSE Text(t)
resolveNumber(t) == IF Numeric(t) = None THEN None ELSE Num(Numeric(t))
\* EnumResolver: a number is looked for among the values, a word among the names,
\* without regard to case, and the values.  An enum is a set of <<name, value>>.
resolveEnum(t, enum) ==
    LET found == {e \in enum : IF Numeric(t) # None THEN e[2] = Num(Numeric(t))
                               ELSE e[1] = t \/ e[2] = Text(t)}
    IN  IF found = {} THEN None ELSE (CHOOSE e \in found : TRUE)[2]
resolveEnvironmentVariable(r, t) ==
    CASE t = None -> None
      [] t # None /\ r.kind = "text" -> Text(t)
      [] t # None /\ r.kind = "boolean" -> resolveBoolean(t)
      [] t # None /\ r.kind = "number" -> resolveNumber(t)
      [] t # None /\ r.kind = "enum" -> resolveEnum(t, r.enum)

\* ConfigurationParser.resolve(): plain values pass, resolvers are awaited, objects
\* of another kind and undefined throw.
resolve(v, env) ==
    CASE v[1] \in {"boolean", "number", "string"} -> v
      [] v[1] = "resolver" -> resolveEnvironmentVariable(v[2], env)
      [] OTHER -> None

-----------------------------------------------------------------------------
(* ConfigurationManager.  `env` is the text of the variable that every      *)
(* resolver of the case at hand reads.                                      *)

firstRegistered(definitions, more) ==
    [k \in DOMAIN definitions \cup DOMAIN more |-> IF k \in DOMAIN definitions THEN definitions[k] ELSE more[k]]
register(definitions, key, definition) ==
    IF key \in DOMAIN definitions THEN None
    ELSE firstRegistered(definitions, [k \in {key} |-> definition])

\* findConfigFile(): the directories from here to the root, each a function from the
\* names it has to what the file exports, None when it cannot be imported.
findConfigFile(path) ==
    LET names == <<"pristine.config.ts", "pristine.config.js">>
        In(d) == SelectSeq(names, LAMBDA n : n \in DOMAIN path[d])
        found == {d \in DOMAIN path : In(d) # <<>>}
    IN  IF found = {} THEN None
        ELSE LET d == CHOOSE d \in found : \A e \in found : d <= e IN <<d, In(d)[1]>>
importConfigFile(path) ==
    LET at == findConfigFile(path) IN IF at = None THEN None ELSE path[at[1]][at[2]]

\* readFileConfigSafely(): a file that is missing, throws or has no object is {}.
NoValues == [k \in {} |-> None]
readFileConfigSafely(path) == IF importConfigFile(path) = None THEN NoValues ELSE importConfigFile(path)

filesLast(overrides, file, defaults, key) ==
    IF key \in DOMAIN file THEN file[key]
    ELSE IF key \in DOMAIN overrides THEN overrides[key] ELSE defaults[key]
mergedValue(overrides, file, defaults, key) ==
    IF key \in DOMAIN overrides THEN overrides[key]
    ELSE IF key \in DOMAIN file THEN file[key] ELSE defaults[key]

\* The resolvers of a definition, the first that does not throw; then its default.
defaultOf(d, env) ==
    LET values == [i \in DOMAIN d.resolvers |-> resolve(d.resolvers[i], env)]
        found == {i \in DOMAIN values : values[i] # None}
    IN  IF found # {} THEN values[CHOOSE i \in found : \A j \in found : i <= j]
        ELSE IF d.required THEN None ELSE resolve(d.default, env)

\* load(): a value that cannot be parsed throws at once; unknown keys and required
\* ones that are missing throw together once everything else is registered.
load(definitions, overrides, path, defaults, env) ==
    LET file == readFileConfigSafely(path)
        given == DOMAIN overrides \cup DOMAIN file \cup DOMAIN defaults
        unknown == given \ DOMAIN definitions
        value(k) == IF k \in given THEN resolve(mergedValue(overrides, file, defaults, k), env)
                    ELSE defaultOf(definitions[k], env)
        unresolved == {k \in DOMAIN definitions : value(k) = None}
    IN  [fails |-> unknown # {} \/ unresolved # {},
         missing |-> unresolved \ given,
         values |-> [k \in DOMAIN definitions \ unresolved |-> value(k)]]

\* The check of Kernel.verifyInstantiation() looks at the arguments only.
getMissingRequiredParameters(definitions, overrides) ==
    {k \in DOMAIN definitions : definitions[k].required /\ k \notin DOMAIN overrides}

\* Kernel.collectConfigDefaults(): modules in their order, each a function from keys
\* to values; two that disagree throw.
collectConfigDefaults(modules) ==
    LET keys == UNION {DOMAIN modules[i] : i \in DOMAIN modules}
        valuesOf(k) == {modules[i][k] : i \in {j \in DOMAIN modules : k \in DOMAIN modules[j]}}
    IN  IF \E k \in keys : Cardinality(valuesOf(k)) > 1 THEN None
        ELSE [k \in keys |-> CHOOSE v \in valuesOf(k) : TRUE]

-----------------------------------------------------------------------------
(* What the modules define.                                                 *)

Reader(kind, enum) == <<"resolver", [kind |-> kind, enum |-> enum]>>
Definition(default, readers) == [default |-> default, required |-> FALSE, resolvers |-> readers]
Texts(keys) == [k \in keys |-> Definition(Text(k), <<Reader("text", {})>>)]
Numbers(keys) == [k \in keys |-> Definition(Num(10), <<Reader("number", {})>>)]
Booleans(keys) == [k \in keys |-> Definition(Bool(TRUE), <<Reader("boolean", {})>>)]
Enums(keys, enum) == [k \in keys |-> Definition((CHOOSE e \in enum : TRUE)[2], <<Reader("enum", enum)>>)]
Constants(keys) == [k \in keys |-> Definition(Text(k), <<>>)]
Required(keys, readers) == [k \in keys |-> [default |-> <<"undefined">>, required |-> TRUE,
                                            resolvers |-> [i \in 1..readers |-> Reader("text", {})]]]

SeverityEnum == {<<"debug", Num(0)>>, <<"info", Num(1)>>, <<"critical", Num(6)>>}
WordEnum == {<<"tree", Text("tree")>>, <<"json", Text("json")>>}

LoggingDefinitions ==
    <<Numbers({"numberOfStackedLogs", "maximumLogsPerSecond"}
              \cup {"logDebugDepth", "logInfoDepth", "logSuccessDepth", "logNoticeDepth", "logWarningDepth",
                    "logErrorDepth", "logCriticalDepth"}),
      Enums({"logSeverityLevelConfiguration"}, SeverityEnum),
      Enums({"consoleLoggerOutputMode"}
            \cup {"debugStream", "infoStream", "successStream", "noticeStream", "warningStream", "errorStream",
                  "criticalStream"}, WordEnum),
      Booleans({"consoleLoggerActivated", "activateDiagnostics"})>>
HttpDefinitions ==
    <<Booleans({"logging-enabled", "cors.allow-credentials", "cors.allow-private-network"}),
      Numbers({"file.port", "kernel-server.port", "max-body-size", "cors.max-age"}),
      Texts({"file.address", "kernel-server.address", "tls.key-path", "tls.cert-path", "cors.allowed-origins",
             "cors.allowed-methods", "cors.allowed-headers", "cors.exposed-headers", "cors.allowed-hosts"})>>
ObservabilityDefinitions ==
    <<Booleans({"enabled"}), Texts({"directory"}),
      Numbers({"retained-instances", "max-store-size", "max-log-file-size", "max-log-files", "max-trace-files",
               "max-trace-file-size", "max-entry-size", "max-retention-age", "log-severity-level"})>>
NetworkingDefinitions ==
    <<Booleans({"requestBodyConverter", "defaultContentTypeResponseHeader.isActive", "routerCache", "tracePropagation"}),
      Texts({"defaultContentTypeResponseHeader"})>>
TelemetryDefinitions ==
    <<Booleans({"active", "debug", "console-tracer.activated"}), Enums({"console-tracer.output-mode"}, WordEnum),
      Numbers({"console-tracer.minimum-duration-ms"})>>
McpDefinitions == <<Texts({"server.name", "server.version", "server.instructions", "http.allowed-origins"})>>
CliDefinitions == <<Booleans({"interactive-parameters"}), Texts({"bin-name"})>>
GcpDefinitions == <<Required({"projectId"}, 2), Texts({"region", "credentials"})>>
GcpTraceDefinitions == <<Booleans({"debug", "activated"}), Texts({"projectId"})>>
GcpFunctionsDefinitions == <<Enums({"gen-1", "gen-2", "cloud-run"}, WordEnum)>>
IdentityPlatformDefinitions == <<Required({"projectId"}, 2)>>
AwsDefinitions == <<Texts({"region"})>>
CognitoDefinitions == <<Texts({"region"}), Required({"poolId"}, 1)>>
ApiGatewayDefinitions == <<Enums({"restApiEvents", "httpApiEvents"}, WordEnum)>>
XrayDefinitions == <<Booleans({"debug", "activated"})>>
SentryDefinitions == <<Required({"sentryDsn", "tagRelease"}, 1), Numbers({"sampleRate"}), Booleans({"activated"})>>
RedisDefinitions == <<Required({"host", "namespace"}, 1), Numbers({"port"})>>
JwtDefinitions == <<Texts({"algorithm"}), Required({"publicKey"}, 0), Constants({"privateKey", "passphrase"})>>
MysqlCliDefinitions == <<Constants({"scaffold.path", "scaffold.barrelPath"})>>
Auth0Definitions == <<Required({"issuer.domain"}, 1), Texts({"expected.audience"})>>
StripeDefinitions == <<Required({"stripeApiKey"}, 0)>>
OpenSearchDefinitions == <<Required({"domain-url"}, 1)>>
SecurityDefinitions == <<Texts({"rolesClaimKey"})>>
\* The body converter of the core module is a boolean whose variable is read as text.
CoreDefinitions ==
    <<Texts({"environment"}), Enums({"event_id_generation_style"}, WordEnum),
      [k \in {"requestBodyConverterActive"} |-> Definition(Bool(TRUE), <<Reader("text", {})>>)]>>

ModuleDefinitions ==
    <<LoggingDefinitions, HttpDefinitions, ObservabilityDefinitions, NetworkingDefinitions, TelemetryDefinitions,
      McpDefinitions, CliDefinitions, GcpDefinitions, GcpTraceDefinitions, GcpFunctionsDefinitions,
      IdentityPlatformDefinitions, AwsDefinitions, CognitoDefinitions, ApiGatewayDefinitions, XrayDefinitions,
      SentryDefinitions, RedisDefinitions, JwtDefinitions, MysqlCliDefinitions, Auth0Definitions, StripeDefinitions,
      OpenSearchDefinitions, SecurityDefinitions, CoreDefinitions>>
AllDefinitions ==
    UNION {{<<k, group[k]>> : k \in DOMAIN group} : group \in UNION {ToSet(ModuleDefinitions[i]) : i \in DOMAIN ModuleDefinitions}}

-----------------------------------------------------------------------------
\* load() gives every key the value of the first source that has it, whatever the
\* others say; it fails exactly when a source has a key nobody defines, the value
\* chosen cannot be resolved or a required key has no value, and the missing keys
\* it names are among those the check of verifyInstantiation() warned of.
LoadFollowsPrecedence(definitions, overrides, path, modules, env) ==
    LET defaults == collectConfigDefaults(modules)
        near == {d \in DOMAIN path : DOMAIN path[d] # {}}
        nearest == path[CHOOSE d \in near : \A e \in near : d <= e]
        chosen == IF "pristine.config.ts" \in DOMAIN nearest THEN nearest["pristine.config.ts"]
                  ELSE nearest["pristine.config.js"]
        file == IF near = {} THEN NoValues ELSE IF chosen = None THEN NoValues ELSE chosen
        sources == <<overrides, file, defaults>>
        loaded == load(definitions, overrides, path, defaults, env)
        Having(k) == {i \in 1..3 : k \in DOMAIN sources[i]}
        First(k) == sources[CHOOSE i \in Having(k) : \A j \in Having(k) : i <= j][k]
    IN  IF defaults = None THEN \E i \in DOMAIN modules, j \in DOMAIN modules : modules[i] # modules[j]
        ELSE
        /\ loaded.missing \subseteq getMissingRequiredParameters(definitions, overrides)
        /\ loaded.fails <=>
             \/ \E i \in 1..3 : ~(DOMAIN sources[i] \subseteq DOMAIN definitions)
             \/ DOMAIN loaded.values # DOMAIN definitions
        /\ \A k \in DOMAIN loaded.values :
             IF Having(k) # {} THEN loaded.values[k] = resolve(First(k), env)
             ELSE definitions[k].required =>
                    \E i \in DOMAIN definitions[k].resolvers : loaded.values[k] = resolve(definitions[k].resolvers[i], env)

\* Whatever the text of its environment variable, a key of any module but one is
\* given a value of the type of its default, and without the variable it is only
\* missing when it is required.  A text that is not of that type is ignored.
EnvironmentKeepsTypes(key, d, env) ==
    LET v == defaultOf(d, env) IN
    /\ v = None => d.required
    /\ v # None /\ ~d.required /\ key # "requestBodyConverterActive" => v[1] = d.default[1]
    /\ \A i \in DOMAIN d.resolvers : d.resolvers[i][2].kind = "enum" /\ ~d.required =>
         v \in {e[2] : e \in d.resolvers[i][2].enum}
=============================================================================
