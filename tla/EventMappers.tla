---------------------------- MODULE EventMappers ----------------------------
(***************************************************************************)
(* The event mappers of packages/aws, aws-api-gateway, gcp, gcp-functions, *)
(* express and cli.  EventPipeline asks every registered mapper whether it *)
(* supports the raw event, runs all that do and executes the events of     *)
(* each; supportsReverseMapping() chooses who makes the response.          *)
(*                                                                         *)
(* A raw event is [context, keys, version, source, type, isArray, records, *)
(* headers, body, url, method, id, argv]: the execution context, the own   *)
(* properties, and the values the mappers look at.  A record or a topic is *)
(* [keys, source, name, id]; ids are None where the platform sent none.    *)
(* Payload fields are copied one by one and left out.                      *)
(***************************************************************************)
EXTENDS Naturals, Sequences, FiniteSets, SequencesExt

CONSTANT None

Generated == "generated"        \* EventIdManager.generateEventId()
OrGenerated(id) == IF id = None THEN Generated ELSE id
Event(type, id, of) == [type |-> type, id |-> id, of |-> of]
Execution(order, events) == [executionOrder |-> order, events |-> events]
One(order, type, id) == Execution(order, <<Event(type, id, 1)>>)

\* findEnum() of each mapper: a name the enum does not have is an unknown event.
findEnum(known, name) == IF name \in known THEN name ELSE "unknown"
DynamodbEventType == {"INSERT", "MODIFY", "REMOVE"}
S3EventType == {"ObjectCreated:Put", "ObjectRemoved:Delete"}
SnsEventType == {"Notification"}
StorageEventType == {"finalized"}
FirestoreEventType == {"created"}

-----------------------------------------------------------------------------
(* AWS.  A batch of no records makes the mappers of records throw.         *)

HasRecords(e) == "Records" \in e.keys /\ e.isArray
throws(e) == HasRecords(e) /\ e.records = <<>>
FirstHas(e, property, source) ==
    HasRecords(e) /\ property \in e.records[1].keys /\ e.records[1].source = source
MapRecords(e, Type(_), Id(_)) ==
    Execution("parallel",
        [i \in DOMAIN e.records |-> Event(Type(e.records[i]), Id(e.records[i]), i)])

supportsDynamodb(e) == FirstHas(e, "eventSource", "aws:dynamodb") /\ "dynamodb" \in e.records[1].keys
mapDynamodb(e) == MapRecords(e, LAMBDA r : findEnum(DynamodbEventType, r.name), LAMBDA r : r.id)

supportsS3(e) == FirstHas(e, "eventSource", "aws:s3") /\ "s3" \in e.records[1].keys
mapS3(e) == MapRecords(e, LAMBDA r : findEnum(S3EventType, r.name), LAMBDA r : OrGenerated(r.id))

supportsSns(e) == FirstHas(e, "EventSource", "aws:sns") /\ "Sns" \in e.records[1].keys
mapSns(e) == MapRecords(e, LAMBDA r : findEnum(SnsEventType, r.name), LAMBDA r : r.id)

supportsSqs(e) == FirstHas(e, "eventSource", "aws:sqs")
mapSqs(e) == MapRecords(e, LAMBDA r : "SQS_EVENT", LAMBDA r : r.id)

\* The records of Kafka are grouped by topic and partition; an event per group.
supportsKafka(e) == "eventSource" \in e.keys /\ e.source = "aws:kafka"
mapKafka(e) ==
    Execution("sequential", [i \in DOMAIN e.records |-> Event("KAFKA_EVENT", Generated, i)])

supportsEventBridge(e) ==
    {"source", "id", "version", "detail-type", "account", "time", "region", "resources", "detail"}
        \subseteq e.keys
mapEventBridge(e) ==
    One("parallel", IF e.source = "aws.events" THEN "SCHEDULED_EVENT" ELSE "EVENT", e.id)

\* A Request takes the id of its header before the one that is generated.
requestId(e) == OrGenerated(e.headers["x-pristine-request-id"])

supportsHttpApi(e) == {"version", "headers", "requestContext"} \subseteq e.keys /\ e.version = "2.0"
mapHttpApi(e, strategy) ==
    One("sequential", "HTTP_API_EVENT",
        IF strategy = "Request" THEN requestId(e) ELSE e.headers["x-pristine-request-id"])

supportsRestApi(e) ==
    /\ e.context = "AwsLambda"
    /\ {"version", "resource", "path", "httpMethod", "headers"} \subseteq e.keys /\ e.version = "1.0"
mapRestApi(e, strategy) ==
    One("sequential", "REST_API_EVENT",
        IF strategy = "Request" THEN requestId(e) ELSE OrGenerated(e.id))

-----------------------------------------------------------------------------
(* GCP                                                                     *)

supportsCloudStorage(e) == e.type[1] = "storage"
mapCloudStorage(e) == One("parallel", findEnum(StorageEventType, e.type[2]), OrGenerated(e.id))

supportsFirestore(e) == e.type[1] = "firestore"
mapFirestore(e) == One("parallel", findEnum(FirestoreEventType, e.type[2]), OrGenerated(e.id))

supportsPubSub(e) == {"message", "subscription"} \subseteq e.keys
mapPubSub(e) ==
    One(IF "orderingKey" \in e.keys THEN "sequential" ELSE "parallel", "PUB_SUB_MESSAGE", OrGenerated(e.id))

\* EventarcEventMapper leaves the events of the two others alone.
supportsAnyCloudEvent(e) == e.type # <<None>> /\ e.source # None
supportsEventarc(e) ==
    /\ e.type # <<None>> /\ e.source # None
    /\ e.type[1] \notin {"storage", "firestore"}
mapEventarc(e) == One("sequential", "EVENTARC_EVENT", OrGenerated(e.id))

IsHttp(e) == {"method", "url", "headers"} \subseteq e.keys
hasCloudEventHeaders(e) == e.headers["ce-type"] # None
hasStructuredCloudEvent(e) == e.body = "cloud event"

supportsGen1(e) == e.context = "GcpCloudFunction" /\ ~hasCloudEventHeaders(e) /\ IsHttp(e)
mapGen1(e, strategy) ==
    One("sequential", "GEN_1_HTTP_EVENT", IF strategy = "Request" THEN requestId(e) ELSE Generated)

supportsGen2(e) ==
    e.context = "GcpCloudFunction" /\ (hasCloudEventHeaders(e) \/ hasStructuredCloudEvent(e))
\* The id is that of the body or of the ce-id header; toPristineRequest() prefers
\* the header of Pristine.
cloudEventId(e) == OrGenerated(IF hasStructuredCloudEvent(e) THEN e.id ELSE e.headers["ce-id"])
mapGen2(e, strategy) ==
    One("sequential", "GEN_2_HTTP_EVENT",
        IF strategy = "Request" /\ e.headers["x-pristine-request-id"] # None
          THEN e.headers["x-pristine-request-id"] ELSE cloudEventId(e))

supportsCloudRun(e) == e.context = "GcpCloudRun" /\ IsHttp(e)
mapCloudRun(e, strategy) ==
    One("sequential", "CLOUD_RUN_HTTP_EVENT",
        IF strategy = "Request" THEN requestId(e) ELSE Generated)

-----------------------------------------------------------------------------
(* Express and the command line                                            *)

supportsExpress(e) == e.context = "Express"
mapExpress(e) == One("sequential", "EXPRESS_REQUEST", requestId(e))

\* PristineArgv: what follows the first argument whose name is that of the bin.
binIndexes(argv) == {i \in DOMAIN argv : argv[i] = "pristine"}
isValid(argv) == binIndexes(argv) # {}
userArgs(argv) ==
    IF isValid(argv) THEN SubSeq(argv, (CHOOSE i \in binIndexes(argv) :
                                          \A j \in binIndexes(argv) : i <= j) + 1, Len(argv))
    ELSE <<>>

IsArgv(e) == e.context = "Cli" /\ e.isArray /\ isValid(e.argv)
supportsCommand(e) ==
    IsArgv(e) /\ Len(userArgs(e.argv)) >= 1 /\ userArgs(e.argv)[1] # "repl"
mapCommand(e) == One("sequential", "command", Generated)

supportsReplStart(e) ==
    IsArgv(e) /\ (userArgs(e.argv) = <<>> \/ userArgs(e.argv)[1] = "repl")
mapReplStart(e) == One("sequential", "start-repl", Generated)

-----------------------------------------------------------------------------
(* What the pipeline makes of them                                         *)

Mappers == {"dynamodb", "s3", "sns", "sqs", "kafka", "event-bridge", "http-api", "rest-api",
            "cloud-storage", "firestore", "pub-sub", "eventarc", "gen-1", "gen-2", "cloud-run",
            "express", "command", "repl-start"}
RecordMappers == {"dynamodb", "s3", "sns", "sqs"}

supportsMapping(m, e) ==
    CASE m = "dynamodb" -> supportsDynamodb(e)   [] m = "s3" -> supportsS3(e)
      [] m = "sns" -> supportsSns(e)             [] m = "sqs" -> supportsSqs(e)
      [] m = "kafka" -> supportsKafka(e)         [] m = "event-bridge" -> supportsEventBridge(e)
      [] m = "http-api" -> supportsHttpApi(e)    [] m = "rest-api" -> supportsRestApi(e)
      [] m = "cloud-storage" -> supportsCloudStorage(e)
      [] m = "firestore" -> supportsFirestore(e) [] m = "pub-sub" -> supportsPubSub(e)
      [] m = "eventarc" -> supportsEventarc(e)   [] m = "gen-1" -> supportsGen1(e)
      [] m = "gen-2" -> supportsGen2(e)          [] m = "cloud-run" -> supportsCloudRun(e)
      [] m = "express" -> supportsExpress(e)     [] m = "command" -> supportsCommand(e)
      [] m = "repl-start" -> supportsReplStart(e)

map(m, e, strategy) ==
    CASE m = "dynamodb" -> mapDynamodb(e)        [] m = "s3" -> mapS3(e)
      [] m = "sns" -> mapSns(e)                  [] m = "sqs" -> mapSqs(e)
      [] m = "kafka" -> mapKafka(e)              [] m = "event-bridge" -> mapEventBridge(e)
      [] m = "http-api" -> mapHttpApi(e, strategy) [] m = "rest-api" -> mapRestApi(e, strategy)
      [] m = "cloud-storage" -> mapCloudStorage(e) [] m = "firestore" -> mapFirestore(e)
      [] m = "pub-sub" -> mapPubSub(e)           [] m = "eventarc" -> mapEventarc(e)
      [] m = "gen-1" -> mapGen1(e, strategy)     [] m = "gen-2" -> mapGen2(e, strategy)
      [] m = "cloud-run" -> mapCloudRun(e, strategy)
      [] m = "express" -> mapExpress(e)          [] m = "command" -> mapCommand(e)
      [] m = "repl-start" -> mapReplStart(e)

\* supportsReverseMapping(): by the type of the event, or by the context.
supportsReverseMapping(m, e, type) ==
    CASE m = "http-api" -> type = "HTTP_API_EVENT"   [] m = "rest-api" -> type = "REST_API_EVENT"
      [] m = "gen-1" -> type = "GEN_1_HTTP_EVENT"    [] m = "gen-2" -> type = "GEN_2_HTTP_EVENT"
      [] m = "cloud-run" -> type = "CLOUD_RUN_HTTP_EVENT"
      [] m = "express" -> e.context = "Express"
      [] m = "command" -> e.context = "Cli" /\ type = "command"
      [] m = "repl-start" -> e.context = "Cli" /\ type = "start-repl"
      [] OTHER -> FALSE

Claimants(e) == {m \in Mappers : supportsMapping(m, e)}

-----------------------------------------------------------------------------
(* Properties                                                              *)

\* Every event a platform delivers is claimed by exactly one of the mappers, all
\* of them registered, so that it is executed once: one event per record or per
\* topic, in their order, each with an id, and answered by the mapper that made
\* it.  (A structured CloudEvent is the exception: the mappers of both generations
\* of Cloud Functions claim it.  Under the Event strategy the id of an HTTP API
\* event is a header that may be missing.)
EventsAreMappedOnce(e, strategy) ==
    ~throws(e) /\ ~(e.context = "GcpCloudFunction" /\ hasStructuredCloudEvent(e)) =>
        \E m \in Mappers :
            LET execution == map(m, e, strategy)
                events == execution.events
            IN
            /\ Claimants(e) = {m}
            /\ Len(events) = IF m \in RecordMappers \cup {"kafka"} THEN Len(e.records) ELSE 1
            /\ \A i \in DOMAIN events :
                 /\ events[i].of = i
                 /\ events[i].id = None =>
                      \/ m = "http-api" /\ strategy = "Event"
                      \/ m \in RecordMappers \ {"s3"} /\ e.records[i].id = None
                 /\ {n \in Mappers : supportsReverseMapping(n, e, events[i].type)}
                      = {m} \cap {"http-api", "rest-api", "gen-1", "gen-2", "cloud-run", "express",
                                  "command", "repl-start"}
=============================================================================
