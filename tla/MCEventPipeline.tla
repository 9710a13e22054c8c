--------------------------- MODULE MCEventPipeline ---------------------------
(* Instances of EventPipeline for TLC.                                     *)
EXTENDS EventPipeline

Sequential(n) == [order |-> "sequential", size |-> n]
Parallel(n) == [order |-> "parallel", size |-> n]

\* One mapper: a typed event, a queue batch, a fan-out; and no event at all.
OneMapper == {TypedPlan, <<Sequential(2)>>, <<Parallel(2)>>, <<Parallel(0)>>}
\* Two mappers support the raw event.
TwoMappers == {TypedPlan, <<Sequential(2), Parallel(1)>>}
=============================================================================
