--------------------------- MODULE CloudFormation ---------------------------
(***************************************************************************)
(* packages/aws, CloudformationClient.deployStack(): a change set is made  *)
(* for a stack, watched until it is ready, executed, and the stack is      *)
(* watched until the deployment has an outcome.  Every call of the         *)
(* provider is one step of a deployer; between two of them the provider,   *)
(* and the other deployers of the same stack, go on.                       *)
(*                                                                         *)
(* The provider is external: a change set fails when it changes nothing or *)
(* for any other reason; only a change set that is ready can be executed,  *)
(* while no operation runs, and it takes the other change sets with it; an *)
(* operation succeeds or is rolled back.  Any request may be thrown, also  *)
(* when it took effect and its answer was lost.  An execution that was     *)
(* accepted is assumed to show in the status of the stack at once.         *)
(***************************************************************************)
EXTENDS Naturals, Sequences, FiniteSets

CONSTANTS Deployers,        \* callers of deployStack()
          Templates,
          MaxDeployments,   \* bound: deployments of one deployer
          Nil

Operating == {"CREATE_IN_PROGRESS", "UPDATE_IN_PROGRESS", "UPDATE_COMPLETE_CLEANUP_IN_PROGRESS",
               "ROLLBACK_IN_PROGRESS", "UPDATE_ROLLBACK_IN_PROGRESS"}
Updatable == {"CREATE_COMPLETE", "UPDATE_COMPLETE", "UPDATE_ROLLBACK_COMPLETE"}
ChangeSetTypes == {"CREATE", "UPDATE"}
StackRecords ==
    [status : Operating \cup Updatable \cup {"REVIEW_IN_PROGRESS", "ROLLBACK_COMPLETE"}, template : Templates \cup {Nil}]
ChangeSetRecords ==
    [status : {"CREATE_IN_PROGRESS", "CREATE_COMPLETE", "FAILED"}, reason : {"no changes", Nil},
     type : ChangeSetTypes, template : Templates]
Reports == {"thrown", "NoChangesToPerform", "Failed", "Completed"}

CloudFormationAssumption == Nil \notin StackRecords \cup ChangeSetRecords \cup ChangeSetTypes \cup Reports

VARIABLES stack,            \* [status, template], the provider's; Nil: does not exist
          changeSets,       \* deployer -> its change set, Nil when it has none
          deployers,        \* deployer -> where its call is, and what it returned
          executed          \* history: the change sets executed, and whether they were applied

cfVars == <<stack, changeSets, deployers, executed>>

NoDeployment == [at |-> "idle", template |-> Nil, type |-> Nil, report |-> Nil, execution |-> 0, count |-> 0]
CloudFormationInit ==
    /\ stack = Nil
    /\ changeSets = [d \in Deployers |-> Nil]
    /\ deployers = [d \in Deployers |-> NoDeployment]
    /\ executed = <<>>

DeployerAt(d, place) == deployers[d].at = place
DeployerGoes(d, place) == deployers' = [deployers EXCEPT ![d].at = place]
Return(d, report) == deployers' = [deployers EXCEPT ![d].at = "done", ![d].report = report]

-----------------------------------------------------------------------------
(* The provider.                                                            *)

\* A change set becomes ready or fails.
ProviderChangeSet(d) ==
    /\ changeSets[d] # Nil
    /\ changeSets[d].status = "CREATE_IN_PROGRESS"
    /\ LET unchanged == stack.template = changeSets[d].template
       IN  \E status \in {"CREATE_COMPLETE", "FAILED"} :
             /\ unchanged => status = "FAILED"
             /\ changeSets' = [changeSets EXCEPT ![d].status = status,
                                 ![d].reason = IF status = "FAILED" /\ unchanged THEN "no changes" ELSE Nil]
    /\ UNCHANGED <<stack, deployers, executed>>

\* An operation succeeds, or it is rolled back.
Applied == executed' = [executed EXCEPT ![Len(executed)].applied = TRUE]
ProviderStack ==
    /\ stack # Nil
    /\ \/ \E ended \in {"CREATE_COMPLETE", "ROLLBACK_IN_PROGRESS"} :
            /\ stack.status = "CREATE_IN_PROGRESS"
            /\ stack' = [status |-> ended, template |-> IF ended = "CREATE_COMPLETE" THEN executed[Len(executed)].template ELSE Nil]
            /\ IF ended = "CREATE_COMPLETE" THEN Applied ELSE UNCHANGED executed
       \/ /\ stack.status = "UPDATE_IN_PROGRESS"
          /\ stack' = [status |-> "UPDATE_COMPLETE_CLEANUP_IN_PROGRESS", template |-> executed[Len(executed)].template]
          /\ Applied
       \/ /\ stack.status = "UPDATE_IN_PROGRESS"
          /\ stack' = [stack EXCEPT !.status = "UPDATE_ROLLBACK_IN_PROGRESS"]
          /\ UNCHANGED executed
       \/ /\ stack.status \in {"UPDATE_COMPLETE_CLEANUP_IN_PROGRESS", "ROLLBACK_IN_PROGRESS", "UPDATE_ROLLBACK_IN_PROGRESS"}
          /\ stack' = [stack EXCEPT !.status = CASE @ = "UPDATE_COMPLETE_CLEANUP_IN_PROGRESS" -> "UPDATE_COMPLETE"
                                                 [] @ = "ROLLBACK_IN_PROGRESS" -> "ROLLBACK_COMPLETE"
                                                 [] OTHER -> "UPDATE_ROLLBACK_COMPLETE"]
          /\ UNCHANGED executed
    /\ UNCHANGED <<changeSets, deployers>>

-----------------------------------------------------------------------------
(* deployStack().                                                           *)

\* An earlier change set of the deployer stays with the provider; nobody names it again.
deployStack(d) ==
    /\ deployers[d].at \in {"idle", "done"}
    /\ deployers[d].count < MaxDeployments
    /\ \E t \in Templates :
         deployers' = [deployers EXCEPT ![d] = [NoDeployment EXCEPT !.at = "describe", !.template = t, !.count = deployers[d].count + 1]]
    /\ changeSets' = [changeSets EXCEPT ![d] = Nil]
    /\ UNCHANGED <<stack, executed>>

\* getStackDescription() returns undefined for a stack that does not exist; other errors
\* are thrown.
getStackDescription(d) ==
    /\ DeployerAt(d, "describe")
    /\ \/ deployers' = [deployers EXCEPT ![d].at = "create", ![d].type = IF stack = Nil THEN "CREATE" ELSE "UPDATE"]
       \/ Return(d, "thrown")
    /\ UNCHANGED <<stack, changeSets, executed>>

\* createChangeSet() throws when it is refused and when its answer is lost.  A change set
\* for a stack that does not exist makes the stack, in review.
createChangeSet(d) ==
    /\ DeployerAt(d, "create")
    /\ LET creates == deployers[d].type = "CREATE"
           accepted == IF stack = Nil THEN creates
                       ELSE stack.status \in IF creates THEN {"REVIEW_IN_PROGRESS"} ELSE Updatable
       IN  \/ Return(d, "thrown") /\ UNCHANGED <<stack, changeSets>>
           \/ /\ accepted
              /\ changeSets' = [changeSets EXCEPT ![d] = [status |-> "CREATE_IN_PROGRESS", reason |-> Nil,
                                                          type |-> deployers[d].type, template |-> deployers[d].template]]
              /\ stack' = IF stack = Nil THEN [status |-> "REVIEW_IN_PROGRESS", template |-> Nil] ELSE stack
              /\ DeployerGoes(d, "change set") \/ Return(d, "thrown")
    /\ UNCHANGED executed

\* monitorChangeSet(): every five seconds, until the change set is ready or has failed.
monitorChangeSet(d) ==
    /\ DeployerAt(d, "change set")
    /\ \/ Return(d, "thrown")
       \/ changeSets[d] # Nil /\ changeSets[d].status = "CREATE_COMPLETE" /\ DeployerGoes(d, "execute")
       \/ /\ changeSets[d] # Nil /\ changeSets[d].status = "FAILED"
          /\ Return(d, IF changeSets[d].reason = "no changes" THEN "NoChangesToPerform" ELSE "Failed")
    /\ UNCHANGED <<stack, changeSets, executed>>

\* executeChangeSet(): the deployment whose answer is lost goes on although it is reported
\* as thrown.
executeChangeSet(d) ==
    /\ DeployerAt(d, "execute")
    /\ \/ Return(d, "thrown") /\ UNCHANGED <<stack, changeSets, executed>>
       \/ /\ changeSets[d] # Nil /\ stack.status \notin Operating
          /\ executed' = Append(executed, [by |-> d, template |-> changeSets[d].template, applied |-> FALSE])
          /\ stack' = [stack EXCEPT !.status = IF changeSets[d].type = "CREATE" THEN "CREATE_IN_PROGRESS" ELSE "UPDATE_IN_PROGRESS"]
          /\ changeSets' = [e \in Deployers |-> Nil]
          /\ \E at \in {"stack", "done"} :
               deployers' = [deployers EXCEPT ![d] =
                 [@ EXCEPT !.at = at, !.report = IF at = "done" THEN "thrown" ELSE Nil, !.execution = Len(executed) + 1]]

\* monitorStack(): a rollback is reported as soon as it is seen.
waitOn == {"CREATE_IN_PROGRESS", "UPDATE_IN_PROGRESS", "UPDATE_COMPLETE_CLEANUP_IN_PROGRESS", "REVIEW_IN_PROGRESS"}
rollbackIsSuccess(status) ==
    IF status = "UPDATE_ROLLBACK_COMPLETE" THEN "Completed"
    ELSE IF status \in waitOn THEN "InProgress" ELSE IF status \in Updatable THEN "Completed" ELSE "Failed"
outcome(status) ==
    CASE status \in waitOn -> "InProgress"
      [] status \in {"CREATE_COMPLETE", "UPDATE_COMPLETE"} -> "Completed"
      [] OTHER -> "Failed"
monitorStack(d) ==
    /\ DeployerAt(d, "stack")
    /\ \/ Return(d, "thrown")
       \/ outcome(stack.status) # "InProgress" /\ Return(d, outcome(stack.status))
    /\ UNCHANGED <<stack, changeSets, executed>>

CloudFormationNext ==
    \/ ProviderStack
    \/ \E d \in Deployers :
         \/ ProviderChangeSet(d) \/ deployStack(d) \/ getStackDescription(d) \/ createChangeSet(d)
         \/ monitorChangeSet(d) \/ executeChangeSet(d) \/ monitorStack(d)
CloudFormationSpec == CloudFormationInit /\ [][CloudFormationNext]_cfVars

-----------------------------------------------------------------------------
Executed(d) == executed[deployers[d].execution]
Undisturbed(d) == deployers[d].execution = Len(executed)

\* deployStack() tells the truth: unless another change set of the stack was executed
\* after its own, a deployment that is reported complete was applied, one that is
\* reported failed after its execution was not, and an execution is reported by one
\* deployer only.
DeploymentsTellTheTruth ==
    \A d \in Deployers :
       /\ deployers[d].report = "Completed" => deployers[d].execution # 0 /\ (Undisturbed(d) => Executed(d).applied)
       /\ deployers[d].report = "Failed" /\ deployers[d].execution # 0 /\ Undisturbed(d) => ~Executed(d).applied
       /\ deployers[d].execution # 0 => Executed(d).by = d /\ Executed(d).template = deployers[d].template
=============================================================================
