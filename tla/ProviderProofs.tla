--------------------------- MODULE ProviderProofs ---------------------------
(***************************************************************************)
(* Proofs about the services that stand between the application and its    *)
(* providers: the clients of CloudFormation and DynamoDB, the              *)
(* authenticators that verify the tokens of an identity provider, and the  *)
(* voters and guards that decide with what an identity says.               *)
(***************************************************************************)
EXTENDS Aws, Security, FiniteSetTheorems, SequenceTheorems, WellFoundedInduction, TLAPS

-----------------------------------------------------------------------------
(* CloudFormation: a deployment is reported as it went.                     *)

DeployerRecords ==
    [at : {"idle", "describe", "create", "change set", "execute", "stack", "done"}, template : Templates \cup {Nil},
     type : ChangeSetTypes \cup {Nil}, report : Reports \cup {Nil}, execution : Nat, count : Nat]
ExecutionRecords == [by : Deployers, template : Templates, applied : BOOLEAN]
CloudFormationTypeOK ==
    /\ stack \in StackRecords \cup {Nil}
    /\ changeSets \in [Deployers -> ChangeSetRecords \cup {Nil}]
    /\ deployers \in [Deployers -> DeployerRecords]
    /\ executed \in Seq(ExecutionRecords)

\* The status of the stack tells what became of the change set that was executed last.
RolledBack == {"ROLLBACK_IN_PROGRESS", "ROLLBACK_COMPLETE", "UPDATE_ROLLBACK_IN_PROGRESS", "UPDATE_ROLLBACK_COMPLETE"}
StatusTellsOutcome ==
    /\ stack = Nil => Len(executed) = 0
    /\ stack # Nil =>
         /\ stack.status = "REVIEW_IN_PROGRESS" <=> Len(executed) = 0
         /\ Len(executed) # 0 =>
              (executed[Len(executed)].applied <=>
                 stack.status \in {"CREATE_COMPLETE", "UPDATE_COMPLETE_CLEANUP_IN_PROGRESS", "UPDATE_COMPLETE"})

\* A deployer whose record is r and whose change set is c.  With a change set there is a
\* stack.  The change set is for its template, and it has executed one from the
\* moment it watches the stack.
DeployerIsSound(d, r, c) ==
    /\ r.at \notin {"idle", "done"} => r.template \in Templates
    /\ r.at \in {"create", "change set", "execute"} => r.type # Nil
    /\ c # Nil \/ r.at \in {"change set", "execute", "stack"} => stack # Nil
    /\ c # Nil => c.template = r.template
    /\ r.at \notin {"stack", "done"} => r.execution = 0
    /\ r.at # "done" => r.report = Nil
    /\ r.at = "stack" => r.execution # 0
    /\ r.execution # 0 =>
         r.execution <= Len(executed) /\ executed[r.execution].by = d /\ executed[r.execution].template = r.template
    /\ r.report = "Completed" => r.execution # 0 /\ (r.execution = Len(executed) => executed[r.execution].applied)
    /\ r.report = "Failed" /\ r.execution # 0 /\ r.execution = Len(executed) => stack.status \in RolledBack

CloudFormationInv ==
    /\ CloudFormationTypeOK /\ StatusTellsOutcome
    /\ \A d \in Deployers : DeployerIsSound(d, deployers[d], changeSets[d])

-----------------------------------------------------------------------------
\* A step of one deployer: what has to be shown is about that deployer only.
LEMMA DeployerStep ==
    ASSUME CloudFormationInv, NEW d \in Deployers, NEW r \in DeployerRecords,
           deployers' = [deployers EXCEPT ![d] = r], UNCHANGED <<stack, changeSets, executed>>,
           DeployerIsSound(d, r, changeSets[d])
    PROVE  CloudFormationInv'
<1>1. CloudFormationTypeOK' /\ StatusTellsOutcome'
  BY DEF CloudFormationInv, CloudFormationTypeOK, StatusTellsOutcome
<1>2. \A e \in Deployers : deployers'[e] = IF e = d THEN r ELSE deployers[e]
  BY DEF CloudFormationInv, CloudFormationTypeOK
<1>3. \A e \in Deployers : DeployerIsSound(e, deployers'[e], changeSets[e])
  BY <1>2 DEF CloudFormationInv
<1>4. ASSUME NEW e \in Deployers PROVE DeployerIsSound(e, deployers[e], changeSets[e])'
  BY <1>3 DEF DeployerIsSound
<1> QED BY <1>1, <1>4 DEF CloudFormationInv

\* What a deployer that is not executing a change set knows stays true when the stack
\* moves on.
LEMMA ProviderKeeps ==
    ASSUME CloudFormationInv, NEW d \in Deployers, NEW r \in DeployerRecords, NEW c, DeployerIsSound(d, r, c),
           stack' # Nil, Len(executed') = Len(executed),
           \A i \in 1..Len(executed) : /\ executed'[i].by = executed[i].by /\ executed'[i].template = executed[i].template
                                       /\ executed[i].applied => executed'[i].applied,
           Len(executed) # 0 /\ stack.status \in RolledBack => stack'.status \in RolledBack
    PROVE  DeployerIsSound(d, r, c)'
<1>1. r.execution \in Nat /\ Len(executed) \in Nat
  <2>1. executed \in Seq(ExecutionRecords)
    BY DEF CloudFormationInv, CloudFormationTypeOK
  <2>2. r.execution \in Nat
    BY DEF DeployerRecords
  <2> QED BY <2>1, <2>2
<1>2. r.execution # 0 => r.execution \in 1..Len(executed)
  <2>1. r.execution # 0 => r.execution <= Len(executed)
    BY DEF DeployerIsSound
  <2> QED BY <1>1, <2>1
<1> QED BY <1>1, <1>2 DEF DeployerIsSound

LEMMA ProviderStackStep == ASSUME CloudFormationAssumption, CloudFormationInv, ProviderStack PROVE CloudFormationInv'
<1> DEFINE n == Len(executed)
<1>1. /\ stack \in StackRecords /\ stack # Nil /\ executed \in Seq(ExecutionRecords) /\ n \in Nat
      /\ StatusTellsOutcome /\ UNCHANGED <<changeSets, deployers>>
      /\ changeSets \in [Deployers -> ChangeSetRecords \cup {Nil}] /\ deployers \in [Deployers -> DeployerRecords]
  BY DEF ProviderStack, CloudFormationInv, CloudFormationTypeOK
<1>2. n # 0 /\ n \in 1..n /\ executed[n] \in ExecutionRecords
  <2>1. stack.status # "REVIEW_IN_PROGRESS"
    BY DEF ProviderStack
  <2>2. n # 0
    BY <1>1, <2>1 DEF StatusTellsOutcome
  <2> QED BY <1>1, <2>2
<1>3. ASSUME stack' \in StackRecords, executed' \in Seq(ExecutionRecords), Len(executed') = n,
             \A i \in 1..n : /\ executed'[i].by = executed[i].by /\ executed'[i].template = executed[i].template
                             /\ executed[i].applied => executed'[i].applied,
             stack.status \in RolledBack => stack'.status \in RolledBack,
             stack'.status # "REVIEW_IN_PROGRESS",
             executed'[n].applied <=>
               stack'.status \in {"CREATE_COMPLETE", "UPDATE_COMPLETE_CLEANUP_IN_PROGRESS", "UPDATE_COMPLETE"}
      PROVE  CloudFormationInv'
  <2>1. stack' # Nil
    BY <1>3 DEF CloudFormationAssumption
  <2>2. CloudFormationTypeOK' /\ StatusTellsOutcome'
    BY <1>1, <1>2, <1>3, <2>1 DEF CloudFormationTypeOK, StatusTellsOutcome
  <2>3. ASSUME NEW d \in Deployers PROVE DeployerIsSound(d, deployers[d], changeSets[d])'
    <3>1. DeployerIsSound(d, deployers[d], changeSets[d]) /\ deployers[d] \in DeployerRecords
      BY <1>1 DEF CloudFormationInv
    <3>2. \A r \in DeployerRecords : \A c : DeployerIsSound(d, r, c) => DeployerIsSound(d, r, c)'
      BY <1>3, <2>1, ProviderKeeps
    <3> QED BY <1>1, <3>1, <3>2
  <2> QED BY <2>2, <2>3 DEF CloudFormationInv
<1>4. ASSUME NEW ended \in {"CREATE_COMPLETE", "UPDATE_COMPLETE_CLEANUP_IN_PROGRESS"},
             stack.status \in {"CREATE_IN_PROGRESS", "UPDATE_IN_PROGRESS"},
             stack' = [status |-> ended, template |-> executed[Len(executed)].template], Applied
      PROVE  CloudFormationInv'
  <2>1. stack' \in StackRecords /\ stack'.status = ended
    BY <1>2, <1>4 DEF StackRecords, ExecutionRecords, Operating, Updatable
  <2>2. [executed[n] EXCEPT !.applied = TRUE] \in ExecutionRecords
    BY <1>2 DEF ExecutionRecords
  <2>3. executed' = [executed EXCEPT ![n] = [executed[n] EXCEPT !.applied = TRUE]]
    BY <1>1, <1>2, <1>4 DEF Applied
  <2>4. executed' \in Seq(ExecutionRecords) /\ Len(executed') = n
        /\ \A i \in 1..n : executed'[i] = IF i = n THEN [executed[n] EXCEPT !.applied = TRUE] ELSE executed[i]
    BY <1>1, <1>2, <2>2, <2>3
  <2>5. /\ executed'[n].applied
        /\ \A i \in 1..n : /\ executed'[i].by = executed[i].by /\ executed'[i].template = executed[i].template
                           /\ executed[i].applied => executed'[i].applied
    BY <1>2, <2>4 DEF ExecutionRecords
  <2> QED BY <1>3, <1>4, <2>1, <2>4, <2>5 DEF RolledBack
<1>5. ASSUME UNCHANGED executed, stack' \in StackRecords, stack'.status # "REVIEW_IN_PROGRESS",
             stack.status \in RolledBack => stack'.status \in RolledBack,
             stack.status \in {"CREATE_COMPLETE", "UPDATE_COMPLETE_CLEANUP_IN_PROGRESS", "UPDATE_COMPLETE"}
               <=> stack'.status \in {"CREATE_COMPLETE", "UPDATE_COMPLETE_CLEANUP_IN_PROGRESS", "UPDATE_COMPLETE"}
      PROVE  CloudFormationInv'
  <2>1. executed[n].applied <=>
          stack.status \in {"CREATE_COMPLETE", "UPDATE_COMPLETE_CLEANUP_IN_PROGRESS", "UPDATE_COMPLETE"}
    BY <1>1, <1>2 DEF StatusTellsOutcome
  <2> QED BY <1>1, <1>3, <1>5, <2>1
<1>6. CASE stack.status = "CREATE_IN_PROGRESS" /\ stack' = [status |-> "ROLLBACK_IN_PROGRESS", template |-> Nil] /\ UNCHANGED executed
  BY <1>5, <1>6 DEF StackRecords, RolledBack, Operating
<1>7. CASE stack.status = "UPDATE_IN_PROGRESS" /\ stack' = [stack EXCEPT !.status = "UPDATE_ROLLBACK_IN_PROGRESS"] /\ UNCHANGED executed
  BY <1>1, <1>5, <1>7 DEF StackRecords, RolledBack, Operating
<1>8. CASE stack.status = "UPDATE_COMPLETE_CLEANUP_IN_PROGRESS" /\ stack' = [stack EXCEPT !.status = "UPDATE_COMPLETE"] /\ UNCHANGED executed
  BY <1>1, <1>5, <1>8 DEF StackRecords, RolledBack, Updatable
<1>9. CASE stack.status = "ROLLBACK_IN_PROGRESS" /\ stack' = [stack EXCEPT !.status = "ROLLBACK_COMPLETE"] /\ UNCHANGED executed
  BY <1>1, <1>5, <1>9 DEF StackRecords, RolledBack
<1>10. CASE stack.status = "UPDATE_ROLLBACK_IN_PROGRESS" /\ stack' = [stack EXCEPT !.status = "UPDATE_ROLLBACK_COMPLETE"] /\ UNCHANGED executed
  BY <1>1, <1>5, <1>10 DEF StackRecords, RolledBack, Updatable
<1> QED BY <1>4, <1>6, <1>7, <1>8, <1>9, <1>10 DEF ProviderStack

LEMMA ProviderChangeSetStep ==
    ASSUME CloudFormationAssumption, CloudFormationInv, NEW d \in Deployers, ProviderChangeSet(d)
    PROVE  CloudFormationInv'
<1>1. /\ changeSets[d] \in ChangeSetRecords /\ UNCHANGED <<stack, deployers, executed>>
      /\ changeSets \in [Deployers -> ChangeSetRecords \cup {Nil}] /\ changeSets[d] # Nil
  BY DEF ProviderChangeSet, CloudFormationInv, CloudFormationTypeOK
<1>2. PICK status \in {"CREATE_COMPLETE", "FAILED"}, reason \in {"no changes", Nil} :
        changeSets' = [changeSets EXCEPT ![d].status = status, ![d].reason = reason]
  BY DEF ProviderChangeSet
<1>3. PICK c : c = [changeSets[d] EXCEPT !.status = status, !.reason = reason]
  OBVIOUS
<1>4. c \in ChangeSetRecords /\ c.template = changeSets[d].template /\ c # Nil
  <2>1. c \in ChangeSetRecords /\ c.template = changeSets[d].template
    BY <1>1, <1>2, <1>3 DEF ChangeSetRecords
  <2> QED BY <2>1 DEF CloudFormationAssumption
<1>5. changeSets' = [changeSets EXCEPT ![d] = c]
  BY <1>1, <1>2, <1>3
<1>6. CloudFormationTypeOK' /\ StatusTellsOutcome'
  BY <1>1, <1>4, <1>5 DEF CloudFormationInv, CloudFormationTypeOK, StatusTellsOutcome
<1>7. ASSUME NEW e \in Deployers PROVE DeployerIsSound(e, deployers[e], changeSets[e])'
  <2>1. DeployerIsSound(e, deployers[e], changeSets[e])
    BY DEF CloudFormationInv
  <2>2. changeSets'[e] = IF e = d THEN c ELSE changeSets[e]
    BY <1>1, <1>5
  <2>3. CASE e = d
    BY <1>1, <1>4, <2>1, <2>2, <2>3 DEF DeployerIsSound
  <2>4. CASE e # d
    BY <1>1, <2>1, <2>2, <2>4 DEF DeployerIsSound
  <2> QED BY <2>3, <2>4
<1> QED BY <1>6, <1>7 DEF CloudFormationInv

\* The record of a deployer, and what is known of it.
LEMMA DeployerFacts ==
    ASSUME CloudFormationInv, NEW d \in Deployers
    PROVE  /\ deployers \in [Deployers -> DeployerRecords] /\ deployers[d] \in DeployerRecords
           /\ DeployerIsSound(d, deployers[d], changeSets[d]) /\ Len(executed) \in Nat
  BY DEF CloudFormationInv, CloudFormationTypeOK

\* A deployer whose call has not executed a change set throws or returns.
LEMMA ReturnStep ==
    ASSUME CloudFormationInv, NEW d \in Deployers, NEW report \in Reports, Return(d, report),
           UNCHANGED <<stack, changeSets, executed>>, deployers[d].at \notin {"idle", "stack", "done"}, report # "Completed"
    PROVE  CloudFormationInv'
<1>1. deployers \in [Deployers -> DeployerRecords] /\ deployers[d] \in DeployerRecords
      /\ DeployerIsSound(d, deployers[d], changeSets[d])
  BY DeployerFacts
<1> DEFINE r == [deployers[d] EXCEPT !.at = "done", !.report = report]
<1>2. r \in DeployerRecords /\ deployers' = [deployers EXCEPT ![d] = r]
  BY <1>1 DEF Return, DeployerRecords
<1>3. DeployerIsSound(d, r, changeSets[d])
  BY <1>1 DEF DeployerIsSound, DeployerRecords
<1> QED BY <1>2, <1>3, DeployerStep

\* A deployer whose call goes on has executed nothing yet.
LEMMA GoesStep ==
    ASSUME CloudFormationInv, NEW d \in Deployers, DeployerGoes(d, "execute"), DeployerAt(d, "change set"),
           UNCHANGED <<stack, changeSets, executed>>
    PROVE  CloudFormationInv'
<1>1. deployers \in [Deployers -> DeployerRecords] /\ deployers[d] \in DeployerRecords
      /\ DeployerIsSound(d, deployers[d], changeSets[d])
  BY DeployerFacts
<1> DEFINE r == [deployers[d] EXCEPT !.at = "execute"]
<1>2. r \in DeployerRecords /\ deployers' = [deployers EXCEPT ![d] = r]
  BY <1>1 DEF DeployerGoes, DeployerRecords
<1>3. DeployerIsSound(d, r, changeSets[d])
  BY <1>1 DEF DeployerIsSound, DeployerRecords, DeployerAt
<1> QED BY <1>2, <1>3, DeployerStep

LEMMA DeployStackStep ==
    ASSUME CloudFormationAssumption, CloudFormationInv, NEW d \in Deployers, deployStack(d)
    PROVE  CloudFormationInv'
<1>1. /\ deployers \in [Deployers -> DeployerRecords] /\ deployers[d] \in DeployerRecords
      /\ changeSets \in [Deployers -> ChangeSetRecords \cup {Nil}]
  BY DeployerFacts DEF CloudFormationInv, CloudFormationTypeOK
<1>t. PICK t \in Templates :
        deployers' = [deployers EXCEPT ![d] = [NoDeployment EXCEPT !.at = "describe", !.template = t, !.count = deployers[d].count + 1]]
  BY DEF deployStack
<1>2. PICK r : /\ r = [NoDeployment EXCEPT !.at = "describe", !.template = t, !.count = deployers[d].count + 1]
               /\ deployers' = [deployers EXCEPT ![d] = r]
  BY <1>t
<1>3. r = [at |-> "describe", template |-> t, type |-> Nil, report |-> Nil, execution |-> 0, count |-> deployers[d].count + 1]
  BY <1>2 DEF NoDeployment
<1>4. deployers[d].count + 1 \in Nat
  <2>1. deployers[d].count \in Nat
    BY <1>1 DEF DeployerRecords
  <2> QED BY <2>1
<1>5. r \in DeployerRecords
  BY <1>3, <1>4 DEF DeployerRecords
<1>6. changeSets' = [changeSets EXCEPT ![d] = Nil] /\ UNCHANGED <<stack, executed>>
  BY DEF deployStack
<1>7. CloudFormationTypeOK' /\ StatusTellsOutcome'
  BY <1>1, <1>2, <1>5, <1>6 DEF CloudFormationInv, CloudFormationTypeOK, StatusTellsOutcome
<1>8. ASSUME NEW e \in Deployers PROVE DeployerIsSound(e, deployers[e], changeSets[e])'
  <2>1. DeployerIsSound(e, deployers[e], changeSets[e])
    BY DEF CloudFormationInv
  <2>2. CASE e = d
    <3>1. deployers'[e] = r /\ changeSets'[e] = Nil
      BY <1>1, <1>2, <1>6, <2>2
    <3>2. DeployerIsSound(d, r, Nil)'
      BY <1>3, CloudFormationAssumption DEF DeployerIsSound, CloudFormationAssumption, Reports
    <3> QED BY <2>2, <3>1, <3>2
  <2>3. CASE e # d
    <3>1. deployers'[e] = deployers[e] /\ changeSets'[e] = changeSets[e]
      BY <1>1, <1>2, <1>6, <2>3
    <3> QED BY <1>6, <2>1, <3>1 DEF DeployerIsSound
  <2> QED BY <2>2, <2>3
<1> QED BY <1>7, <1>8 DEF CloudFormationInv

LEMMA GetStackDescriptionStep ==
    ASSUME CloudFormationAssumption, CloudFormationInv, NEW d \in Deployers, getStackDescription(d)
    PROVE  CloudFormationInv'
<1>1. deployers \in [Deployers -> DeployerRecords] /\ deployers[d] \in DeployerRecords
      /\ DeployerIsSound(d, deployers[d], changeSets[d])
  BY DeployerFacts
<1>2. deployers[d].at = "describe" /\ UNCHANGED <<stack, changeSets, executed>>
  BY DEF getStackDescription, DeployerAt
<1>3. CASE Return(d, "thrown")
  BY <1>2, <1>3, ReturnStep DEF Reports
<1>4. ASSUME NEW type \in ChangeSetTypes, deployers' = [deployers EXCEPT ![d].at = "create", ![d].type = type]
      PROVE  CloudFormationInv'
  <2> DEFINE r == [deployers[d] EXCEPT !.at = "create", !.type = type]
  <2>1. r \in DeployerRecords /\ deployers' = [deployers EXCEPT ![d] = r]
    BY <1>1, <1>4 DEF DeployerRecords
  <2>2. type # Nil
    BY DEF CloudFormationAssumption
  <2>3. DeployerIsSound(d, r, changeSets[d])
    BY <1>1, <1>2, <2>2 DEF DeployerIsSound, DeployerRecords
  <2> QED BY <1>2, <2>1, <2>3, DeployerStep
<1> QED BY <1>3, <1>4 DEF getStackDescription, ChangeSetTypes

LEMMA CreateChangeSetStep ==
    ASSUME CloudFormationAssumption, CloudFormationInv, NEW d \in Deployers, createChangeSet(d)
    PROVE  CloudFormationInv'
<1>1. /\ deployers \in [Deployers -> DeployerRecords] /\ deployers[d] \in DeployerRecords
      /\ DeployerIsSound(d, deployers[d], changeSets[d]) /\ deployers[d].at = "create" /\ UNCHANGED executed
      /\ changeSets \in [Deployers -> ChangeSetRecords \cup {Nil}] /\ stack \in StackRecords \cup {Nil}
      /\ executed \in Seq(ExecutionRecords) /\ StatusTellsOutcome
  BY DeployerFacts DEF createChangeSet, DeployerAt, CloudFormationInv, CloudFormationTypeOK
<1>2. CASE Return(d, "thrown") /\ UNCHANGED <<stack, changeSets>>
  BY <1>1, <1>2, ReturnStep DEF Reports
<1>3. ASSUME changeSets' = [changeSets EXCEPT ![d] = [status |-> "CREATE_IN_PROGRESS", reason |-> Nil,
                                                     type |-> deployers[d].type, template |-> deployers[d].template]],
             stack' = IF stack = Nil THEN [status |-> "REVIEW_IN_PROGRESS", template |-> Nil] ELSE stack,
             DeployerGoes(d, "change set") \/ Return(d, "thrown")
      PROVE  CloudFormationInv'
  <2>1. deployers[d].type \in ChangeSetTypes /\ deployers[d].template \in Templates
    BY <1>1 DEF DeployerIsSound, DeployerRecords
  <2>2. PICK r, c : /\ \/ r = [deployers[d] EXCEPT !.at = "change set"]
                       \/ r = [deployers[d] EXCEPT !.at = "done", !.report = "thrown"]
                    /\ deployers' = [deployers EXCEPT ![d] = r]
                    /\ c = [status |-> "CREATE_IN_PROGRESS", reason |-> Nil,
                            type |-> deployers[d].type, template |-> deployers[d].template]
    BY <1>3 DEF DeployerGoes, Return
  <2>3. r \in DeployerRecords /\ deployers' = [deployers EXCEPT ![d] = r]
    BY <1>1, <2>2 DEF DeployerRecords, Reports
  <2>4. c \in ChangeSetRecords /\ c # Nil /\ changeSets' = [changeSets EXCEPT ![d] = c]
    <3>1. c \in ChangeSetRecords
      BY <2>1, <2>2 DEF ChangeSetRecords
    <3> QED BY <1>3, <2>2, <3>1 DEF CloudFormationAssumption
  <2>5. stack' \in StackRecords /\ stack' # Nil
    <3>1. [status |-> "REVIEW_IN_PROGRESS", template |-> Nil] \in StackRecords
      BY DEF StackRecords
    <3> QED BY <1>1, <1>3, <3>1 DEF CloudFormationAssumption
  <2>6. CloudFormationTypeOK'
    BY <1>1, <2>3, <2>4, <2>5 DEF CloudFormationTypeOK
  <2>7. StatusTellsOutcome'
    <3>1. CASE stack = Nil
      BY <1>1, <1>3, <2>5, <3>1 DEF StatusTellsOutcome
    <3>2. CASE stack # Nil
      BY <1>1, <1>3, <2>5, <3>2 DEF StatusTellsOutcome
    <3> QED BY <3>1, <3>2
  <2>8. ASSUME NEW e \in Deployers PROVE DeployerIsSound(e, deployers[e], changeSets[e])'
    <3>1. DeployerIsSound(e, deployers[e], changeSets[e]) /\ deployers[e] \in DeployerRecords
      BY DeployerFacts
    <3>2. CASE e = d
      <4>1. deployers'[e] = r /\ changeSets'[e] = c
        BY <1>1, <2>3, <2>4, <3>2
      <4>2. /\ \/ r.at = "change set" /\ r.report = Nil
               \/ r.at = "done" /\ r.report = "thrown"
            /\ r.template = deployers[d].template /\ r.type = deployers[d].type
            /\ r.execution = 0 /\ c.template = r.template
        BY <1>1, <2>2 DEF DeployerIsSound, DeployerRecords
      <4>3. DeployerIsSound(d, r, c)'
        BY <2>1, <2>5, <4>2, CloudFormationAssumption DEF DeployerIsSound, CloudFormationAssumption, Reports
      <4> QED BY <3>2, <4>1, <4>3
    <3>3. CASE e # d
      <4>1. deployers'[e] = deployers[e] /\ changeSets'[e] = changeSets[e]
        BY <1>1, <2>3, <2>4, <3>3
      <4>2. deployers[e].execution # 0 => stack # Nil
        <5>1. deployers[e].execution \in Nat /\ Len(executed) \in Nat
          <6>1. deployers[e].execution \in Nat
            BY <3>1 DEF DeployerRecords
          <6> QED BY <1>1, <6>1
        <5>2. deployers[e].execution # 0 => deployers[e].execution <= Len(executed)
          BY <3>1 DEF DeployerIsSound
        <5>3. deployers[e].execution # 0 => Len(executed) # 0
          BY <5>1, <5>2
        <5> QED BY <1>1, <5>3 DEF StatusTellsOutcome
      <4>3. stack # Nil => stack' = stack
        BY <1>3
      <4> QED BY <1>1, <2>5, <3>1, <4>1, <4>2, <4>3 DEF DeployerIsSound
    <3> QED BY <3>2, <3>3
  <2> QED BY <2>6, <2>7, <2>8 DEF CloudFormationInv
<1> QED BY <1>2, <1>3 DEF createChangeSet

LEMMA MonitorChangeSetStep ==
    ASSUME CloudFormationInv, NEW d \in Deployers, monitorChangeSet(d)
    PROVE  CloudFormationInv'
<1>1. deployers[d].at = "change set" /\ DeployerAt(d, "change set") /\ UNCHANGED <<stack, changeSets, executed>>
  BY DEF monitorChangeSet, DeployerAt
<1>2. CASE DeployerGoes(d, "execute")
  BY <1>1, <1>2, GoesStep
<1>3. CASE \E report \in {"thrown", "NoChangesToPerform", "Failed"} : Return(d, report)
  BY <1>1, <1>3, ReturnStep DEF Reports
<1> QED BY <1>2, <1>3 DEF monitorChangeSet

LEMMA ExecuteChangeSetStep ==
    ASSUME CloudFormationAssumption, CloudFormationInv, NEW d \in Deployers, executeChangeSet(d)
    PROVE  CloudFormationInv'
<1>1. /\ deployers \in [Deployers -> DeployerRecords] /\ deployers[d] \in DeployerRecords
      /\ DeployerIsSound(d, deployers[d], changeSets[d]) /\ deployers[d].at = "execute"
      /\ changeSets \in [Deployers -> ChangeSetRecords \cup {Nil}] /\ stack \in StackRecords /\ stack # Nil
      /\ executed \in Seq(ExecutionRecords) /\ Len(executed) \in Nat
  BY DeployerFacts DEF executeChangeSet, DeployerAt, CloudFormationInv, CloudFormationTypeOK, DeployerIsSound
<1>2. CASE Return(d, "thrown") /\ UNCHANGED <<stack, changeSets, executed>>
  BY <1>1, <1>2, ReturnStep DEF Reports
<1>3. ASSUME NEW status \in {"CREATE_IN_PROGRESS", "UPDATE_IN_PROGRESS"}, changeSets[d] # Nil,
             executed' = Append(executed, [by |-> d, template |-> changeSets[d].template, applied |-> FALSE]),
             stack' = [stack EXCEPT !.status = status],
             changeSets' = [e \in Deployers |-> Nil],
             NEW at \in {"stack", "done"},
             deployers' = [deployers EXCEPT ![d] =
               [@ EXCEPT !.at = at, !.report = IF at = "done" THEN "thrown" ELSE Nil, !.execution = Len(executed) + 1]]
      PROVE  CloudFormationInv'
  <2> DEFINE report == IF at = "done" THEN "thrown" ELSE Nil
  <2>0. \/ at = "stack" /\ report = Nil
        \/ at = "done" /\ report = "thrown"
    BY <1>3
  <2>1. PICK r, x : /\ r = [deployers[d] EXCEPT !.at = at, !.report = report, !.execution = Len(executed) + 1]
                    /\ x = [by |-> d, template |-> changeSets[d].template, applied |-> FALSE]
    OBVIOUS
  <2>2. r \in DeployerRecords /\ deployers' = [deployers EXCEPT ![d] = r]
    <3>1. Len(executed) + 1 \in Nat
      BY <1>1
    <3>2. r \in DeployerRecords
      BY <1>1, <2>0, <2>1, <3>1 DEF DeployerRecords, Reports
    <3> QED BY <1>3, <2>1, <3>2
  <2>3. changeSets[d] \in ChangeSetRecords /\ changeSets[d].template = deployers[d].template
    BY <1>1, <1>3 DEF DeployerIsSound
  <2>4. x \in ExecutionRecords /\ x.by = d /\ x.template = deployers[d].template /\ ~x.applied
    BY <2>1, <2>3 DEF ExecutionRecords, ChangeSetRecords
  <2>5. /\ executed' \in Seq(ExecutionRecords) /\ Len(executed') = Len(executed) + 1
        /\ executed'[Len(executed) + 1] = x /\ \A i \in 1..Len(executed) : executed'[i] = executed[i]
    BY <1>1, <1>3, <2>1, <2>4
  <2>6. stack' \in StackRecords /\ stack'.status = status /\ stack' # Nil
    <3>1. stack' \in StackRecords /\ stack'.status = status
      BY <1>1, <1>3 DEF StackRecords, Operating
    <3> QED BY <3>1 DEF CloudFormationAssumption
  <2>7. CloudFormationTypeOK'
    BY <1>1, <1>3, <2>2, <2>5, <2>6 DEF CloudFormationTypeOK
  <2>8. StatusTellsOutcome'
    BY <1>1, <2>4, <2>5, <2>6 DEF StatusTellsOutcome
  <2>9. ASSUME NEW e \in Deployers PROVE DeployerIsSound(e, deployers[e], changeSets[e])'
    <3>1. DeployerIsSound(e, deployers[e], changeSets[e]) /\ deployers[e] \in DeployerRecords /\ changeSets'[e] = Nil
      BY <1>3, DeployerFacts
    <3>2. CASE e = d
      <4>1. deployers'[e] = r
        BY <1>1, <2>2, <3>2
      <4>2. /\ \/ r.at = "stack" /\ r.report = Nil
               \/ r.at = "done" /\ r.report = "thrown"
            /\ r.template = deployers[d].template /\ r.execution = Len(executed) + 1
            /\ r.template \in Templates
        <5>1. deployers[d].template \in Templates
          BY <1>1 DEF DeployerIsSound
        <5>2. /\ r.at = at /\ r.report = report /\ r.template = deployers[d].template
              /\ r.execution = Len(executed) + 1
          BY <1>1, <2>1 DEF DeployerRecords
        <5> QED BY <2>0, <5>1, <5>2
      <4>3. Len(executed) + 1 # 0 /\ Len(executed) + 1 <= Len(executed')
        BY <1>1, <2>5
      <4>4. DeployerIsSound(d, r, Nil)'
        BY <2>4, <2>5, <2>6, <4>2, <4>3, CloudFormationAssumption DEF DeployerIsSound, CloudFormationAssumption, Reports
      <4> QED BY <3>1, <3>2, <4>1, <4>4
    <3>3. CASE e # d
      <4>1. deployers'[e] = deployers[e]
        BY <1>1, <2>2, <3>3
      <4>2. deployers[e].execution \in Nat
        BY <3>1 DEF DeployerRecords
      <4>3. deployers[e].execution # 0 => deployers[e].execution <= Len(executed)
        BY <3>1 DEF DeployerIsSound
      <4>4. deployers[e].execution # 0 => /\ deployers[e].execution \in 1..Len(executed)
                                          /\ deployers[e].execution <= Len(executed')
                                          /\ deployers[e].execution # Len(executed')
        BY <1>1, <2>5, <4>2, <4>3
      <4> QED BY <2>5, <2>6, <3>1, <4>1, <4>4 DEF DeployerIsSound
    <3> QED BY <3>2, <3>3
  <2> QED BY <2>7, <2>8, <2>9 DEF CloudFormationInv
<1> QED BY <1>2, <1>3 DEF executeChangeSet

LEMMA MonitorStackStep ==
    ASSUME CloudFormationAssumption, CloudFormationInv, NEW d \in Deployers, monitorStack(d)
    PROVE  CloudFormationInv'
<1> DEFINE ends(report) == [deployers[d] EXCEPT !.at = "done", !.report = report]
<1>1. /\ deployers \in [Deployers -> DeployerRecords] /\ deployers[d] \in DeployerRecords
      /\ DeployerIsSound(d, deployers[d], changeSets[d]) /\ deployers[d].at = "stack"
      /\ stack \in StackRecords /\ stack # Nil /\ Len(executed) \in Nat /\ StatusTellsOutcome
      /\ UNCHANGED <<stack, changeSets, executed>>
  BY DeployerFacts DEF monitorStack, DeployerAt, CloudFormationInv, CloudFormationTypeOK, DeployerIsSound
<1>2. PICK report \in {"Completed", "Failed", "thrown"} :
        /\ deployers' = [deployers EXCEPT ![d] = ends(report)]
        /\ report = "Completed" => stack.status \in {"CREATE_COMPLETE", "UPDATE_COMPLETE"}
        /\ report = "Failed" => stack.status \in RolledBack
  <2>1. CASE Return(d, "thrown")
    BY <2>1 DEF Return
  <2>2. CASE outcome(stack.status) # "InProgress" /\ Return(d, outcome(stack.status))
    <3>1. stack.status \in Operating \cup Updatable \cup {"REVIEW_IN_PROGRESS", "ROLLBACK_COMPLETE"}
      BY <1>1 DEF StackRecords
    <3>2. /\ outcome(stack.status) \in {"Completed", "Failed"}
          /\ outcome(stack.status) = "Completed" => stack.status \in {"CREATE_COMPLETE", "UPDATE_COMPLETE"}
          /\ outcome(stack.status) = "Failed" => stack.status \in RolledBack
      BY <2>2, <3>1 DEF outcome, waitOn, RolledBack, Operating, Updatable
    <3>3. deployers' = [deployers EXCEPT ![d] = ends(outcome(stack.status))]
      BY <2>2 DEF Return
    <3> HIDE DEF ends
    <3> QED BY <3>2, <3>3
  <2> QED BY <2>1, <2>2 DEF monitorStack
<1>3. ends(report) \in DeployerRecords
  BY <1>1, <1>2 DEF DeployerRecords, Reports
<1>4. deployers[d].execution \in Nat /\ deployers[d].execution # 0 /\ deployers[d].execution <= Len(executed)
  BY <1>1 DEF DeployerIsSound, DeployerRecords
<1>5. Len(executed) # 0
  BY <1>1, <1>4
<1>6. report = "Completed" /\ deployers[d].execution = Len(executed) => executed[deployers[d].execution].applied
  BY <1>1, <1>2, <1>5 DEF StatusTellsOutcome
<1>7. DeployerIsSound(d, ends(report), changeSets[d])
  BY <1>1, <1>2, <1>4, <1>6 DEF DeployerIsSound, DeployerRecords
<1> QED BY <1>1, <1>2, <1>3, <1>7, DeployerStep

LEMMA CloudFormationInvHolds == ASSUME CloudFormationAssumption PROVE CloudFormationSpec => []CloudFormationInv
<1>1. CloudFormationInit => CloudFormationInv
  <2> SUFFICES ASSUME CloudFormationInit PROVE CloudFormationInv
    OBVIOUS
  <2>1. NoDeployment \in DeployerRecords
    BY DEF NoDeployment, DeployerRecords
  <2>2. CloudFormationTypeOK /\ StatusTellsOutcome
    BY <2>1 DEF CloudFormationInit, CloudFormationTypeOK, StatusTellsOutcome
  <2>3. ASSUME NEW d \in Deployers PROVE DeployerIsSound(d, deployers[d], changeSets[d])
    <3>1. deployers[d] = NoDeployment /\ changeSets[d] = Nil
      BY DEF CloudFormationInit
    <3> QED BY <3>1, CloudFormationAssumption DEF DeployerIsSound, NoDeployment, CloudFormationAssumption, Reports
  <2> QED BY <2>2, <2>3 DEF CloudFormationInv
<1>2. CloudFormationInv /\ [CloudFormationNext]_cfVars => CloudFormationInv'
  <2> SUFFICES ASSUME CloudFormationInv, [CloudFormationNext]_cfVars PROVE CloudFormationInv'
    OBVIOUS
  <2>1. CASE UNCHANGED cfVars
    BY <2>1 DEF cfVars, CloudFormationInv, CloudFormationTypeOK, StatusTellsOutcome, DeployerIsSound
  <2>2. CASE CloudFormationNext
    BY <2>2, ProviderStackStep, ProviderChangeSetStep, DeployStackStep, GetStackDescriptionStep, CreateChangeSetStep,
       MonitorChangeSetStep, ExecuteChangeSetStep, MonitorStackStep DEF CloudFormationNext
  <2> QED BY <2>1, <2>2
<1> QED BY <1>1, <1>2, PTL DEF CloudFormationSpec

\* CloudformationClient.deployStack(), for any number of deployers of one stack and of
\* their deployments: what is reported of a deployment is what became of it.
THEOREM DeploymentsTellTheTruthHolds ==
    ASSUME CloudFormationAssumption PROVE CloudFormationSpec => []DeploymentsTellTheTruth
<1>1. CloudFormationInv => DeploymentsTellTheTruth
  <2> SUFFICES ASSUME CloudFormationInv, NEW d \in Deployers
               PROVE  /\ deployers[d].report = "Completed"
                           => deployers[d].execution # 0 /\ (Undisturbed(d) => Executed(d).applied)
                      /\ deployers[d].report = "Failed" /\ deployers[d].execution # 0 /\ Undisturbed(d) => ~Executed(d).applied
                      /\ deployers[d].execution # 0 => Executed(d).by = d /\ Executed(d).template = deployers[d].template
    BY DEF DeploymentsTellTheTruth
  <2>1. DeployerIsSound(d, deployers[d], changeSets[d]) /\ StatusTellsOutcome /\ deployers[d].execution \in Nat
    BY DeployerFacts DEF CloudFormationInv, DeployerRecords
  <2>2. deployers[d].execution # 0 /\ Undisturbed(d) /\ stack.status \in RolledBack => ~Executed(d).applied
    BY <2>1 DEF StatusTellsOutcome, RolledBack, Undisturbed, Executed
  <2> QED BY <2>1, <2>2 DEF DeployerIsSound, Undisturbed, Executed
<1> QED BY <1>1, CloudFormationInvHolds, PTL

-----------------------------------------------------------------------------
(* DynamoDb: listings are complete, and items that exist are not created.   *)

Operations == {"get", "create", "put", "delete", "list", "page", "find", "findPage"}
Errors == {"ItemAlreadyExists", "TableNotFound", "ItemNotFound", "Validation", "Dynamodb"}
Results ==
    {NullValue, <<"null">>, <<"void">>, <<"item">>} \cup ({"thrown"} \X Errors) \cup ({"key"} \X (Nat \cup {NullValue}))
TableCalls ==
    [op : Operations \cup {NullValue}, key : Keys \cup {NullValue}, step : {"none", "start", "put", "done"},
     result : Results, items : Seq(SUBSET Keys), from : Nat, forward : BOOLEAN,
     filter : SUBSET Keys, always : SUBSET Keys]
DynamoTypeOK ==
    /\ table \subseteq Keys /\ lagging \subseteq Keys
    /\ calls \in [Requesters -> TableCalls]
    /\ made \in Nat

\* What create() is about to put, or has put, is not what every reader was shown.
CreatesNew(x) ==
    x.op = "create" /\ (x.step = "put" \/ (x.step = "done" /\ x.result[1] = "item")) => x.key \notin x.always

\* The pages of a listing are disjoint: those it has lie up to the key the next one
\* starts after.
PagesAreDisjoint(x) ==
    /\ \A i, j \in 1..Len(x.items) : i # j => x.items[i] \cap x.items[j] = {}
    /\ x.step = "start" => \A i \in 1..Len(x.items) : \A k \in x.items[i] : ~Before(x.from, k, x.forward)

\* A listing has what every reader was shown up to the key the next page starts after, and
\* when it has ended it has all.
ListsAll(x) ==
    x.op \in {"list", "find"} =>
      \A k \in x.always \cap x.filter :
        \/ \E i \in 1..Len(x.items) : k \in x.items[i]
        \/ x.step = "start" /\ Before(x.from, k, x.forward)
        \/ x.step = "done" /\ x.result[1] # "key"

NamesKey(x) == x.step \in {"start", "put"} => x.key \in Keys

CallIsSound(x) == NamesKey(x) /\ CreatesNew(x) /\ PagesAreDisjoint(x) /\ ListsAll(x)
DynamoInv ==
    /\ DynamoTypeOK
    /\ \A c \in Requesters : calls[c].always \subseteq Settled /\ CallIsSound(calls[c])
\* A set of keys that is not empty has one that comes before all others.
LEMMA LeastNatural ==
    ASSUME NEW T, T \subseteq Nat, T # {}
    PROVE  \E n \in T : \A q \in T : n <= q
<1> DEFINE R == OpToRel(<, Nat)
<1>1. IsWellFoundedOn(R, Nat)
  BY NatLessThanWellFounded
<1> HIDE DEF R
<1>2. PICK n \in T : \A q \in T : ~(<<q, n>> \in R)
  BY <1>1, WFMin
<1>3. ASSUME NEW q \in T PROVE n <= q
  <2>1. <<q, n>> \in Nat \X Nat /\ <<q, n>> \notin R
    BY <1>2
  <2>2. ~(q < n)
    BY <2>1 DEF R, OpToRel
  <2> QED BY <2>1, <2>2
<1> QED BY <1>3

LEMMA EarliestKey ==
    ASSUME NumKeys \in Nat, NEW S \in SUBSET Keys, S # {}, NEW forward \in BOOLEAN
    PROVE  \E k \in S : \A j \in S : j = k \/ Before(k, j, forward)
<1>1. CASE forward
  <2>1. S \subseteq Nat
    BY DEF Keys
  <2>2. PICK k \in S : \A j \in S : k <= j
    BY <2>1, LeastNatural
  <2> QED BY <1>1, <2>1, <2>2 DEF Before
<1>2. CASE ~forward
  <2> DEFINE T == {NumKeys - k : k \in S}
  <2>0. \A k \in S : k \in Nat /\ k <= NumKeys
    BY DEF Keys
  <2>1. T \subseteq Nat /\ T # {}
    BY <2>0
  <2>2. PICK n \in T : \A q \in T : n <= q
    BY <2>1, LeastNatural
  <2>3. PICK k \in S : n = NumKeys - k
    BY <2>2
  <2>4. ASSUME NEW j \in S PROVE j = k \/ j < k
    <3>1. NumKeys - k <= NumKeys - j
      BY <2>2, <2>3
    <3>2. j \in Nat /\ k \in Nat
      BY DEF Keys
    <3> QED BY <3>1, <3>2
  <2> QED BY <1>2, <2>4 DEF Before, Keys
<1> QED BY <1>1, <1>2

\* Reversing the order turns the earliest key into the latest.
LEMMA LatestKey ==
    ASSUME NumKeys \in Nat, NEW S \in SUBSET Keys, S # {}, NEW forward \in BOOLEAN
    PROVE  /\ LastOf(S, forward) \in S
           /\ \A j \in S : j = LastOf(S, forward) \/ Before(j, LastOf(S, forward), forward)
<1>1. PICK k \in S : \A j \in S : j = k \/ Before(k, j, ~forward)
  <2> PICK back \in BOOLEAN : back = ~forward
    OBVIOUS
  <2> QED BY EarliestKey
<1>2. \A j \in S : j = k \/ Before(j, k, forward)
  BY <1>1 DEF Before, Keys
<1> QED BY <1>2 DEF LastOf

LEMMA KeysAreFinite ==
    ASSUME NumKeys \in Nat, NEW S \in SUBSET Keys
    PROVE  IsFiniteSet(S) /\ Cardinality(S) \in Nat
<1>1. IsFiniteSet(Keys)
  BY FS_Interval DEF Keys
<1>2. IsFiniteSet(S)
  BY <1>1, FS_Subset
<1> QED BY <1>2, FS_CardinalityType

\* A page has every key before one of its own.
LEMMA PageIsPrefix ==
    ASSUME DynamoAssumption, NEW S \in SUBSET Keys, NEW forward \in BOOLEAN,
           NEW m \in FirstOf(S, forward), NEW k \in S, Before(k, m, forward)
    PROVE  k \in FirstOf(S, forward)
<1> DEFINE E(l) == {j \in S : Before(j, l, forward)}
<1>0. m \in S /\ Cardinality(E(m)) < PageSize /\ NumKeys \in Nat /\ PageSize \in Nat
  BY DEF FirstOf, DynamoAssumption
<1>1. E(k) \subseteq E(m)
  <2> SUFFICES ASSUME NEW j \in S, Before(j, k, forward) PROVE Before(j, m, forward)
    OBVIOUS
  <2>1. j \in Nat /\ k \in Nat /\ m \in Nat
    BY <1>0 DEF Keys
  <2> QED BY <2>1 DEF Before
<1>2. E(k) \in SUBSET Keys /\ E(m) \in SUBSET Keys
  OBVIOUS
<1>3. IsFiniteSet(E(m)) /\ Cardinality(E(m)) \in Nat /\ Cardinality(E(k)) \in Nat
  BY <1>0, <1>2, KeysAreFinite
<1>4. Cardinality(E(k)) <= Cardinality(E(m))
  BY <1>1, <1>3, FS_Subset
<1>5. Cardinality(E(k)) < PageSize
  <2> HIDE DEF E
  <2> QED BY <1>0, <1>3, <1>4
<1> QED BY <1>5 DEF FirstOf

\* A page that is not full is the last one.
LEMMA ShortPageIsAll ==
    ASSUME DynamoAssumption, NEW S \in SUBSET Keys, NEW forward \in BOOLEAN,
           Cardinality(FirstOf(S, forward)) < PageSize
    PROVE  FirstOf(S, forward) = S
<1> DEFINE F == FirstOf(S, forward)
           E(l) == {j \in S : Before(j, l, forward)}
<1>0. NumKeys \in Nat /\ PageSize \in Nat /\ F \in SUBSET Keys /\ F \subseteq S
  BY DEF FirstOf, DynamoAssumption
<1>1. SUFFICES ASSUME S \ F # {} PROVE FALSE
  BY <1>0
<1>2. PICK k \in S \ F : \A j \in S \ F : j = k \/ Before(k, j, forward)
  <2> PICK T : T = S \ F
    OBVIOUS
  <2>1. T \in SUBSET Keys /\ T # {}
    BY <1>1
  <2>2. \E k \in T : \A j \in T : j = k \/ Before(k, j, forward)
    BY <1>0, <2>1, EarliestKey
  <2> QED BY <2>2
<1>3. E(k) \subseteq F
  <2> SUFFICES ASSUME NEW j \in S, Before(j, k, forward), j \notin F PROVE FALSE
    OBVIOUS
  <2>1. j = k \/ Before(k, j, forward)
    BY <1>2
  <2>2. j \in Nat /\ k \in Nat
    BY DEF Keys
  <2> QED BY <2>1, <2>2 DEF Before
<1>4. IsFiniteSet(F) /\ Cardinality(F) \in Nat
  BY <1>0, KeysAreFinite
<1>5. Cardinality(E(k)) <= Cardinality(F)
  BY <1>3, <1>4, FS_Subset
<1>6. E(k) \in SUBSET Keys
  OBVIOUS
<1>7. Cardinality(E(k)) \in Nat
  BY <1>0, <1>6, KeysAreFinite
<1>8. Cardinality(E(k)) < PageSize
  <2> HIDE DEF E, F
  <2>1. Cardinality(F) < PageSize
    BY DEF F
  <2> QED BY <1>0, <1>4, <1>5, <1>7, <2>1
<1>9. k \in FirstOf(S, forward)
  BY <1>8 DEF FirstOf
<1> QED BY <1>2, <1>9

-----------------------------------------------------------------------------
\* A step of another caller only takes from what every reader was shown.
LEMMA CallIsSoundKept ==
    ASSUME NEW x \in TableCalls, CallIsSound(x), NEW D
    PROVE  /\ [x EXCEPT !.always = @ \cap D] \in TableCalls
           /\ CallIsSound([x EXCEPT !.always = @ \cap D])
           /\ [x EXCEPT !.always = @ \cap D].always \subseteq D
<1> PICK y : y = [x EXCEPT !.always = @ \cap D]
  OBVIOUS
<1>1. /\ y \in TableCalls /\ y.always = x.always \cap D
      /\ y.op = x.op /\ y.step = x.step /\ y.result = x.result /\ y.key = x.key /\ y.items = x.items
      /\ y.from = x.from /\ y.forward = x.forward /\ y.filter = x.filter
  BY DEF TableCalls
<1>2. CreatesNew(y) /\ NamesKey(y)
  BY <1>1 DEF CallIsSound, CreatesNew, NamesKey
<1>3. PagesAreDisjoint(y)
  BY <1>1 DEF CallIsSound, PagesAreDisjoint
<1>4. ListsAll(y)
  BY <1>1 DEF CallIsSound, ListsAll
<1> QED BY <1>1, <1>2, <1>3, <1>4 DEF CallIsSound

\* A step is sound when it leaves the caller whose step it is sound.
LEMMA CallerSteps ==
    ASSUME DynamoInv, NEW c \in Requesters, NEW y \in TableCalls,
           calls' = [Kept EXCEPT ![c] = y], CallIsSound(y), y.always \subseteq Settled',
           table' \subseteq Keys, lagging' \subseteq Keys, made' \in Nat
    PROVE  DynamoInv'
<1>1. \A d \in Requesters : calls[d] \in TableCalls /\ CallIsSound(calls[d])
  BY DEF DynamoInv, DynamoTypeOK
<1> PICK D : D = Settled'
  OBVIOUS
<1>2. \A d \in Requesters : d # c => calls'[d] = [calls[d] EXCEPT !.always = @ \cap D]
  BY DEF Kept
<1>3. calls'[c] = y
  BY DEF Kept
<1>4. ASSUME NEW d \in Requesters
      PROVE  calls'[d] \in TableCalls /\ CallIsSound(calls'[d]) /\ calls'[d].always \subseteq D
  <2>1. CASE d = c
    BY <2>1, <1>3
  <2>2. CASE d # c
    <3> PICK x : x = calls[d]
      OBVIOUS
    <3>1. x \in TableCalls /\ CallIsSound(x)
      BY <1>1
    <3>2. /\ [x EXCEPT !.always = @ \cap D] \in TableCalls
          /\ CallIsSound([x EXCEPT !.always = @ \cap D])
          /\ [x EXCEPT !.always = @ \cap D].always \subseteq D
      BY <3>1, CallIsSoundKept
    <3> QED BY <1>2, <2>2, <3>2
  <2> QED BY <2>1, <2>2
<1>5. calls' \in [Requesters -> TableCalls]
  <2>1. calls' = [d \in Requesters |-> calls'[d]]
    BY DEF Kept
  <2> QED BY <2>1, <1>4
<1>6. \A d \in Requesters : (CallIsSound(calls[d]))'
  BY <1>4 DEF CallIsSound, NamesKey, CreatesNew, PagesAreDisjoint, ListsAll
<1>7. DynamoTypeOK'
  BY <1>5 DEF DynamoTypeOK, TableCalls, Operations, Results, Errors, Keys
<1> QED BY <1>4, <1>6, <1>7 DEF DynamoInv

\* A step that hides no item from a reader takes nothing from any call.
LEMMA NothingIsHidden ==
    ASSUME DynamoInv, Settled \subseteq Settled'
    PROVE  Kept = calls
<1> PICK D : D = Settled'
  OBVIOUS
<1>1. \A c \in Requesters : calls[c].always \cap D = calls[c].always
  BY DEF DynamoInv
<1>2. \A c \in Requesters : calls[c] \in TableCalls
  BY DEF DynamoInv, DynamoTypeOK
<1>3. ASSUME NEW c \in Requesters PROVE [calls[c] EXCEPT !.always = @ \cap D] = calls[c]
  BY <1>1, <1>2 DEF TableCalls
<1>4. Kept = [c \in Requesters |-> calls[c]]
  BY <1>3 DEF Kept
<1> QED BY <1>4 DEF DynamoInv, DynamoTypeOK

LEMMA TableIsUnchanged ==
    ASSUME DynamoInv, UNCHANGED <<table, lagging>>
    PROVE  Kept = calls /\ Settled' = Settled
<1>1. Settled' = Settled
  BY DEF Settled
<1> QED BY <1>1, NothingIsHidden

\* A call that ends with a result that is no page.
LEMMA ResultIsSound ==
    ASSUME DynamoAssumption, DynamoInv, NEW c \in Requesters, NEW r \in Results, Result(c, r), made' \in Nat,
           r[1] # "key", calls[c].op = "create" /\ r[1] = "item" => calls[c].step = "put",
           table' \subseteq Keys, lagging' \subseteq Keys
    PROVE  DynamoInv'
<1> PICK x : x = calls[c]
  OBVIOUS
<1> PICK D : D = Settled'
  OBVIOUS
<1> PICK z : z = [x EXCEPT !.always = @ \cap D]
  OBVIOUS
<1> PICK y : y = [z EXCEPT !.step = "done", !.result = r]
  OBVIOUS
<1>1. x \in TableCalls /\ CallIsSound(x)
  BY DEF DynamoInv, DynamoTypeOK
<1>2. z \in TableCalls /\ CallIsSound(z) /\ z.always \subseteq D
  BY <1>1, CallIsSoundKept
<1>3. z.op = x.op /\ z.step = x.step
  BY <1>1 DEF TableCalls
<1>4. /\ y \in TableCalls /\ y.step = "done" /\ y.result = r
      /\ y.op = z.op /\ y.key = z.key /\ y.items = z.items /\ y.always = z.always
      /\ y.from = z.from /\ y.forward = z.forward /\ y.filter = z.filter
  BY ZenonT(40), <1>2 DEF TableCalls
<1>5. CreatesNew(y) /\ NamesKey(y)
  BY <1>2, <1>3, <1>4 DEF CallIsSound, CreatesNew, NamesKey
<1>6. PagesAreDisjoint(y)
  BY <1>2, <1>4 DEF CallIsSound, PagesAreDisjoint
<1>7. ListsAll(y)
  BY <1>4 DEF ListsAll
<1>8. calls' = [Kept EXCEPT ![c] = y]
  <2>1. calls' = [Kept EXCEPT ![c].step = "done", ![c].result = r]
    BY DEF Result
  <2>2. Kept[c] = z /\ Kept = [d \in Requesters |-> Kept[d]]
    BY DEF Kept
  <2> PICK K : K = Kept
    OBVIOUS
  <2>3. [K EXCEPT ![c].step = "done", ![c].result = r] = [K EXCEPT ![c] = [K[c] EXCEPT !.step = "done", !.result = r]]
    BY <2>2
  <2> QED BY <2>1, <2>2, <2>3
<1> QED BY <1>2, <1>4, <1>5, <1>6, <1>7, <1>8, CallerSteps DEF CallIsSound

-----------------------------------------------------------------------------
(* One lemma per operation.                                                *)

CallOf(op, k, from, forward, filter, D) ==
    [op |-> op, key |-> k, step |-> "start", result |-> NullValue, items |-> <<>>,
     from |-> from, forward |-> forward, filter |-> filter, always |-> D]

LEMMA NewCall ==
    ASSUME NEW op \in Operations, NEW k \in Keys, NEW from \in Nat,
           NEW forward \in BOOLEAN, NEW filter \in SUBSET Keys, NEW D \in SUBSET Keys
    PROVE  LET y == CallOf(op, k, from, forward, filter, D) IN
           /\ y \in TableCalls
           /\ y.step = "start" /\ y.key = k /\ y.items = <<>> /\ y.op = op /\ y.always = D
           /\ y.from = from /\ y.forward = forward /\ y.filter = filter
<1>1. <<>> \in Seq(SUBSET Keys)
  OBVIOUS
<1>2. NullValue \in Results
  BY DEF Results
<1> QED BY <1>1, <1>2 DEF TableCalls, CallOf

LEMMA CallStep ==
    ASSUME DynamoAssumption, DynamoInv, NEW c \in Requesters, Call(c)
    PROVE  DynamoInv'
<1>1. PICK op \in {"get", "create", "put", "delete", "list", "page", "find", "findPage"}, k \in Keys,
           forward \in BOOLEAN, filter \in {Keys, {1}} :
         /\ op \in {"list", "page", "find", "findPage"} => k = 1
         /\ op \notin {"find", "findPage"} => forward /\ filter = Keys
         /\ \E from \in {IF forward THEN 0 ELSE NumKeys + 1} \cup {j \in Keys : op \in {"page", "findPage"}} :
            calls' = [calls EXCEPT ![c] =
              [NoCall EXCEPT !.op = op, !.key = k, !.step = "start",
                             !.from = from, !.forward = forward, !.filter = filter, !.always = Settled]]
  BY Zenon DEF Call
<1>d. PICK from \in {IF forward THEN 0 ELSE NumKeys + 1} \cup {j \in Keys : op \in {"page", "findPage"}} :
         calls' = [calls EXCEPT ![c] =
              [NoCall EXCEPT !.op = op, !.key = k, !.step = "start",
                             !.from = from, !.forward = forward, !.filter = filter, !.always = Settled]]
  BY <1>1
<1> PICK D : D = Settled
  OBVIOUS
<1>c. PICK y : y = [NoCall EXCEPT !.op = op, !.key = k, !.step = "start",
                                !.from = from, !.forward = forward, !.filter = filter, !.always = D]
  OBVIOUS
<1>2. table' \subseteq Keys /\ lagging' \subseteq Keys /\ made' \in Nat /\ D \subseteq Keys
  BY DEF Call, DynamoInv, DynamoTypeOK, Settled
<1>3. from \in Nat /\ filter \in SUBSET Keys /\ (op \in {"list", "find"} => from = IF forward THEN 0 ELSE NumKeys + 1)
  BY DEF Keys, DynamoAssumption
<1>4. Kept = calls /\ Settled' = D
  BY TableIsUnchanged DEF Call
<1>5. calls' = [Kept EXCEPT ![c] = y]
  BY <1>d, <1>4, <1>c
<1>6. y = CallOf(op, k, from, forward, filter, D)
  BY <1>c DEF NoCall, CallOf
<1>7. /\ y \in TableCalls
      /\ y.step = "start" /\ y.key = k /\ y.items = <<>> /\ y.op = op /\ y.always = D
      /\ y.from = from /\ y.forward = forward /\ y.filter = filter
  <2>1. op \in Operations /\ D \in SUBSET Keys
    BY <1>2 DEF Operations
  <2>2. k \in Keys /\ forward \in BOOLEAN /\ from \in Nat /\ filter \in SUBSET Keys
    BY <1>3
  <2> QED BY <1>6, <2>1, <2>2, NewCall
<1>8. NamesKey(y) /\ CreatesNew(y) /\ PagesAreDisjoint(y)
  BY <1>7 DEF NamesKey, CreatesNew, PagesAreDisjoint
<1>9. ListsAll(y)
  <2> SUFFICES ASSUME y.op \in {"list", "find"}, NEW j \in D PROVE Before(from, j, forward)
    BY <1>7 DEF ListsAll
  <2>1. from = (IF forward THEN 0 ELSE NumKeys + 1) /\ j \in 1..NumKeys /\ NumKeys \in Nat
    BY <1>2, <1>3, <1>7 DEF Keys, DynamoAssumption
  <2> QED BY <2>1 DEF Before
<1>a. y.always \subseteq Settled'
  BY <1>4, <1>7
<1>b. CallIsSound(y)
  BY <1>8, <1>9 DEF CallIsSound
<1> QED BY <1>2, <1>5, <1>7, <1>a, <1>b, CallerSteps

LEMMA ErrorsAreResults ==
    ASSUME DynamoAssumption, NEW e
    PROVE  <<"thrown", convertError(e)>> \in Results
  BY DEF Results, Errors, convertError

LEMMA GetStep ==
    ASSUME DynamoAssumption, DynamoInv, NEW c \in Requesters, get(c)
    PROVE  DynamoInv'
<1>1. table' \subseteq Keys /\ lagging' \subseteq Keys /\ made' \in Nat /\ calls[c].op = "get"
  BY DEF get, DynamoInv, DynamoTypeOK
<1>2. CASE Result(c, <<"item">>)
  <2>1. <<"item">> \in Results /\ <<"item">>[1] = "item"
    BY DEF Results
  <2> QED BY <1>1, <1>2, <2>1, ResultIsSound
<1>3. ASSUME NEW e, Result(c, IF convertError(e) = "ItemNotFound" THEN <<"null">> ELSE <<"thrown", convertError(e)>>)
      PROVE  DynamoInv'
  <2>1. CASE convertError(e) = "ItemNotFound"
    <3>1. Result(c, <<"null">>) /\ <<"null">> \in Results /\ <<"null">>[1] = "null"
      BY <1>3, <2>1 DEF Results
    <3> QED BY <1>1, <3>1, ResultIsSound
  <2>2. CASE convertError(e) # "ItemNotFound"
    <3> PICK r : r = <<"thrown", convertError(e)>>
      OBVIOUS
    <3>1. Result(c, r) /\ r \in Results /\ r[1] = "thrown"
      BY <1>3, <2>2, ErrorsAreResults
    <3> QED BY <1>1, <3>1, ResultIsSound
  <2> QED BY <2>1, <2>2
<1> QED BY <1>2, <1>3 DEF get

\* What create() is told is missing is not what every reader is shown.
LEMMA CreateCheckStep ==
    ASSUME DynamoAssumption, DynamoInv, NEW c \in Requesters, createCheck(c)
    PROVE  DynamoInv'
<1>1. /\ table' \subseteq Keys /\ lagging' \subseteq Keys /\ made' \in Nat
      /\ calls[c].op = "create" /\ calls[c].step = "start" /\ UNCHANGED <<table, lagging>>
  BY DEF createCheck, DynamoInv, DynamoTypeOK
<1>2. CASE Result(c, <<"thrown", "ItemAlreadyExists">>)
  <2>1. /\ <<"thrown", "ItemAlreadyExists">> \in Results
        /\ <<"thrown", "ItemAlreadyExists">>[1] = "thrown"
    BY DEF Results, Errors
  <2> QED BY <1>1, <1>2, <2>1, ResultIsSound
<1>3. ASSUME NEW e \in GetErrors(calls[c].key),
             IF convertError(e) = "ItemNotFound" THEN calls' = [calls EXCEPT ![c].step = "put"]
             ELSE Result(c, <<"thrown", convertError(e)>>)
      PROVE  DynamoInv'
  <2>1. CASE convertError(e) = "ItemNotFound"
    <3> PICK x : x = calls[c]
      OBVIOUS
    <3> PICK y : y = [x EXCEPT !.step = "put"]
      OBVIOUS
    <3>1. x \in TableCalls /\ CallIsSound(x) /\ x.always \subseteq Settled
      BY DEF DynamoInv, DynamoTypeOK
    <3>2. x.key \notin Settled
      BY <2>1, <1>3 DEF GetErrors, convertError
    <3>3. /\ y \in TableCalls /\ y.step = "put" /\ y.result = x.result
          /\ y.op = x.op /\ y.key = x.key /\ y.items = x.items /\ y.always = x.always
          /\ y.from = x.from /\ y.forward = x.forward /\ y.filter = x.filter
      BY <3>1 DEF TableCalls
    <3>4. CallIsSound(y)
      BY <1>1, <3>1, <3>2, <3>3 DEF CallIsSound, NamesKey, CreatesNew, PagesAreDisjoint, ListsAll
    <3>5. calls' = [calls EXCEPT ![c] = y]
      BY <1>3, <2>1
    <3>6. Kept = calls /\ Settled' = Settled
      BY <1>1, TableIsUnchanged
    <3> QED BY <1>1, <3>1, <3>3, <3>4, <3>5, <3>6, CallerSteps
  <2>2. CASE convertError(e) # "ItemNotFound"
    <3> PICK r : r = <<"thrown", convertError(e)>>
      OBVIOUS
    <3>1. Result(c, r) /\ r \in Results /\ r[1] = "thrown"
      BY <1>3, <2>2, ErrorsAreResults
    <3> QED BY <1>1, <3>1, ResultIsSound
  <2> QED BY <2>1, <2>2
<1> QED BY <1>2, <1>3 DEF createCheck

\* A request to write, however it ends.
LEMMA SentIsSound ==
    ASSUME DynamoAssumption, DynamoInv, NEW c \in Requesters, NEW keys \in SUBSET Keys, NEW answer \in Results,
           Sent(c, TableBecomes(keys), answer), answer[1] # "key",
           calls[c].op = "create" => calls[c].step = "put"
    PROVE  DynamoInv'
<1>1. made' \in Nat /\ table \subseteq Keys /\ lagging \subseteq Keys
  BY DEF Sent, DynamoInv, DynamoTypeOK
<1>2. table' \subseteq Keys /\ lagging' \subseteq Keys
  BY <1>1 DEF Sent, TableBecomes
<1>3. CASE Result(c, answer)
  BY <1>1, <1>2, <1>3, ResultIsSound
<1>4. CASE Result(c, <<"thrown", convertError("error")>>)
  <2> PICK r : r = <<"thrown", convertError("error")>>
    OBVIOUS
  <2>1. Result(c, r) /\ r \in Results /\ r[1] = "thrown"
    BY <1>4, ErrorsAreResults
  <2> QED BY <1>1, <1>2, <2>1, ResultIsSound
<1>5. CASE calls' = Kept
  <2> PICK D : D = Settled'
    OBVIOUS
  <2> PICK x : x = calls[c]
    OBVIOUS
  <2> PICK y : y = [x EXCEPT !.always = @ \cap D]
    OBVIOUS
  <2>1. x \in TableCalls /\ CallIsSound(x)
    BY DEF DynamoInv, DynamoTypeOK
  <2>2. y \in TableCalls /\ CallIsSound(y) /\ y.always \subseteq D
    BY <2>1, CallIsSoundKept
  <2>3. Kept[c] = y /\ Kept = [d \in Requesters |-> Kept[d]]
    BY DEF Kept
  <2>4. calls' = [Kept EXCEPT ![c] = y]
    BY <1>5, <2>3
  <2> QED BY <1>1, <1>2, <2>2, <2>4, CallerSteps
<1> QED BY <1>3, <1>4, <1>5 DEF Sent

LEMMA WriteStep ==
    ASSUME DynamoAssumption, DynamoInv, NEW c \in Requesters, write(c)
    PROVE  DynamoInv'
<1> PICK keys : keys = table \cup {calls[c].key}
  OBVIOUS
<1>1. keys \in SUBSET Keys
  <2>1. calls[c] \in TableCalls /\ NamesKey(calls[c]) /\ calls[c].step \in {"start", "put"} /\ table \subseteq Keys
    BY DEF write, DynamoInv, DynamoTypeOK, CallIsSound
  <2> QED BY <2>1 DEF NamesKey, TableCalls
<1>2. <<"item">> \in Results /\ <<"item">>[1] # "key"
  BY DEF Results
<1>3. Sent(c, TableBecomes(keys), <<"item">>) /\ (calls[c].op = "create" => calls[c].step = "put")
  BY DEF write
<1> QED BY <1>1, <1>2, <1>3, SentIsSound

LEMMA DeleteStep ==
    ASSUME DynamoAssumption, DynamoInv, NEW c \in Requesters, delete(c)
    PROVE  DynamoInv'
<1> PICK keys : keys = table \ {calls[c].key}
  OBVIOUS
<1>1. keys \in SUBSET Keys
  BY DEF DynamoInv, DynamoTypeOK
<1>2. <<"void">> \in Results /\ <<"void">>[1] # "key"
  BY DEF Results
<1>3. Sent(c, TableBecomes(keys), <<"void">>) /\ (calls[c].op = "create" => calls[c].step = "put")
  BY DEF delete
<1> QED BY <1>1, <1>2, <1>3, SentIsSound

-----------------------------------------------------------------------------
(* A page of a listing.                                                    *)

\* The page and the key it ends with, of a call x and the keys D of the table.
PageOf(x, D) == FirstOf({k \in D : Before(x.from, k, x.forward)}, x.forward)

LEMMA KeysAreOrdered ==
    ASSUME NEW a \in Nat, NEW b \in Nat, NEW k \in Nat, NEW forward \in BOOLEAN
    PROVE  /\ ~Before(a, a, forward)
           /\ a = b \/ Before(a, b, forward) \/ Before(b, a, forward)
           /\ Before(a, b, forward) => ~Before(b, a, forward)
           /\ Before(a, b, forward) /\ ~Before(a, k, forward) => ~Before(b, k, forward)
<1>1. CASE forward
  BY <1>1 DEF Before
<1>2. CASE ~forward
  BY <1>2 DEF Before
<1> QED BY <1>1, <1>2

LEMMA PageIsOfTheTable ==
    ASSUME DynamoAssumption, NEW x \in TableCalls, NEW D \in SUBSET Keys
    PROVE  /\ PageOf(x, D) \in SUBSET Keys
           /\ \A k \in PageOf(x, D) : k \in D /\ Before(x.from, k, x.forward)
  BY DEF PageOf, FirstOf

\* The page is added to a listing that ends with it: nothing of the table comes after
\* it unless the caller asked for one page.
LastPage(x, D, r) == [x EXCEPT !.step = "done", !.items = Append(x.items, PageOf(x, D) \cap x.filter), !.result = r]

LEMMA LastPageIsSound ==
    ASSUME DynamoAssumption, NEW x \in TableCalls, CallIsSound(x), NEW D \in SUBSET Keys,
           x.step = "start", x.op # "create", x.always \subseteq D,
           x.op \in {"list", "find"} => Cardinality(PageOf(x, D)) < PageSize,
           NEW r \in Results
    PROVE  /\ LastPage(x, D, r) \in TableCalls /\ CallIsSound(LastPage(x, D, r))
           /\ LastPage(x, D, r).always = x.always
<1> PICK y : y = LastPage(x, D, r)
  OBVIOUS
<1> PICK P : P = PageOf(x, D) \cap x.filter
  OBVIOUS
<1> PICK items : items = Append(x.items, P)
  OBVIOUS
<1>0. /\ P \in SUBSET Keys /\ x.items \in Seq(SUBSET Keys) /\ x.forward \in BOOLEAN /\ x.from \in Nat
      /\ \A k \in P : Before(x.from, k, x.forward)
  BY PageIsOfTheTable DEF TableCalls
<1>1. /\ items \in Seq(SUBSET Keys) /\ Len(items) = Len(x.items) + 1
      /\ items[Len(x.items) + 1] = P
      /\ \A i \in 1..Len(x.items) : items[i] = x.items[i]
  BY <1>0
<1>2. /\ y \in TableCalls /\ y.step = "done" /\ y.items = items
      /\ y.op = x.op /\ y.key = x.key /\ y.always = x.always
      /\ y.from = x.from /\ y.forward = x.forward /\ y.filter = x.filter
  <2>1. y = [x EXCEPT !.step = "done", !.items = items, !.result = r]
    BY DEF LastPage
  <2> QED BY ZenonT(40), <1>1, <2>1 DEF TableCalls
<1>3. PagesAreDisjoint(y)
  <2> SUFFICES ASSUME NEW i \in 1..Len(items), NEW j \in 1..Len(items), i < j
               PROVE  items[i] \cap items[j] = {}
    <3>1. Len(items) \in Nat
      BY <1>1
    <3> QED BY <1>2, <3>1 DEF PagesAreDisjoint
  <2>1. i \in 1..Len(x.items) /\ items[i] = x.items[i] /\ Len(x.items) \in Nat
    BY <1>0, <1>1
  <2>2. CASE j \in 1..Len(x.items)
    BY <1>1, <2>1, <2>2 DEF CallIsSound, PagesAreDisjoint
  <2>3. CASE j = Len(x.items) + 1
    <3>1. \A k \in x.items[i] : ~Before(x.from, k, x.forward)
      BY <2>1 DEF CallIsSound, PagesAreDisjoint
    <3> QED BY <1>0, <1>1, <2>1, <2>3, <3>1
  <2> QED BY <1>1, <2>1, <2>2, <2>3
<1>4. ListsAll(y)
  <2> SUFFICES ASSUME x.op \in {"list", "find"}, NEW k \in x.always \cap x.filter
               PROVE  \E i \in 1..Len(items) : k \in items[i]
    BY <1>2 DEF ListsAll
  <2>1. CASE \E i \in 1..Len(x.items) : k \in x.items[i]
    BY <1>0, <1>1, <2>1
  <2>2. CASE Before(x.from, k, x.forward)
    <3> PICK S : S = {j \in D : Before(x.from, j, x.forward)}
      OBVIOUS
    <3>1. S \in SUBSET Keys /\ k \in S /\ PageOf(x, D) = FirstOf(S, x.forward)
      BY <2>2 DEF PageOf
    <3>2. FirstOf(S, x.forward) = S
      BY <1>0, <3>1, ShortPageIsAll
    <3>3. k \in P
      BY <3>1, <3>2
    <3>4. Len(x.items) \in Nat /\ Len(x.items) + 1 \in 1..Len(items)
      BY <1>0, <1>1
    <3> QED BY <1>1, <3>3, <3>4
  <2> QED BY <2>1, <2>2 DEF CallIsSound, ListsAll
<1>5. NamesKey(y) /\ CreatesNew(y)
  BY <1>2 DEF NamesKey, CreatesNew
<1> QED BY <1>2, <1>3, <1>4, <1>5 DEF CallIsSound

\* The page is added to a listing that goes on after its last key: what lies up to
\* that key is in it.
LEMMA PageIsSound ==
    ASSUME DynamoAssumption, NEW x \in TableCalls, CallIsSound(x), NEW D \in SUBSET Keys,
           x.step = "start", x.op # "create", x.always \subseteq D,
           ~(Cardinality(PageOf(x, D)) < PageSize),
           NEW y, y = [x EXCEPT !.items = Append(x.items, PageOf(x, D) \cap x.filter),
                                !.from = LastOf(PageOf(x, D), x.forward)]
    PROVE  y \in TableCalls /\ CallIsSound(y) /\ y.always = x.always
<1> PICK S : S = {j \in D : Before(x.from, j, x.forward)}
  OBVIOUS
<1> PICK Q : Q = FirstOf(S, x.forward)
  OBVIOUS
<1> PICK P : P = Q \cap x.filter
  OBVIOUS
<1> PICK items : items = Append(x.items, P)
  OBVIOUS
<1> PICK last : last = LastOf(Q, x.forward)
  OBVIOUS
<1>a. Q = PageOf(x, D) /\ S \in SUBSET Keys /\ Q \in SUBSET Keys
  BY DEF PageOf, FirstOf
<1>0. /\ P \in SUBSET Keys /\ x.items \in Seq(SUBSET Keys) /\ x.forward \in BOOLEAN /\ x.from \in Nat
      /\ \A k \in Q : Before(x.from, k, x.forward)
  BY <1>a, PageIsOfTheTable DEF TableCalls
<1>b. Q # {}
  <2>1. Q = {} => Cardinality(Q) = 0
    BY FS_EmptySet
  <2> QED BY <1>a, <2>1 DEF DynamoAssumption
<1>c. last \in Q /\ \A j \in Q : j = last \/ Before(j, last, x.forward)
  <2>1. NumKeys \in Nat
    BY DEF DynamoAssumption
  <2> QED BY <1>0, <1>a, <1>b, <2>1, LatestKey
<1>1. /\ items \in Seq(SUBSET Keys) /\ Len(items) = Len(x.items) + 1
      /\ items[Len(x.items) + 1] = P
      /\ \A i \in 1..Len(x.items) : items[i] = x.items[i]
  BY <1>0
<1>d. last \in Nat /\ Before(x.from, last, x.forward)
  BY <1>0, <1>a, <1>c DEF Keys
<1>2. /\ y \in TableCalls /\ y.step = "start" /\ y.items = items /\ y.from = last
      /\ y.op = x.op /\ y.key = x.key /\ y.always = x.always
      /\ y.forward = x.forward /\ y.filter = x.filter
  BY <1>1, <1>a, <1>d DEF TableCalls
<1>3. PagesAreDisjoint(y)
  <2>0. Len(x.items) \in Nat
    BY <1>0
  <2>1. ASSUME NEW i \in 1..Len(items), NEW j \in 1..Len(items), i < j
        PROVE  items[i] \cap items[j] = {}
    <3>1. i \in 1..Len(x.items) /\ items[i] = x.items[i]
      BY <1>1, <2>0, <2>1
    <3>2. CASE j \in 1..Len(x.items)
      BY <1>1, <2>1, <3>1, <3>2 DEF CallIsSound, PagesAreDisjoint
    <3>3. CASE j = Len(x.items) + 1
      <4>1. \A k \in x.items[i] : ~Before(x.from, k, x.forward)
        BY <3>1 DEF CallIsSound, PagesAreDisjoint
      <4> QED BY <1>0, <1>1, <3>1, <3>3, <4>1
    <3>4. j \in 1..Len(x.items) \/ j = Len(x.items) + 1
      BY <1>1, <2>0
    <3> QED BY <3>2, <3>3, <3>4
  <2>2. ASSUME NEW i \in 1..Len(items), NEW k \in items[i] PROVE ~Before(last, k, x.forward)
    <3>0. k \in Nat
      <4>1. items[i] \in SUBSET Keys
        BY <1>1
      <4> QED BY <4>1 DEF Keys
    <3>1. CASE i \in 1..Len(x.items)
      <4>1. ~Before(x.from, k, x.forward)
        BY <1>1, <2>2, <3>1 DEF CallIsSound, PagesAreDisjoint
      <4> QED BY <1>0, <1>d, <3>0, <4>1, KeysAreOrdered
    <3>2. CASE i = Len(x.items) + 1
      <4>1. k = last \/ Before(k, last, x.forward)
        BY <1>1, <1>c, <2>2, <3>2
      <4> QED BY <1>0, <1>d, <3>0, <4>1, KeysAreOrdered
    <3> QED BY <1>1, <2>0, <3>1, <3>2
  <2>3. \A i, j \in 1..Len(items) : i # j => items[i] \cap items[j] = {}
    <3>1. Len(items) \in Nat
      BY <1>1, <2>0
    <3>2. \A i, j \in 1..Len(items) : i < j => items[i] \cap items[j] = {}
      BY <2>1
    <3> QED BY ONLY <3>1, <3>2
  <2> QED BY <1>2, <2>2, <2>3 DEF PagesAreDisjoint
<1>4. ListsAll(y)
  <2> SUFFICES ASSUME x.op \in {"list", "find"}, NEW k \in x.always \cap x.filter
               PROVE  (\E i \in 1..Len(items) : k \in items[i]) \/ Before(last, k, x.forward)
    BY <1>2 DEF ListsAll
  <2>1. CASE \E i \in 1..Len(x.items) : k \in x.items[i]
    BY <1>0, <1>1, <2>1
  <2>2. CASE Before(x.from, k, x.forward) /\ ~Before(last, k, x.forward)
    <3>1. k \in S /\ k \in Nat
      BY <2>2 DEF Keys
    <3>2. k = last \/ Before(k, last, x.forward)
      BY <1>0, <1>d, <2>2, <3>1, KeysAreOrdered
    <3>3. k \in Q
      BY <1>0, <1>a, <1>c, <3>1, <3>2, PageIsPrefix
    <3>4. Len(x.items) \in Nat /\ Len(x.items) + 1 \in 1..Len(items)
      BY <1>0, <1>1
    <3> QED BY <1>1, <3>3, <3>4
  <2> QED BY <2>1, <2>2 DEF CallIsSound, ListsAll
<1>5. NamesKey(y) /\ CreatesNew(y)
  BY <1>2 DEF NamesKey, CreatesNew, CallIsSound
<1> QED BY <1>2, <1>3, <1>4, <1>5 DEF CallIsSound

LEMMA CollectStep ==
    ASSUME DynamoAssumption, DynamoInv, NEW c \in Requesters, NEW once \in BOOLEAN, Collect(c, once),
           calls[c].op # "create", calls[c].op \in {"list", "find"} => ~once
    PROVE  DynamoInv'
<1> PICK x : x = calls[c]
  OBVIOUS
<1>1. /\ x \in TableCalls /\ CallIsSound(x) /\ x.step = "start" /\ x.always \subseteq Settled
      /\ UNCHANGED <<table, lagging, made>>
  BY DEF DynamoInv, DynamoTypeOK, Collect
<1>2. table' \subseteq Keys /\ lagging' \subseteq Keys /\ made' \in Nat
  BY <1>1 DEF DynamoInv, DynamoTypeOK
<1>6. Kept = calls /\ Settled' = Settled
  BY <1>1, TableIsUnchanged
<1>7. ASSUME NEW D \in Views,
             \/ /\ once \/ lastEvaluatedKey(c, Page(c, D)) = NullValue
                /\ calls' = [calls EXCEPT ![c].step = "done",
                                          ![c].items = Append(x.items, Page(c, D) \cap x.filter),
                                          ![c].result = <<"key", lastEvaluatedKey(c, Page(c, D))>>]
             \/ /\ ~once /\ lastEvaluatedKey(c, Page(c, D)) # NullValue
                /\ calls' = [calls EXCEPT ![c].items = Append(x.items, Page(c, D) \cap x.filter),
                                          ![c].from = lastEvaluatedKey(c, Page(c, D))]
      PROVE  DynamoInv'
  <2> PICK page : page = Page(c, D)
    OBVIOUS
  <2> PICK items : items = Append(x.items, page \cap x.filter)
    OBVIOUS
  <2> PICK key : key = lastEvaluatedKey(c, page)
    OBVIOUS
  <2>0. \/ /\ once \/ key = NullValue
           /\ calls' = [calls EXCEPT ![c].step = "done", ![c].items = items, ![c].result = <<"key", key>>]
        \/ /\ ~once /\ key # NullValue
           /\ calls' = [calls EXCEPT ![c].items = items, ![c].from = key]
    BY <1>7
  <2>1. D \in SUBSET Keys /\ x.always \subseteq D
    BY <1>1 DEF Views, Shown, DynamoInv, DynamoTypeOK
  <2>2. page = PageOf(x, D)
    BY DEF Page, PageOf
  <2>3. key = IF Cardinality(PageOf(x, D)) < PageSize THEN NullValue ELSE LastOf(PageOf(x, D), x.forward)
    BY <2>2 DEF lastEvaluatedKey
  <2>4. key \in Nat \cup {NullValue} /\ (key = NullValue <=> Cardinality(PageOf(x, D)) < PageSize)
    <3>1. CASE Cardinality(PageOf(x, D)) < PageSize
      BY <2>3, <3>1
    <3>2. CASE ~(Cardinality(PageOf(x, D)) < PageSize)
      <4>1. PageOf(x, D) \in SUBSET Keys /\ x.forward \in BOOLEAN /\ NumKeys \in Nat
        BY <1>1, <2>1, PageIsOfTheTable DEF TableCalls, DynamoAssumption
      <4>2. PageOf(x, D) # {}
        <5>1. Cardinality({}) = 0 /\ 0 < PageSize
          BY ONLY FS_EmptySet, DynamoAssumption DEF DynamoAssumption
        <5> QED BY ONLY <3>2, <5>1
      <4>3. key \in PageOf(x, D)
        BY <2>3, <3>2, <4>1, <4>2, LatestKey
      <4> QED BY <3>2, <4>1, <4>3 DEF Keys, DynamoAssumption
    <3> QED BY <3>1, <3>2
  <2>5. items = Append(x.items, PageOf(x, D) \cap x.filter)
    BY <2>2
  <2>6. CASE /\ once \/ key = NullValue
             /\ calls' = [calls EXCEPT ![c].step = "done", ![c].items = items, ![c].result = <<"key", key>>]
    <3> PICK r : r = <<"key", key>>
      OBVIOUS
    <3> PICK y : y = [x EXCEPT !.step = "done", !.items = items, !.result = r]
      OBVIOUS
    <3>1. r \in Results
      BY <2>4 DEF Results
    <3>2. x.op \in {"list", "find"} => Cardinality(PageOf(x, D)) < PageSize
      BY <2>4, <2>6
    <3>3. y = LastPage(x, D, r)
      BY <2>5 DEF LastPage
    <3>4. y \in TableCalls /\ CallIsSound(y) /\ y.always = x.always
      <4>1. x.op # "create"
        OBVIOUS
      <4> QED BY ONLY DynamoAssumption, <1>1, <2>1, <3>1, <3>2, <3>3, <4>1, LastPageIsSound
    <3>5. calls' = [Kept EXCEPT ![c] = y]
      BY <1>6, <2>6
    <3> QED BY <1>1, <1>2, <1>6, <3>4, <3>5, CallerSteps
  <2>7. CASE /\ ~once /\ key # NullValue
             /\ calls' = [calls EXCEPT ![c].items = items, ![c].from = key]
    <3> PICK y : y = [x EXCEPT !.items = items, !.from = key]
      OBVIOUS
    <3>1. key = LastOf(PageOf(x, D), x.forward) /\ ~(Cardinality(PageOf(x, D)) < PageSize)
      BY <2>3, <2>4, <2>7
    <3>2. y = [x EXCEPT !.items = Append(x.items, PageOf(x, D) \cap x.filter), !.from = LastOf(PageOf(x, D), x.forward)]
      BY <2>5, <3>1
    <3>3. y \in TableCalls /\ CallIsSound(y) /\ y.always = x.always
      <4>1. x.op # "create"
        OBVIOUS
      <4> QED BY ONLY DynamoAssumption, <1>1, <2>1, <3>1, <3>2, <4>1, PageIsSound
    <3>4. calls' = [Kept EXCEPT ![c] = y]
      BY <1>6, <2>7
    <3> QED BY <1>1, <1>2, <1>6, <3>3, <3>4, CallerSteps
  <2> QED BY <2>0, <2>6, <2>7
<1>8. CASE Result(c, <<"thrown", convertError("error")>>)
  <2> PICK r : r = <<"thrown", convertError("error")>>
    OBVIOUS
  <2>1. Result(c, r) /\ r \in Results /\ r[1] = "thrown"
    BY <1>8, ErrorsAreResults
  <2> QED BY <1>2, <2>1, ResultIsSound
<1>9. CASE ~Result(c, <<"thrown", convertError("error")>>)
  <2>1. PICK D \in Views :
          \/ /\ once \/ lastEvaluatedKey(c, Page(c, D)) = NullValue
             /\ calls' = [calls EXCEPT ![c].step = "done",
                                       ![c].items = Append(x.items, Page(c, D) \cap x.filter),
                                       ![c].result = <<"key", lastEvaluatedKey(c, Page(c, D))>>]
          \/ /\ ~once /\ lastEvaluatedKey(c, Page(c, D)) # NullValue
             /\ calls' = [calls EXCEPT ![c].items = Append(x.items, Page(c, D) \cap x.filter),
                                       ![c].from = lastEvaluatedKey(c, Page(c, D))]
    BY <1>9 DEF Collect, nextKey
  <2> QED BY ONLY <1>7, <2>1
<1> QED BY <1>8, <1>9

-----------------------------------------------------------------------------
LEMMA DynamoInitially ==
    ASSUME DynamoAssumption, DynamoInit PROVE DynamoInv
<1>2. table \subseteq Keys /\ lagging \subseteq Keys /\ made \in Nat
  BY DEF DynamoInit
<1>3. /\ NoCall.step = "none" /\ NoCall.items = <<>> /\ NoCall.always = {}
  BY DEF NoCall
<1>4. NoCall \in TableCalls
  <2>1. <<>> \in Seq(SUBSET Keys) /\ NullValue \in Results
    BY DEF Results
  <2> QED BY <2>1 DEF NoCall, TableCalls
<1>5. CallIsSound(NoCall)
  BY <1>3 DEF CallIsSound, NamesKey, CreatesNew, PagesAreDisjoint, ListsAll
<1> QED BY <1>2, <1>3, <1>4, <1>5 DEF DynamoInit, DynamoInv, DynamoTypeOK

LEMMA DynamoSteps ==
    ASSUME DynamoAssumption, DynamoInv, [DynamoNext]_dynamoVars PROVE DynamoInv'
<1>1. CASE UNCHANGED dynamoVars
  BY <1>1 DEF dynamoVars, DynamoInv, DynamoTypeOK, TableCalls, Operations, Results, Errors, Keys, Settled,
              CallIsSound, NamesKey, CreatesNew, PagesAreDisjoint, ListsAll
<1>5. ASSUME NEW k \in Keys, CatchUp(k) PROVE DynamoInv'
  <2>1. Settled \subseteq Settled'
    BY <1>5 DEF CatchUp, Settled
  <2>2. calls' = calls /\ table' = table /\ made' = made /\ lagging' \subseteq lagging
    BY <1>5 DEF CatchUp
  <2>3. DynamoTypeOK'
    BY <2>2 DEF DynamoInv, DynamoTypeOK, TableCalls, Operations, Results, Errors, Keys
  <2>4. \A c \in Requesters : calls'[c].always \subseteq Settled' /\ (CallIsSound(calls[c]))'
    BY <2>1, <2>2 DEF DynamoInv, CallIsSound, NamesKey, CreatesNew, PagesAreDisjoint, ListsAll
  <2> QED BY <2>3, <2>4 DEF DynamoInv
<1>2. ASSUME NEW c \in Requesters, Call(c) \/ get(c) \/ createCheck(c) \/ write(c) \/ delete(c)
      PROVE  DynamoInv'
  BY <1>2, CallStep, GetStep, CreateCheckStep, WriteStep, DeleteStep
<1>3. ASSUME NEW c \in Requesters, list(c) PROVE DynamoInv'
  <2> PICK once \in BOOLEAN : once = (calls[c].op = "page")
    OBVIOUS
  <2>1. Collect(c, once) /\ calls[c].op # "create" /\ (calls[c].op \in {"list", "find"} => ~once)
    BY <1>3 DEF list
  <2> QED BY <2>1, CollectStep
<1>4. ASSUME NEW c \in Requesters, findBySecondaryIndex(c) PROVE DynamoInv'
  <2> PICK once \in BOOLEAN : once = (calls[c].op = "findPage")
    OBVIOUS
  <2>1. Collect(c, once) /\ calls[c].op # "create" /\ (calls[c].op \in {"list", "find"} => ~once)
    BY <1>4 DEF findBySecondaryIndex
  <2> QED BY <2>1, CollectStep
<1> QED BY <1>1, <1>2, <1>3, <1>4, <1>5 DEF DynamoNext

LEMMA DynamoInvIsSound ==
    ASSUME DynamoInv PROVE TableIsSound
<1> SUFFICES ASSUME NEW c \in Requesters
             PROVE  /\ Created(c) => calls[c].key \notin calls[c].always
                    /\ \A i, j \in DOMAIN calls[c].items : i # j => calls[c].items[i] \cap calls[c].items[j] = {}
                    /\ calls[c].op \in {"list", "find"} /\ calls[c].step = "done" /\ calls[c].result[1] = "key"
                         => calls[c].always \cap calls[c].filter \subseteq Listed(c)
  BY DEF TableIsSound
<1>1. calls[c] \in TableCalls /\ CallIsSound(calls[c])
  BY DEF DynamoInv, DynamoTypeOK
<1>2. calls[c].items \in Seq(SUBSET Keys) /\ DOMAIN calls[c].items = 1..Len(calls[c].items)
  BY <1>1 DEF TableCalls
<1>3. Created(c) => calls[c].key \notin calls[c].always
  BY <1>1 DEF Created, CallIsSound, CreatesNew
<1>4. \A i, j \in DOMAIN calls[c].items : i # j => calls[c].items[i] \cap calls[c].items[j] = {}
  BY <1>1, <1>2 DEF CallIsSound, PagesAreDisjoint
<1>5. ASSUME calls[c].op \in {"list", "find"}, calls[c].step = "done", calls[c].result[1] = "key",
             NEW k \in calls[c].always \cap calls[c].filter
      PROVE  k \in Listed(c)
  <2>1. PICK i \in DOMAIN calls[c].items : k \in calls[c].items[i]
    BY <1>1, <1>2, <1>5 DEF CallIsSound, ListsAll
  <2> QED BY <2>1 DEF Listed, ToSet
<1> QED BY <1>3, <1>4, <1>5

\* DynamodbClient, whose reads may lag behind the writes of any number of callers:
\* create() replaces no item that every reader was shown from its call on, and a listing,
\* however many pages it takes and whatever other callers write, returns each item once
\* and every item that every reader was shown all along.
THEOREM TableIsSoundHolds ==
    ASSUME DynamoAssumption PROVE DynamoSpec => []TableIsSound
<1>1. DynamoInit => DynamoInv
  BY DynamoInitially
<1>2. DynamoInv /\ [DynamoNext]_dynamoVars => DynamoInv'
  BY DynamoSteps
<1>3. DynamoInv => TableIsSound
  BY DynamoInvIsSound
<1> QED BY <1>1, <1>2, <1>3, PTL DEF DynamoSpec

\* The clients of packages/aws, side by side: what they return is what the provider did.
THEOREM AwsIsSoundHolds ==
    ASSUME CloudFormationAssumption, DynamoAssumption
    PROVE  CloudFormationSpec /\ DynamoSpec => []AwsIsSound
<1>1. CloudFormationSpec => []DeploymentsTellTheTruth
  BY DeploymentsTellTheTruthHolds
<1>2. DynamoSpec => []TableIsSound
  BY TableIsSoundHolds
<1>3. DeploymentsTellTheTruth /\ TableIsSound => AwsIsSound
  BY DEF AwsIsSound
<1> QED BY <1>1, <1>2, <1>3, PTL

-----------------------------------------------------------------------------
(* Tokens, voters and guards.                                              *)

Answers == {"no token", "unknown kid", "unauthorized", "expired", "forbidden", "accepted", "error"}

\* A request waits with its token and without an answer, or has ended.
RequestIsSound(q) ==
    /\ q.pc \in {"idle", "fetching", "sent", "done"}
    /\ q.pc # "idle" => q.token \in Tokens
    /\ q.pc = "sent" => q.pems # {} /\ q.pems \in SUBSET (1..keysMade)
    /\ q.pc # "done" => q.answer = Nothing
    /\ q.pc = "done" => q.at \in Nat /\ q.answer \in Answers \cup {Nothing}

\* The keys that are published, and those of the copy, are keys the issuer made.
TokenInv ==
    /\ provider \in Providers
    /\ keysMade \in 1..MaxKey /\ time \in Nat
    /\ published \in SUBSET (1..keysMade) /\ published # {}
    /\ cachedPems # Nothing => cachedPems \in SUBSET (1..keysMade)
    /\ DOMAIN request = Requests
    /\ \A c \in Requests : RequestIsSound(request[c])
    /\ TokensAreVerified

\* What an answer says of the token, at the time it is given.
Vouches(t, at) ==
    /\ t.header /\ t.signer = t.kid /\ t.kid <= keysMade /\ t.iss
    /\ provider # "cognito" => Audience \in t.aud
    /\ provider = "auth0" => Scope \in t.scopes
    /\ t.authTime <= at /\ at < t.exp

LEMMA KeysAreNumbers ==
    ASSUME TokenAssumption, keysMade \in 1..MaxKey
    PROVE  keysMade \in Nat /\ \A pems \in SUBSET (1..keysMade) : pems # Nothing
<1>1. MaxKey \in Nat /\ \A pems \in SUBSET (1..MaxKey) : pems # Nothing
  BY DEF TokenAssumption
<1>2. keysMade \in Nat /\ 1..keysMade \subseteq 1..MaxKey
  BY <1>1
<1> QED BY <1>1, <1>2

LEMMA VerifyToken ==
    ASSUME TokenAssumption, TokenInv, NEW t \in Tokens, NEW pems \in SUBSET (1..keysMade)
    PROVE  /\ verifyToken(t, pems) = "accepted" => Vouches(t, time)
           /\ verifyToken(t, pems) = "unknown kid" => t.header
           /\ verifyToken(t, pems) \in Answers \cup {Nothing}
<1>0. /\ t.kid \in Nat /\ t.exp \in Nat /\ t.authTime \in Nat /\ time \in Nat /\ keysMade \in Nat
      /\ Nothing \notin Nat /\ provider \in {"auth0", "cognito", "identity-platform"}
      /\ Nothing \notin {"forbidden", "unauthorized"}
  <2>1. t.kid \in Nat /\ t.exp \in Nat /\ t.authTime \in Nat
    BY DEF TokenAssumption
  <2>2. time \in Nat /\ keysMade \in Nat
    BY KeysAreNumbers DEF TokenInv
  <2> QED BY <2>1, <2>2 DEF TokenAssumption, TokenInv
<1>1. audienceError(t) \in {Nothing, "forbidden", "unauthorized"} /\ scopeError(t) \in {Nothing, "forbidden"}
  BY <1>0 DEF audienceError, scopeError
<1>2. /\ audienceError(t) = Nothing => (provider # "cognito" => Audience \in t.aud)
      /\ scopeError(t) = Nothing => (provider = "auth0" => Scope \in t.scopes)
  BY <1>0 DEF audienceError, scopeError
<1>3. ASSUME NEW key
      PROVE  /\ getAndVerifyClaims(t, key) \in {"unauthorized", "expired", "forbidden", "accepted"}
             /\ getAndVerifyClaims(t, key) = "accepted" =>
                  /\ t.signer = key /\ time < t.exp /\ t.authTime <= time /\ t.iss
                  /\ audienceError(t) = Nothing /\ scopeError(t) = Nothing
  <2>1. CASE invalid(t, key)
    BY <2>1 DEF getAndVerifyClaims
  <2>2. CASE ~invalid(t, key) /\ expired(t)
    BY <2>2 DEF getAndVerifyClaims
  <2>3. CASE ~invalid(t, key) /\ ~expired(t) /\ (time < t.authTime \/ ~t.iss)
    BY <2>3 DEF getAndVerifyClaims
  <2>4. CASE ~invalid(t, key) /\ ~expired(t) /\ ~(time < t.authTime \/ ~t.iss)
    <3>1. getAndVerifyClaims(t, key) = IF audienceError(t) # Nothing THEN audienceError(t)
                                       ELSE IF scopeError(t) # Nothing THEN scopeError(t) ELSE "accepted"
      BY <2>4 DEF getAndVerifyClaims
    <3>2. t.signer = key /\ time < t.exp /\ t.authTime <= time /\ t.iss
      BY <1>0, <2>4 DEF invalid, expired
    <3> QED BY <1>1, <3>1, <3>2
  <2> QED BY <2>1, <2>2, <2>3, <2>4
<1>4. CASE ~t.header
  BY <1>4 DEF verifyToken, Answers
<1>5. CASE t.header /\ t.kid \notin pems
  BY <1>5 DEF verifyToken, getKeyFromToken, Answers
<1>6. CASE t.header /\ t.kid \in pems
  <2>1. t.kid # Nothing /\ t.kid <= keysMade
    BY <1>0, <1>6
  <2>2. verifyToken(t, pems) = getAndVerifyClaims(t, t.kid)
    BY <1>6, <2>1 DEF verifyToken, getKeyFromToken
  <2> QED BY <1>2, <1>3, <1>6, <2>1, <2>2 DEF Vouches, Answers
<1> QED BY <1>4, <1>5, <1>6

\* An answer is given with keys the issuer made, and after it there is a copy of them.
LEMMA AnswerIsSound ==
    ASSUME TokenAssumption, TokenInv, NEW c \in Requests, NEW t \in Tokens, NEW pems \in SUBSET (1..keysMade),
           NEW answer, answer \in {verifyToken(t, pems), "error"}, Answer(c, t, answer),
           UNCHANGED <<provider, published, keysMade, time>>,
           cachedPems' # Nothing => cachedPems' \in SUBSET (1..keysMade),
           cachedPems # Nothing => cachedPems' # Nothing,
           provider # "identity-platform" => cachedPems' # {},
           provider # "identity-platform" /\ answer # "error" => cachedPems' # Nothing
    PROVE  TokenInv'
<1>1. \A d \in Requests \ {c} : request'[d] = request[d]
  BY DEF Answer, TokenInv
<1>2. /\ request'[c].pc = "done" /\ request'[c].token = t /\ request'[c].answer = answer /\ request'[c].at = time
      /\ DOMAIN request' = Requests
  BY DEF Answer, TokenInv
<1>3. /\ answer = "accepted" => Vouches(t, time)
      /\ answer = "unknown kid" => t.header
      /\ answer \in Answers \cup {Nothing}
  BY VerifyToken DEF Answers
<1>4. \A d \in Requests : RequestIsSound(request[d])'
  <2> SUFFICES ASSUME NEW d \in Requests PROVE RequestIsSound(request[d])'
    OBVIOUS
  <2>1. CASE d = c
    BY <1>2, <1>3, <2>1 DEF RequestIsSound, TokenInv, Answers
  <2>2. CASE d # c
    BY <1>1, <2>2 DEF RequestIsSound, TokenInv, Answers
  <2> QED BY <2>1, <2>2
<1>5. AcceptedIsAuthentic'
  <2> SUFFICES ASSUME NEW d \in Requests, request'[d].answer = "accepted"
               PROVE  Vouches(request'[d].token, request'[d].at)
    BY DEF AcceptedIsAuthentic, Vouches
  <2>1. CASE d = c
    BY <1>2, <1>3, <2>1
  <2>2. CASE d # c
    BY <1>1, <2>2 DEF TokenInv, TokensAreVerified, AcceptedIsAuthentic, Vouches
  <2> QED BY <2>1, <2>2
<1>6. FailedFetchIsNotKept'
  <2> SUFFICES ASSUME provider # "identity-platform", NEW d \in Requests, request'[d].answer = "unknown kid"
               PROVE  cachedPems' # Nothing /\ request'[d].token.header
    BY DEF FailedFetchIsNotKept
  <2>1. CASE d = c
    BY <1>2, <1>3, <2>1
  <2>2. CASE d # c
    BY <1>1, <2>2 DEF TokenInv, TokensAreVerified, FailedFetchIsNotKept
  <2> QED BY <2>1, <2>2
<1> QED BY <1>2, <1>4, <1>5, <1>6 DEF TokenInv, TokensAreVerified

LEMMA AuthenticateStep ==
    ASSUME TokenAssumption, TokenInv, NEW c \in Requests, NEW t \in Tokens, authenticate(c, t)
    PROVE  TokenInv'
<1>1. CASE cachedPems = Nothing
  <2>1. request' = [request EXCEPT ![c] = [pc |-> "fetching", token |-> t, pems |-> Nothing, answer |-> Nothing, at |-> Nothing]]
    BY <1>1 DEF authenticate, NoRequest
  <2>2. /\ \A d \in Requests \ {c} : request'[d] = request[d]
        /\ request'[c].pc = "fetching" /\ request'[c].token = t /\ request'[c].answer = Nothing
        /\ DOMAIN request' = Requests
    BY <2>1 DEF TokenInv
  <2>3. \A d \in Requests : RequestIsSound(request[d])'
    <3>1. keysMade' = keysMade
      BY DEF authenticate
    <3> QED BY <2>2, <3>1 DEF RequestIsSound, TokenInv
  <2>5. TokensAreVerified'
    <3>1. Nothing \notin {"accepted", "unknown kid"} /\ UNCHANGED <<provider, keysMade, cachedPems>>
      BY DEF TokenAssumption, authenticate
    <3>2. AcceptedIsAuthentic /\ FailedFetchIsNotKept
      BY DEF TokenInv, TokensAreVerified
    <3>3. AcceptedIsAuthentic'
      <4> SUFFICES ASSUME NEW d \in Requests, request'[d].answer = "accepted"
                   PROVE  Vouches(request'[d].token, request'[d].at)
        BY <3>1 DEF AcceptedIsAuthentic, Vouches
      <4>1. request'[d] = request[d]
        BY <2>2, <3>1
      <4> QED BY <3>2, <4>1 DEF AcceptedIsAuthentic, Vouches
    <3>4. FailedFetchIsNotKept'
      BY <2>2, <3>1, <3>2 DEF FailedFetchIsNotKept
    <3> QED BY <3>3, <3>4 DEF TokensAreVerified
  <2> QED BY <2>2, <2>3, <2>5 DEF TokenInv, authenticate
<1>2. CASE cachedPems # Nothing
  <2>1. /\ Answer(c, t, verifyToken(t, cachedPems)) /\ UNCHANGED <<provider, published, keysMade, cachedPems, time>>
        /\ cachedPems \in SUBSET (1..keysMade)
        /\ provider # "identity-platform" => cachedPems # {}
    BY <1>2 DEF authenticate, TokenInv, TokensAreVerified, FailedFetchIsNotKept
  <2> QED BY <1>2, <2>1, AnswerIsSound
<1> QED BY <1>1, <1>2

LEMMA SendKeysStep ==
    ASSUME TokenAssumption, TokenInv, NEW c \in Requests, SendKeys(c)
    PROVE  TokenInv'
<1>1. request[c].token \in Tokens /\ request[c].answer = Nothing /\ request[c].pc = "fetching"
  BY DEF SendKeys, TokenInv, RequestIsSound
<1>2. /\ \A d \in Requests \ {c} : request'[d] = request[d]
      /\ request'[c] = [request[c] EXCEPT !.pc = "sent", !.pems = published]
      /\ DOMAIN request' = Requests
  BY DEF SendKeys, TokenInv
<1>3. /\ request'[c].pc = "sent" /\ request'[c].token = request[c].token
      /\ request'[c].pems = published /\ request'[c].answer = Nothing
  BY <1>1, <1>2
<1>4. /\ Nothing \notin {"accepted", "unknown kid"} /\ published # {} /\ published \in SUBSET (1..keysMade)
      /\ UNCHANGED <<provider, published, keysMade, cachedPems, time>>
  BY DEF TokenAssumption, SendKeys, TokenInv
<1>5. \A d \in Requests : RequestIsSound(request[d])'
  BY <1>1, <1>2, <1>3, <1>4 DEF RequestIsSound, TokenInv
<1>6. AcceptedIsAuthentic' /\ FailedFetchIsNotKept'
  <2>1. \A d \in Requests : request'[d].answer \in {"accepted", "unknown kid"} => request'[d] = request[d]
    BY <1>2, <1>3, <1>4
  <2>2. AcceptedIsAuthentic /\ FailedFetchIsNotKept
    BY DEF TokenInv, TokensAreVerified
  <2>3. AcceptedIsAuthentic'
    <3> SUFFICES ASSUME NEW d \in Requests, request'[d].answer = "accepted"
                 PROVE  Vouches(request'[d].token, request'[d].at)
      BY <1>4 DEF AcceptedIsAuthentic, Vouches
    <3> QED BY <2>1, <2>2 DEF AcceptedIsAuthentic, Vouches
  <2>4. FailedFetchIsNotKept'
    BY <1>4, <2>1, <2>2 DEF FailedFetchIsNotKept
  <2> QED BY <2>3, <2>4
<1> QED BY <1>2, <1>4, <1>5, <1>6 DEF TokenInv, TokensAreVerified

LEMMA GetPemsStep ==
    ASSUME TokenAssumption, TokenInv, NEW c \in Requests, getPems(c)
    PROVE  TokenInv'
<1>1. request[c].token \in Tokens
  BY DEF getPems, TokenInv, RequestIsSound
<1>2. /\ request[c].pems # {} /\ request[c].pems \in SUBSET (1..keysMade)
      /\ request[c].pems # Nothing
  BY KeysAreNumbers DEF TokenInv, RequestIsSound, getPems
<1> QED BY <1>1, <1>2, AnswerIsSound DEF getPems

LEMMA GetPemsFailsStep ==
    ASSUME TokenAssumption, TokenInv, NEW c \in Requests, getPemsFails(c)
    PROVE  TokenInv'
<1>1. request[c].token \in Tokens /\ provider \in Providers
  BY DEF getPemsFails, TokenInv, RequestIsSound
<1>2. {} \in SUBSET (1..keysMade) /\ {} # Nothing
  BY DEF TokenAssumption
<1>3. /\ cachedPems # Nothing => cachedPems \in SUBSET (1..keysMade)
      /\ provider # "identity-platform" => cachedPems # {}
  BY DEF TokenInv, TokensAreVerified, FailedFetchIsNotKept
<1>4. CASE provider = "identity-platform"
  <2>1. cachedPems' = {} /\ Answer(c, request[c].token, verifyToken(request[c].token, {}))
    BY <1>2, <1>4 DEF getPemsFails, cacheable
  <2> QED BY <1>1, <1>2, <1>4, <2>1, AnswerIsSound DEF getPemsFails
<1>5. CASE provider # "identity-platform"
  <2>1. cachedPems' = cachedPems /\ Answer(c, request[c].token, "error")
    BY <1>5 DEF getPemsFails, cacheable
  <2> QED BY <1>1, <1>2, <1>3, <1>5, <2>1, AnswerIsSound DEF getPemsFails
<1> QED BY <1>4, <1>5

\* A key more, or a key less, leaves the keys of earlier answers among those made.
LEMMA IssuerStep ==
    ASSUME TokenAssumption, TokenInv, AddKey \/ WithdrawKey \/ Tick
    PROVE  TokenInv'
<1>1. CASE AddKey
  <2>1. keysMade \in Nat /\ keysMade' = keysMade + 1 /\ published' = published \cup {keysMade + 1} /\ keysMade' \in 1..MaxKey
    <3>1. keysMade \in Nat /\ MaxKey \in Nat
      BY KeysAreNumbers DEF TokenInv, TokenAssumption
    <3> QED BY <1>1, <3>1 DEF AddKey
  <2>2. published' \in SUBSET (1..keysMade') /\ published' # {}
    BY <2>1 DEF TokenInv
  <2>3. cachedPems' # Nothing => cachedPems' \in SUBSET (1..keysMade')
    BY <1>1, <2>1 DEF TokenInv, AddKey
  <2>4. \A c \in Requests : RequestIsSound(request[c])'
    <3>1. SUBSET (1..keysMade) \subseteq SUBSET (1..keysMade')
      BY <2>1
    <3> QED BY <1>1, <3>1 DEF AddKey, TokenInv, RequestIsSound
  <2>5. FailedFetchIsNotKept'
    BY <1>1 DEF AddKey, TokenInv, TokensAreVerified, FailedFetchIsNotKept
  <2>6. AcceptedIsAuthentic'
    <3> SUFFICES ASSUME NEW c \in Requests, request[c].answer = "accepted"
                 PROVE  Vouches(request[c].token, request[c].at)'
      BY <1>1 DEF AcceptedIsAuthentic, AddKey, Vouches
    <3>1. Vouches(request[c].token, request[c].at)
      BY DEF TokenInv, TokensAreVerified, AcceptedIsAuthentic, Vouches
    <3>2. request[c].token.kid \in Nat
      <4>1. request[c].token \in Tokens
        BY DEF TokenInv, RequestIsSound, TokenAssumption
      <4> QED BY <4>1 DEF TokenAssumption
    <3>3. request[c].token.kid <= keysMade'
      BY <2>1, <3>1, <3>2 DEF Vouches
    <3> QED BY <1>1, <3>1, <3>3 DEF Vouches, AddKey
  <2> QED BY <1>1, <2>1, <2>2, <2>3, <2>4, <2>5, <2>6 DEF TokenInv, TokensAreVerified, AddKey
<1>2. CASE WithdrawKey
  <2>1. PICK k \in published, l \in published : k < l /\ published' = published \ {k}
    BY <1>2 DEF WithdrawKey
  <2>2. published' \in SUBSET (1..keysMade) /\ published' # {}
    <3>1. l # k
      BY <2>1 DEF TokenInv
    <3> QED BY <2>1, <3>1 DEF TokenInv
  <2> QED BY <1>2, <2>2 DEF WithdrawKey, TokenInv, RequestIsSound, TokensAreVerified, AcceptedIsAuthentic, FailedFetchIsNotKept
<1>3. CASE Tick
  <2>1. \A c \in Requests : RequestIsSound(request[c])'
    BY <1>3 DEF Tick, TokenInv, RequestIsSound
  <2>2. TokensAreVerified'
    BY <1>3 DEF Tick, TokenInv, TokensAreVerified, AcceptedIsAuthentic, FailedFetchIsNotKept
  <2>3. time' \in Nat
    BY <1>3 DEF Tick, TokenInv
  <2> QED BY <1>3, <2>1, <2>2, <2>3 DEF Tick, TokenInv
<1> QED BY <1>1, <1>2, <1>3

\* Auth0Authenticator, AwsCognitoAuthenticator and IdentityPlatformAuthenticator: an
\* identity is made only of a token that a key of the issuer signed, in its time and for
\* this audience, and a fetch that failed leaves Auth0 and Cognito no empty copy.
THEOREM TokensAreVerifiedHolds ==
    ASSUME TokenAssumption PROVE TokenSpec => []TokensAreVerified
<1>1. TokenInit => TokenInv
  <2> SUFFICES ASSUME TokenInit PROVE TokenInv
    OBVIOUS
  <2>1. \A c \in Requests : request[c].pc = "idle" /\ request[c].answer = Nothing
    BY DEF TokenInit, NoRequest
  <2>2. cachedPems = Nothing /\ {} # Nothing
    BY DEF TokenInit, TokenAssumption
  <2>3. \A c \in Requests : RequestIsSound(request[c])
    BY <2>1 DEF RequestIsSound
  <2>4. TokensAreVerified
    BY <2>1, <2>2 DEF TokensAreVerified, AcceptedIsAuthentic, FailedFetchIsNotKept, TokenAssumption
  <2>5. keysMade \in 1..MaxKey /\ published \in SUBSET (1..keysMade) /\ published # {} /\ time \in Nat
    <3>1. keysMade = 1 /\ published = {1} /\ time = 0 /\ MaxKey \in Nat \ {0}
      BY DEF TokenInit, TokenAssumption
    <3> QED BY ONLY <3>1
  <2>6. provider \in Providers /\ DOMAIN request = Requests
    BY DEF TokenInit
  <2> QED BY <2>2, <2>3, <2>4, <2>5, <2>6 DEF TokenInv
<1>2. TokenInv /\ [TokenNext]_tokenVars => TokenInv'
  <2> SUFFICES ASSUME TokenInv, [TokenNext]_tokenVars PROVE TokenInv'
    OBVIOUS
  <2>1. CASE UNCHANGED tokenVars
    BY <2>1 DEF tokenVars, TokenInv, RequestIsSound, TokensAreVerified, AcceptedIsAuthentic, FailedFetchIsNotKept
  <2> QED BY <2>1, AuthenticateStep, SendKeysStep, GetPemsStep, GetPemsFailsStep, IssuerStep DEF TokenNext
<1>3. TokenInv => TokensAreVerified
  BY DEF TokenInv
<1> QED BY <1>1, <1>2, <1>3, PTL DEF TokenSpec

-----------------------------------------------------------------------------
\* The outcome of a vote, by who voted what.
LEMMA OutcomeOfVotes ==
    ASSUME NEW voters \in Seq(Voters), NEW votingStrategy \in VotingStrategyEnum
    PROVE  hasAccessToResource(voters, votingStrategy) =
             IF \E i \in 1..Len(voters) : voters[i] = "throws" THEN "throws"
             ELSE IF /\ \A i \in 1..Len(voters) : voters[i] # "DENY"
                     /\ votingStrategy = "DENY_ON_UNANIMOUS_ABSTENTION" => \E i \in 1..Len(voters) : voters[i] = "GRANT"
                  THEN "granted" ELSE "denied"
<1> DEFINE votes == votesOf(voters)
<1>1. DOMAIN voters = 1..Len(voters)
  OBVIOUS
<1>2. DOMAIN votes = {i \in 1..Len(voters) : voters[i] \in VoteEnum} /\ \A i \in DOMAIN votes : votes[i] = voters[i]
  BY <1>1 DEF votesOf
<1> HIDE DEF votes
<1>3. (\A i \in DOMAIN votes : votes[i] # "DENY") <=> (\A i \in 1..Len(voters) : voters[i] # "DENY")
  BY <1>2 DEF VoteEnum
<1>4. ASSUME \A i \in 1..Len(voters) : voters[i] # "DENY"
      PROVE  (\E i \in DOMAIN votes : votes[i] # "ABSTAIN") <=> (\E i \in 1..Len(voters) : voters[i] = "GRANT")
  BY <1>2, <1>4 DEF VoteEnum
<1>5. decide(votes, votingStrategy) <=>
        /\ \A i \in 1..Len(voters) : voters[i] # "DENY"
        /\ votingStrategy = "DENY_ON_UNANIMOUS_ABSTENTION" => \E i \in 1..Len(voters) : voters[i] = "GRANT"
  BY <1>3, <1>4 DEF decide
<1> QED BY <1>1, <1>5 DEF hasAccessToResource, votes

\* One voter more, wherever in the order, is one element more and none less.
LEMMA InsertedVoter ==
    ASSUME NEW voters \in Seq(Voters), NEW n \in 0..Len(voters), NEW v \in Voters
    PROVE  /\ Inserted(voters, n, v) \in Seq(Voters)
           /\ \A w : (\E i \in 1..Len(Inserted(voters, n, v)) : Inserted(voters, n, v)[i] = w)
                       <=> (w = v \/ \E i \in 1..Len(voters) : voters[i] = w)
<1>a. PICK a : a = SubSeq(voters, 1, n)
  OBVIOUS
<1>b. PICK b : b = SubSeq(voters, n + 1, Len(voters))
  OBVIOUS
<1>s. PICK s : s = Inserted(voters, n, v)
  OBVIOUS
<1>0. Len(voters) \in Nat /\ n \in Nat /\ n <= Len(voters)
  OBVIOUS
<1>1. a \in Seq(Voters) /\ Len(a) = n /\ \A i \in 1..n : a[i] = voters[i]
  BY <1>0, <1>a
<1>2. b \in Seq(Voters) /\ Len(b) = Len(voters) - n /\ \A i \in 1..(Len(voters) - n) : b[i] = voters[n + i]
  BY <1>0, <1>b
<1>3. <<v>> \in Seq(Voters) /\ Len(<<v>>) = 1 /\ <<v>>[1] = v
  OBVIOUS
<1>4. s = (a \o <<v>>) \o b
  BY <1>a, <1>b, <1>s DEF Inserted
<1>v. PICK av : av = a \o <<v>>
  OBVIOUS
<1>5. av \in Seq(Voters) /\ Len(av) = n + 1 /\ av[n + 1] = v /\ \A i \in 1..n : av[i] = voters[i]
  <2>1. /\ av \in Seq(Voters) /\ Len(av) = Len(a) + Len(<<v>>)
        /\ \A i \in 1..(Len(a) + Len(<<v>>)) : av[i] = IF i <= Len(a) THEN a[i] ELSE <<v>>[i - Len(a)]
    BY <1>1, <1>3, <1>v, ConcatProperties
  <2>2. Len(av) = n + 1 /\ \A i \in 1..(n + 1) : av[i] = IF i <= n THEN a[i] ELSE <<v>>[i - n]
    BY <1>1, <1>3, <2>1
  <2>3. av[n + 1] = v
    <3>1. n + 1 \in 1..(n + 1) /\ ~(n + 1 <= n) /\ (n + 1) - n = 1
      BY <1>0
    <3> QED BY <1>3, <2>2, <3>1
  <2>4. ASSUME NEW i \in 1..n PROVE av[i] = voters[i]
    <3>1. i \in 1..(n + 1) /\ i <= n
      BY <1>0
    <3> QED BY <1>1, <2>2, <3>1
  <2> QED BY <2>1, <2>2, <2>3, <2>4
<1>6. /\ s \in Seq(Voters) /\ Len(s) = Len(voters) + 1
      /\ \A i \in 1..(n + 1) : s[i] = av[i]
      /\ \A i \in 1..(Len(voters) - n) : s[n + 1 + i] = b[i]
  <2>1. /\ s \in Seq(Voters) /\ Len(s) = Len(av) + Len(b)
        /\ \A i \in 1..(Len(av) + Len(b)) : s[i] = IF i <= Len(av) THEN av[i] ELSE b[i - Len(av)]
    <3>1. s = av \o b
      BY <1>4, <1>v
    <3> QED BY <1>2, <1>5, <3>1, ConcatProperties
  <2>2. Len(av) + Len(b) = Len(voters) + 1 /\ Len(av) = n + 1
    BY <1>0, <1>2, <1>5
  <2>3. ASSUME NEW i \in 1..(n + 1) PROVE s[i] = av[i]
    <3>1. i \in 1..(Len(av) + Len(b)) /\ i <= Len(av)
      BY <1>0, <2>2
    <3> QED BY <2>1, <3>1
  <2>4. ASSUME NEW i \in 1..(Len(voters) - n) PROVE s[n + 1 + i] = b[i]
    <3>1. n + 1 + i \in 1..(Len(av) + Len(b)) /\ ~(n + 1 + i <= Len(av)) /\ n + 1 + i - Len(av) = i
      BY <1>0, <2>2
    <3> QED BY SMTT(20), <2>1, <3>1
  <2> QED BY <2>1, <2>2, <2>3, <2>4
<1>7. s[n + 1] = v /\ (\A i \in 1..n : s[i] = voters[i])
  <2>1. n + 1 \in 1..(n + 1) /\ \A i \in 1..n : i \in 1..(n + 1)
    BY <1>0
  <2> QED BY <1>5, <1>6, <2>1
<1>8. \A i \in (n + 1)..Len(voters) : s[i + 1] = voters[i]
  <2> SUFFICES ASSUME NEW i \in (n + 1)..Len(voters) PROVE s[i + 1] = voters[i]
    OBVIOUS
  <2>1. PICK j \in 1..(Len(voters) - n) : i = n + j
    <3>1. i - n \in 1..(Len(voters) - n) /\ i = n + (i - n)
      BY <1>0
    <3> QED BY <3>1
  <2>2. i + 1 = n + 1 + j
    BY <1>0, <2>1
  <2> QED BY <1>2, <1>6, <2>1, <2>2
<1>9. ASSUME NEW i \in 1..Len(s) PROVE s[i] = v \/ \E j \in 1..Len(voters) : s[i] = voters[j]
  <2>1. CASE i <= n
    <3>1. i \in 1..n /\ i \in 1..Len(voters)
      BY <1>0, <1>6, <2>1
    <3> QED BY <1>7, <3>1
  <2>2. CASE i = n + 1
    BY <1>7, <2>2
  <2>3. CASE i > n + 1
    <3>1. PICK j \in (n + 1)..Len(voters) : i = j + 1
      <4>1. i - 1 \in (n + 1)..Len(voters) /\ i = (i - 1) + 1
        BY <1>0, <1>6, <2>3
      <4> QED BY <4>1
    <3>2. j \in 1..Len(voters)
      BY <1>0
    <3> QED BY <1>8, <3>1, <3>2
  <2>4. i <= n \/ i = n + 1 \/ i > n + 1
    BY <1>0, <1>6
  <2> QED BY <2>1, <2>2, <2>3, <2>4
<1>10. ASSUME NEW j \in 1..Len(voters) PROVE \E i \in 1..Len(s) : s[i] = voters[j]
  <2>1. CASE j <= n
    <3>1. j \in 1..n /\ j \in 1..Len(s)
      BY <1>0, <1>6, <2>1
    <3> QED BY <1>7, <3>1
  <2>2. CASE j > n
    <3>1. j \in (n + 1)..Len(voters) /\ j + 1 \in 1..Len(s)
      BY <1>0, <1>6, <2>2
    <3> QED BY <1>8, <3>1
  <2> QED BY <1>0, <2>1, <2>2
<1>11. n + 1 \in 1..Len(s)
  BY <1>0, <1>6
<1>12. ASSUME NEW w
       PROVE  (\E i \in 1..Len(s) : s[i] = w) <=> (w = v \/ \E i \in 1..Len(voters) : voters[i] = w)
  <2>1. ASSUME NEW i \in 1..Len(s), s[i] = w PROVE w = v \/ \E j \in 1..Len(voters) : voters[j] = w
    BY <1>9, <2>1
  <2>2. ASSUME w = v PROVE \E i \in 1..Len(s) : s[i] = w
    BY <1>7, <1>11, <2>2
  <2>3. ASSUME NEW j \in 1..Len(voters), voters[j] = w PROVE \E i \in 1..Len(s) : s[i] = w
    BY <1>10, <2>3
  <2> QED BY <2>1, <2>2, <2>3
<1> QED BY <1>6, <1>12, <1>s

\* PermissionManager: access is granted on a vote for it and lost on any against it, for
\* any number of voters in any order, and a voter that abstains changes nothing.
THEOREM VotesDecideAlways ==
    ASSUME NEW voters \in Seq(Voters), NEW votingStrategy \in VotingStrategyEnum
    PROVE  VotesDecide(voters, votingStrategy)
<1> DEFINE Some(s, w) == \E i \in 1..Len(s) : s[i] = w
           Outcome(s) == hasAccessToResource(s, votingStrategy)
           Granted(s) == ~Some(s, "throws") /\ ~Some(s, "DENY")
                         /\ (votingStrategy = "DENY_ON_UNANIMOUS_ABSTENTION" => Some(s, "GRANT"))
<1>1. ASSUME NEW s \in Seq(Voters)
      PROVE  /\ Some(s, "throws") => Outcome(s) = "throws"
             /\ Granted(s) => Outcome(s) = "granted"
             /\ ~Some(s, "throws") /\ ~Granted(s) => Outcome(s) = "denied"
  BY OutcomeOfVotes
<1>2. \A i \in DOMAIN voters : i \in 1..Len(voters) /\ voters[i] \in Voters
  OBVIOUS
<1>3. ASSUME NEW n \in 0..Len(voters), NEW v \in {"DENY", "ABSTAIN", "GRANT"}
      PROVE  /\ Inserted(voters, n, v) \in Seq(Voters)
             /\ \A w : Some(Inserted(voters, n, v), w) <=> (w = v \/ Some(voters, w))
  <2>1. v \in Voters
    BY DEF Voters, VoteEnum
  <2> QED BY <2>1, InsertedVoter
<1>4. ASSUME Outcome(voters) = "granted"
      PROVE  /\ \A i \in DOMAIN voters : voters[i] \in {"GRANT", "ABSTAIN", "unsupported"}
             /\ votingStrategy = "DENY_ON_UNANIMOUS_ABSTENTION" => \E i \in DOMAIN voters : voters[i] = "GRANT"
  <2>1. Granted(voters)
    <3> HIDE DEF Some, Outcome, Granted
    <3> QED BY <1>1, <1>4
  <2> QED BY <1>2, <2>1 DEF Voters, VoteEnum
<1>5. ASSUME NEW n \in 0..Len(voters)
      PROVE  /\ Outcome(Inserted(voters, n, "DENY")) # "granted"
             /\ Outcome(Inserted(voters, n, "ABSTAIN")) = Outcome(voters)
             /\ Outcome(voters) = "granted" => Outcome(Inserted(voters, n, "GRANT")) = "granted"
  <2> HIDE DEF Some, Outcome
  <2>1. Outcome(Inserted(voters, n, "DENY")) # "granted"
    BY <1>1, <1>3
  <2>2. Outcome(Inserted(voters, n, "ABSTAIN")) = Outcome(voters)
    BY SMTT(20), <1>1, <1>3
  <2>3. Outcome(voters) = "granted" => Outcome(Inserted(voters, n, "GRANT")) = "granted"
    BY <1>1, <1>3
  <2> QED BY <2>1, <2>2, <2>3
<1> QED BY <1>4, <1>5 DEF VotesDecide

\* RoleGuard, AwsCognitoGroupGuard and IdentityPlatformClaimGuard, for any context and identity.
LEMMA GuardsAreStrictAlways ==
    ASSUME NEW context, NEW more, NEW identity
    PROVE  GuardsAreStrict(context, more, identity)
<1>1. ASSUME NEW key
      PROVE  /\ context # {} /\ identity = None => allOf(context, identity, key) = "no"
             /\ context # None /\ allOf(context \cup more, identity, key) = "yes" => allOf(context, identity, key) = "yes"
             /\ context = None => allOf(context, identity, key) = "no"
  BY DEF allOf
<1>2. /\ context # {} /\ identity = None => claimGuard(context, identity) = "no"
      /\ context # None /\ claimGuard(context \cup more, identity) = "yes" => claimGuard(context, identity) = "yes"
      /\ context = None => claimGuard(context, identity) = "no"
  BY DEF claimGuard
<1> QED BY <1>1, <1>2 DEF GuardsAreStrict, roleGuard, groupGuard

LEMMA JwtGuardsPayloadAlways ==
    ASSUME NEW r
    PROVE  JwtGuardsPayload(r)
  BY DEF JwtGuardsPayload, jwtProtectedGuard, jwtPayload, validateAndDecode, validateRequestAndReturnToken

\* Authenticators, voters, guards and JwtManager: nobody is let in on a token, a vote or a
\* claim that does not say so.
THEOREM AuthorizationIsStrictHolds ==
    ASSUME SecurityAssumption PROVE TokenSpec => []AuthorizationIsStrict
<1>1. AccessIsStrict
  BY VotesDecideAlways, GuardsAreStrictAlways, JwtGuardsPayloadAlways DEF AccessIsStrict, SecurityAssumption
<1>2. TokensAreVerified => AuthorizationIsStrict
  BY <1>1 DEF AuthorizationIsStrict
<1>3. TokenSpec => []TokensAreVerified
  BY TokensAreVerifiedHolds DEF SecurityAssumption
<1> QED BY <1>2, <1>3, PTL

=============================================================================
