---------------------- MODULE InstanceReconciler_proofs ----------------------
(***************************************************************************)
(* Proofs about the Instance reconciler, for any set of hosts and any      *)
(* number of faults and crashes.                                           *)
(***************************************************************************)
EXTENDS InstanceReconciler, TLAPS

\* Every constant record is an Instance or a pass, and Reconcile names steps.
LEMMA ConstantTypes ==
  /\ Absent \in InstanceType
  /\ NoPass \in PassType
  /\ \A k \in AllKinds : NewInstance(k) \in InstanceType
<1>1. Absent \in InstanceType
  BY DEF Absent, InstanceType, AllKinds, ProvStatuses
<1>2. NoPass \in PassType
  BY <1>1 DEF NoPass, PassType, Steps
<1>3. ASSUME NEW k \in AllKinds PROVE NewInstance(k) \in InstanceType
  BY DEF NewInstance, Absent, InstanceType, AllKinds, ProvStatuses
<1>4. QED BY <1>1, <1>2, <1>3

\* A decision of Reconcile is a directive or the first step of a pass.
LEMMA ReconcileType ==
  ASSUME NEW i \in InstanceType, NEW hs \in HostType
  PROVE  Reconcile(i, hs) \in {"Ack", "Retry", "deauth", "delete", "untrust",
                               "cleanup", "check"}
BY DEF Reconcile, NothingToDo, ReconcileInstance, InstanceType

\* The Instances a pass computes from the one it read have the same type.
LEMMA PopulatedTypes ==
  ASSUME NEW i \in InstanceType
  PROVE  /\ Idled(i) \in InstanceType
         /\ Provisioning(i) \in InstanceType
         /\ \A state : HandleWorkflowStatus(i, state).new \in InstanceType
         /\ \A state : HandleWorkflowStatus(i, state).dir \in {"Ack", "Retry", "Fail"}
         /\ \A new \in InstanceType :
              /\ UpdatedInstance(i, new) \in InstanceType
              /\ UpdatedStatuses(i, new) \in InstanceType
<1>1. Idled(i) \in InstanceType
  BY DEF Idled, InstanceType, ProvStatuses
<1>2. Provisioning(i) \in InstanceType
  BY DEF Provisioning, InstanceType, ProvStatuses
<1>3. ASSUME NEW state
      PROVE  /\ HandleWorkflowStatus(i, state).new \in InstanceType
             /\ HandleWorkflowStatus(i, state).dir \in {"Ack", "Retry", "Fail"}
  <2>1. CASE state = "SUCCESS"
    BY <2>1 DEF HandleWorkflowStatus, InstanceType, ProvStatuses
  <2>2. CASE state \in {"FAILED", "TIMEOUT"}
    <3>1. [Provisioning(i) EXCEPT !.prov = "Failed"] \in InstanceType
      BY <1>2 DEF InstanceType, ProvStatuses
    <3>2. QED BY <2>2, <3>1 DEF HandleWorkflowStatus, HandleProvisioningError
  <2>3. CASE state \notin {"SUCCESS", "FAILED", "TIMEOUT"}
    BY <2>3, <1>2 DEF HandleWorkflowStatus, HandleProvisioningError
  <2>4. QED BY <2>1, <2>2, <2>3
<1>4. ASSUME NEW new \in InstanceType
      PROVE  UpdatedInstance(i, new) \in InstanceType /\ UpdatedStatuses(i, new) \in InstanceType
  BY DEF UpdatedInstance, UpdatedStatuses, InstanceType
<1>5. QED BY <1>1, <1>2, <1>3, <1>4

LEMMA FaultTypes ==
  ASSUME TypeOK, InvFault \/ ExtFault \/ NoFault
  PROVE  faults' \in [inv : Nat, ext : Nat, crash : Nat]
BY DEF TypeOK, InvFault, ExtFault, NoFault

\* The ways a pass moves on keep the types of pass and queued.
LEMMA PassTypes ==
  ASSUME TypeOK, NEW h \in Hosts
  PROVE  /\ \A s \in Steps : Goto(h, s) => pass' \in [Hosts -> PassType]
         /\ \A s \in Steps, new \in InstanceType, d \in {"Ack", "Retry", "Fail"} :
              GotoWith(h, s, new, d) => pass' \in [Hosts -> PassType]
         /\ \A d : Return(h, d) =>
              pass' \in [Hosts -> PassType] /\ queued' \in [Hosts -> BOOLEAN]
<1>1. ASSUME NEW s \in Steps, Goto(h, s) PROVE pass' \in [Hosts -> PassType]
  BY <1>1 DEF TypeOK, Goto, PassType
<1>2. ASSUME NEW s \in Steps, NEW new \in InstanceType,
             NEW d \in {"Ack", "Retry", "Fail"}, GotoWith(h, s, new, d)
      PROVE  pass' \in [Hosts -> PassType]
  BY <1>2 DEF TypeOK, GotoWith, PassType
<1>3. ASSUME NEW d, Return(h, d)
      PROVE  pass' \in [Hosts -> PassType] /\ queued' \in [Hosts -> BOOLEAN]
  BY <1>3, ConstantTypes DEF TypeOK, Return
<1>4. QED BY <1>1, <1>2, <1>3

-----------------------------------------------------------------------------
(* Type correctness.                                                       *)

\* Every step of a pass keeps the types.
LEMMA PassStepTypes ==
  ASSUME TypeOK, NEW h \in Hosts, PassStep(h)
  PROVE  TypeOK'
<1> USE PassTypes, PopulatedTypes, FaultTypes DEF Steps
<1>0. /\ pass[h] \in PassType /\ pass[h].new \in InstanceType
      /\ inst[h] \in InstanceType
  BY DEF TypeOK, PassType
<1>1. CASE DeauthCheck(h)
  BY <1>0, <1>1 DEF DeauthCheck, TypeOK, envVars
<1>2. CASE DeauthDelete(h)
  BY <1>0, <1>2 DEF DeauthDelete, DeleteWorkflow, DeleteWorkflowFails, TypeOK, WorkflowStates
<1>3. CASE DeauthStatus(h)
  <2>1. UpdatedStatuses(inst[h], pass[h].new) \in InstanceType
    BY <1>0
  <2>2. inst' \in [Hosts -> InstanceType]
    BY <1>3, <2>1 DEF DeauthStatus, TypeOK
  <2>3. QED BY <1>3, <2>2 DEF DeauthStatus, TypeOK
<1>4. CASE CheckStatusOrRunProdWorkflow(h)
  <2> DEFINE r == HandleWorkflowStatus(pass[h].new, wf[h])
  <2>1. r.new \in InstanceType /\ r.dir \in {"Ack", "Retry", "Fail"}
    BY <1>0
  <2>2. \/ GotoWith(h, "instWrite", pass[h].new, "Retry")
        \/ Goto(h, "creds")
        \/ \E s \in {"hostWrite", "instWrite"} : GotoWith(h, s, r.new, r.dir)
    BY <1>4 DEF CheckStatusOrRunProdWorkflow
  <2> HIDE DEF r
  <2>3. pass' \in [Hosts -> PassType]
    BY <1>0, <2>1, <2>2
  <2>4. QED BY <1>4, <2>3 DEF CheckStatusOrRunProdWorkflow, TypeOK, envVars
<1>5. CASE CreateENCredentialsIfNotExists(h)
  BY <1>0, <1>5 DEF CreateENCredentialsIfNotExists, TypeOK
<1>6. CASE RunProdWorkflow(h)
  BY <1>0, <1>6 DEF RunProdWorkflow, TypeOK, WorkflowStates
<1>7. CASE SetHostStatus(h)
  <2>1. host' \in [Hosts -> HostType]
    BY <1>7 DEF SetHostStatus, TypeOK, HostType
  <2>2. QED BY <1>7, <2>1 DEF SetHostStatus, TypeOK
<1>8. CASE UpdateInstance(h)
  <2>1. UpdatedInstance(inst[h], pass[h].new) \in InstanceType
    BY <1>0
  <2>2. inst' \in [Hosts -> InstanceType]
    BY <1>8, <2>1 DEF UpdateInstance, TypeOK
  <2>3. pass' \in [Hosts -> PassType] /\ queued' \in [Hosts -> BOOLEAN]
    BY <1>8 DEF UpdateInstance, AfterUpdate, TypeOK
  <2>4. QED BY <1>8, <2>2, <2>3 DEF UpdateInstance, TypeOK
<1>9. CASE CleanupProvisioningResources(h)
  BY <1>0, <1>9 DEF CleanupProvisioningResources, DeleteWorkflow, DeleteWorkflowFails,
    TypeOK, WorkflowStates
<1>10. CASE CleanupForDeletion(h)
  BY <1>0, <1>10 DEF CleanupForDeletion, DeleteWorkflow, DeleteWorkflowFails,
    TypeOK, WorkflowStates
<1>11. CASE SetInstanceDeleted(h)
  BY <1>0, <1>11, ConstantTypes DEF SetInstanceDeleted, TypeOK
<1>12. CASE SetInstanceUntrusted(h)
  <2>1. [inst[h] EXCEPT !.cur = "UNTRUSTED"] \in InstanceType
    BY <1>0 DEF InstanceType
  <2>2. inst' \in [Hosts -> InstanceType]
    BY <1>12, <2>1 DEF SetInstanceUntrusted, TypeOK
  <2>3. QED BY <1>12, <2>2 DEF SetInstanceUntrusted, TypeOK
<1>13. QED
  BY <1>1, <1>2, <1>3, <1>4, <1>5, <1>6, <1>7, <1>8, <1>9, <1>10, <1>11, <1>12 DEF PassStep

LEMMA GetTypes ==
  ASSUME TypeOK, NEW h \in Hosts, Get(h)
  PROVE  TypeOK'
<1> DEFINE step == Reconcile(inst[h], host[h])
<1>1. inst[h] \in InstanceType /\ host[h] \in HostType
  BY DEF TypeOK
<1>2. step \in {"Ack", "Retry", "deauth", "delete", "untrust", "cleanup", "check"}
  BY <1>1, ReconcileType
<1>3. FirstNew(h, step) \in InstanceType
  BY <1>1, PopulatedTypes DEF FirstNew
<1>4. host[h].status \in {"other", "Rebooting"}
  BY <1>1 DEF HostType
<1>5. step \notin {"Ack", "Retry"} =>
        [at |-> step, new |-> FirstNew(h, step), hstat |-> host[h].status, dir |-> "Ack"]
          \in PassType
  BY <1>2, <1>3, <1>4 DEF PassType, Steps
<1> HIDE DEF step
<1>6. pass' \in [Hosts -> PassType]
  BY <1>5 DEF Get, TypeOK, step
<1>7. queued' \in [Hosts -> BOOLEAN]
  BY DEF Get, TypeOK
<1>8. faults' \in [inv : Nat, ext : Nat, crash : Nat]
  BY FaultTypes DEF Get
<1>9. QED BY <1>6, <1>7, <1>8 DEF Get, TypeOK, envVars

LEMMA EnvironmentTypes ==
  ASSUME TypeOK, NEW h \in Hosts, Environment(h)
  PROVE  TypeOK'
<1>1. CASE CreateInstance(h)
  <2>1. inst' \in [Hosts -> InstanceType]
    BY <1>1, ConstantTypes, KindsAssumption DEF CreateInstance, TypeOK
  <2>2. QED BY <1>1, <2>1 DEF CreateInstance, envUnchanged, TypeOK
<1>2. ASSUME NEW d \in {"UNTRUSTED", "DELETED"}, SetDesiredState(h, d)
      PROVE  TypeOK'
  <2>1. inst' \in [Hosts -> InstanceType]
    BY <1>2 DEF SetDesiredState, TypeOK, InstanceType
  <2>2. QED BY <1>2, <2>1 DEF SetDesiredState, envUnchanged, TypeOK
<1>3. CASE OnboardHost(h) \/ DeauthorizeHost(h) \/ InvalidateHost(h)
  <2>1. host' \in [Hosts -> HostType]
    <3>1. host[h] \in HostType
      BY DEF TypeOK
    <3>2. /\ [host[h] EXCEPT !.cur = "ONBOARDED"] \in HostType
          /\ [host[h] EXCEPT !.des = "UNTRUSTED"] \in HostType
          /\ [host[h] EXCEPT !.cur = "UNTRUSTED", !.status = "other"] \in HostType
      BY <3>1 DEF HostType, HostStates
    <3>3. QED
      BY <1>3, <3>2 DEF OnboardHost, DeauthorizeHost, InvalidateHost, TypeOK
  <2>2. creds' \in SUBSET Hosts
    BY <1>3 DEF OnboardHost, DeauthorizeHost, InvalidateHost, TypeOK
  <2>3. QED
    BY <1>3, <2>1, <2>2
    DEF OnboardHost, DeauthorizeHost, InvalidateHost, envUnchanged, TypeOK
<1>4. CASE HrmReport(h)
  <2>1. inst' \in [Hosts -> InstanceType]
    <3>1. inst[h] \in InstanceType
      BY DEF TypeOK
    <3>2. \A s \in {"Idle", "Busy"}, a \in {"idle", "busy"} :
            [inst[h] EXCEPT !.cur = "RUNNING", !.status = s, !.aux = a] \in InstanceType
      BY <3>1 DEF InstanceType
    <3>3. PICK s \in {"Idle", "Busy"}, a \in {"idle", "busy"} :
            inst' = [inst EXCEPT ![h] =
                       [inst[h] EXCEPT !.cur = "RUNNING", !.status = s, !.aux = a]]
      BY <1>4 DEF HrmReport, TypeOK
    <3>4. QED BY <3>2, <3>3 DEF TypeOK
  <2>2. host' \in [Hosts -> HostType]
    BY <1>4 DEF HrmReport, TypeOK, HostType
  <2>3. QED BY <1>4, <2>1, <2>2 DEF HrmReport, envUnchanged, TypeOK
<1>5. CASE WorkflowStep(h)
  <2>1. wf' \in [Hosts -> WorkflowStates] /\ installed' \in [Hosts -> BOOLEAN]
    BY <1>5 DEF WorkflowStep, TypeOK, WorkflowStates
  <2>2. QED BY <1>5, <2>1 DEF WorkflowStep, envUnchanged, TypeOK
<1>6. QED BY <1>1, <1>2, <1>3, <1>4, <1>5 DEF Environment

LEMMA NextTypes == TypeOK /\ [Next]_vars => TypeOK'
<1> SUFFICES ASSUME TypeOK, [Next]_vars PROVE TypeOK'
  OBVIOUS
<1>1. CASE UNCHANGED vars
  BY <1>1 DEF vars, TypeOK
<1>2. CASE Crash
  BY <1>2, ConstantTypes DEF Crash, envVars, TypeOK, Exists
<1>3. ASSUME NEW h \in Hosts, Enqueue(h) PROVE TypeOK'
  BY <1>3 DEF Enqueue, envVars, TypeOK
<1>4. QED
  BY <1>1, <1>2, <1>3, GetTypes, PassStepTypes, EnvironmentTypes DEF Next

\* Every reachable state has the declared types (InstanceReconciler!TypeOK).
THEOREM TypeCorrect == Spec => []TypeOK
<1>1. Init => TypeOK
  BY ConstantTypes DEF Init, TypeOK, HostType, HostStates, WorkflowStates
<1>2. QED BY <1>1, NextTypes, PTL DEF Spec

-----------------------------------------------------------------------------
(* The inductive invariant.                                                *)

FailedStates == {"FAILED", "TIMEOUT"}

\* An Instance in a pass, or with a workflow, exists: it is removed only at
\* the end of a pass that has deleted the workflow.
Existence(h) ==
  /\ InPass(h) => Exists(h)
  /\ wf[h] # "none" => Exists(h)
  /\ pass[h].at = "setDeleted" => wf[h] = "none"

\* "Done" is known, in the Inventory or in a pass, only after the workflow of
\* this Instance succeeded.
DoneKnown(h) ==
  /\ wf[h] = "SUCCESS" => installed[h]
  /\ inst[h].prov = "Done" => installed[h]
  /\ InPass(h) /\ pass[h].new.prov = "Done" => installed[h]

\* "Failed" is known only with the failed workflow in place; once it is
\* reported no pass touches the Instance, unless it is being deleted.
FailedKnown(h) ==
  /\ inst[h].prov = "Failed" /\ inst[h].des # "DELETED" =>
       ~InPass(h) /\ wf[h] \in FailedStates
  /\ InPass(h) /\ pass[h].new.prov = "Failed" =>
       \/ inst[h].des = "DELETED"
       \/ pass[h].at = "instWrite" /\ pass[h].dir = "Fail" /\ wf[h] \in FailedStates
  /\ pass[h].at \in {"delete", "setDeleted"} => inst[h].des = "DELETED"

HostInv(h) == Existence(h) /\ DoneKnown(h) /\ FailedKnown(h)
IInv == TypeOK /\ \A h \in Hosts : HostInv(h)

-----------------------------------------------------------------------------
(* The invariant is inductive.                                             *)

\* A step leaves alone what the invariant says of host g.
Untouched(g) == /\ inst'[g] = inst[g] /\ wf'[g] = wf[g]
                /\ pass'[g] = pass[g] /\ installed'[g] = installed[g]

LEMMA UntouchedInv ==
  ASSUME NEW g \in Hosts, HostInv(g), Untouched(g)
  PROVE  HostInv(g)'
BY DEF Untouched, HostInv, Existence, DoneKnown, FailedKnown, InPass, Exists

\* What the ways a pass moves on do to the passes.
LEMMA PassEffect ==
  ASSUME TypeOK, NEW h \in Hosts
  PROVE  /\ \A s : Goto(h, s) =>
              /\ pass'[h].at = s
              /\ pass'[h].new = pass[h].new /\ pass'[h].dir = pass[h].dir
              /\ \A g \in Hosts \ {h} : pass'[g] = pass[g]
         /\ \A s, n, d : GotoWith(h, s, n, d) =>
              /\ pass'[h].at = s /\ pass'[h].new = n /\ pass'[h].dir = d
              /\ \A g \in Hosts \ {h} : pass'[g] = pass[g]
         /\ \A d : Return(h, d) =>
              /\ pass'[h].at = "idle"
              /\ \A g \in Hosts \ {h} : pass'[g] = pass[g]
<1>1. pass[h] \in PassType /\ pass \in [Hosts -> PassType]
  BY DEF TypeOK
<1>2. ASSUME NEW s, Goto(h, s)
      PROVE  /\ pass'[h].at = s
             /\ pass'[h].new = pass[h].new /\ pass'[h].dir = pass[h].dir
             /\ \A g \in Hosts \ {h} : pass'[g] = pass[g]
  BY <1>1, <1>2 DEF Goto, PassType
<1>3. ASSUME NEW s, NEW n, NEW d, GotoWith(h, s, n, d)
      PROVE  /\ pass'[h].at = s /\ pass'[h].new = n /\ pass'[h].dir = d
             /\ \A g \in Hosts \ {h} : pass'[g] = pass[g]
  BY <1>1, <1>3 DEF GotoWith, PassType
<1>4. ASSUME NEW d, Return(h, d)
      PROVE  /\ pass'[h].at = "idle"
             /\ \A g \in Hosts \ {h} : pass'[g] = pass[g]
  BY <1>1, <1>4 DEF Return, NoPass
<1>5. QED BY <1>2, <1>3, <1>4

\* What the reconciler knows of a workflow it has seen.
LEMMA WorkflowKnown ==
  ASSUME NEW i \in InstanceType, NEW state \in WorkflowStates, state # "none"
  PROVE  LET r == HandleWorkflowStatus(i, state)
         IN  /\ r.new.prov = "Done" => state = "SUCCESS"
             /\ r.new.prov = "Failed" => state \in FailedStates /\ r.dir = "Fail"
<1>1. CASE state = "SUCCESS"
  BY <1>1 DEF HandleWorkflowStatus, InstanceType
<1>2. CASE state \in FailedStates
  <2>1. [Provisioning(i) EXCEPT !.prov = "Failed"].prov = "Failed"
    BY PopulatedTypes DEF InstanceType
  <2>2. QED BY <1>2, <2>1 DEF HandleWorkflowStatus, HandleProvisioningError, FailedStates
<1>3. CASE state \notin {"SUCCESS"} \cup FailedStates
  <2>1. Provisioning(i).prov = "InProgress"
    BY DEF Provisioning, InstanceType
  <2>2. QED BY <1>3, <2>1 DEF HandleWorkflowStatus, FailedStates
<1>4. QED BY <1>1, <1>2, <1>3

\* The fields the populating helpers set and keep.
LEMMA PopulatedFields ==
  ASSUME NEW i \in InstanceType, NEW new \in InstanceType
  PROVE  /\ UpdatedInstance(i, new).prov = new.prov
         /\ UpdatedInstance(i, new).des = i.des
         /\ UpdatedStatuses(i, new).prov = new.prov
         /\ UpdatedStatuses(i, new).des = i.des
         /\ Idled(i).prov \in {i.prov, "Unknown"}
BY DEF UpdatedInstance, UpdatedStatuses, Idled, InstanceType

\* A step of a pass keeps the invariant for the other hosts ...
LEMMA PassStepOthers ==
  ASSUME TypeOK, NEW h \in Hosts, PassStep(h), NEW g \in Hosts \ {h}
  PROVE  Untouched(g)
<1>1. pass'[g] = pass[g]
  BY PassEffect DEF PassStep, DeauthCheck, DeauthDelete, DeauthStatus,
    CheckStatusOrRunProdWorkflow, CreateENCredentialsIfNotExists, RunProdWorkflow,
    SetHostStatus, UpdateInstance, AfterUpdate, CleanupProvisioningResources,
    CleanupForDeletion, SetInstanceDeleted, SetInstanceUntrusted
<1>2. wf'[g] = wf[g]
  BY DEF PassStep, DeauthCheck, DeauthDelete, DeauthStatus, DeleteWorkflow,
    DeleteWorkflowFails, CheckStatusOrRunProdWorkflow, CreateENCredentialsIfNotExists,
    RunProdWorkflow, SetHostStatus, UpdateInstance, CleanupProvisioningResources,
    CleanupForDeletion, SetInstanceDeleted, SetInstanceUntrusted, envVars, TypeOK
<1>3. inst'[g] = inst[g]
  BY DEF PassStep, DeauthCheck, DeauthDelete, DeauthStatus,
    CheckStatusOrRunProdWorkflow, CreateENCredentialsIfNotExists, RunProdWorkflow,
    SetHostStatus, UpdateInstance, CleanupProvisioningResources,
    CleanupForDeletion, SetInstanceDeleted, SetInstanceUntrusted, envVars, TypeOK
<1>4. installed'[g] = installed[g]
  BY DEF PassStep, DeauthCheck, DeauthDelete, DeauthStatus,
    CheckStatusOrRunProdWorkflow, CreateENCredentialsIfNotExists, RunProdWorkflow,
    SetHostStatus, UpdateInstance, CleanupProvisioningResources,
    CleanupForDeletion, SetInstanceDeleted, SetInstanceUntrusted, envVars, TypeOK
<1>5. QED BY <1>1, <1>2, <1>3, <1>4 DEF Untouched

\* ... and for its own.
LEMMA PassStepInv ==
  ASSUME TypeOK, NEW h \in Hosts, HostInv(h), PassStep(h)
  PROVE  HostInv(h)'
<1> USE PassEffect DEF HostInv, Existence, DoneKnown, FailedKnown, InPass, Exists
<1>0. /\ pass[h] \in PassType /\ pass[h].new \in InstanceType
      /\ inst[h] \in InstanceType /\ wf[h] \in WorkflowStates
      /\ inst \in [Hosts -> InstanceType] /\ wf \in [Hosts -> WorkflowStates]
  BY DEF TypeOK, PassType
<1>1. CASE DeauthCheck(h)
  BY <1>1 DEF DeauthCheck, envVars
<1>2. CASE DeauthDelete(h)
  BY <1>0, <1>2 DEF DeauthDelete, DeleteWorkflow, DeleteWorkflowFails
<1>3. CASE DeauthStatus(h)
  <2>1. inst'[h] = inst[h] \/ inst'[h] = UpdatedStatuses(inst[h], pass[h].new)
    BY <1>0, <1>3 DEF DeauthStatus
  <2>2. /\ inst'[h].des = inst[h].des
        /\ inst'[h].prov \in {inst[h].prov, pass[h].new.prov}
    BY <1>0, <2>1, PopulatedFields
  <2>3. /\ pass[h].at = "deauthStatus" /\ pass'[h].at = "idle"
        /\ wf' = wf /\ installed' = installed
    BY <1>3 DEF DeauthStatus
  <2>4. QED BY <2>2, <2>3
<1>4. CASE CheckStatusOrRunProdWorkflow(h)
  <2>1. pass[h].at = "check" /\ UNCHANGED <<inst, wf, installed>>
    BY <1>4 DEF CheckStatusOrRunProdWorkflow, envVars
  <2>2. CASE GotoWith(h, "instWrite", pass[h].new, "Retry")
    BY <2>1, <2>2
  <2>3. CASE Goto(h, "creds")
    BY <2>1, <2>3
  <2>4. CASE /\ wf[h] # "none"
             /\ LET r == HandleWorkflowStatus(pass[h].new, wf[h])
                IN  GotoWith(h, IF WritesHostStatus(pass[h], wf[h])
                                THEN "hostWrite" ELSE "instWrite", r.new, r.dir)
    <3> DEFINE r == HandleWorkflowStatus(pass[h].new, wf[h])
    <3>1. /\ pass'[h].at \in {"hostWrite", "instWrite"}
          /\ WritesHostStatus(pass[h], wf[h]) \/ pass'[h].at = "instWrite"
          /\ pass'[h].new = r.new /\ pass'[h].dir = r.dir
      BY <2>4
    <3>2. /\ r.new.prov = "Done" => wf[h] = "SUCCESS"
          /\ r.new.prov = "Failed" => wf[h] \in FailedStates /\ r.dir = "Fail"
      BY <1>0, <2>4, WorkflowKnown
    <3>3. wf[h] \in FailedStates => pass'[h].at = "instWrite"
      BY <3>1 DEF WritesHostStatus, FailedStates
    <3> HIDE DEF r
    <3>4. QED BY <2>1, <3>1, <3>2, <3>3
  <2>5. QED BY <1>4, <2>2, <2>3, <2>4 DEF CheckStatusOrRunProdWorkflow
<1>5. CASE CreateENCredentialsIfNotExists(h)
  BY <1>5 DEF CreateENCredentialsIfNotExists
<1>6. CASE RunProdWorkflow(h)
  <2>1. /\ pass[h].at = "create" /\ UNCHANGED <<inst, installed>>
        /\ wf'[h] = wf[h] \/ wf'[h] = "PENDING"
    BY <1>0, <1>6 DEF RunProdWorkflow
  <2>2. pass'[h].at = "instWrite" /\ pass'[h].new = pass[h].new
    BY <1>6 DEF RunProdWorkflow
  <2>3. QED BY <2>1, <2>2
<1>7. CASE SetHostStatus(h)
  BY <1>7 DEF SetHostStatus
<1>8. CASE UpdateInstance(h)
  <2>1. inst'[h] = inst[h] \/ inst'[h] = UpdatedInstance(inst[h], pass[h].new)
    BY <1>0, <1>8 DEF UpdateInstance
  <2>2. /\ inst'[h].des = inst[h].des
        /\ inst'[h].prov \in {inst[h].prov, pass[h].new.prov}
    BY <1>0, <2>1, PopulatedFields
  <2>3. /\ pass[h].at = "instWrite"
        /\ wf' = wf /\ installed' = installed
        /\ \/ pass[h].dir = "Ack" /\ pass'[h].at = "cleanup" /\ pass'[h].new = pass[h].new
           \/ pass'[h].at = "idle"
    BY <1>8 DEF UpdateInstance, AfterUpdate
  <2>4. QED BY <2>2, <2>3
<1>9. CASE CleanupProvisioningResources(h)
  BY <1>0, <1>9 DEF CleanupProvisioningResources, DeleteWorkflow, DeleteWorkflowFails
<1>10. CASE CleanupForDeletion(h)
  BY <1>0, <1>10 DEF CleanupForDeletion, DeleteWorkflow, DeleteWorkflowFails
<1>11. CASE SetInstanceDeleted(h)
  <2>1. inst'[h] = inst[h] \/ inst'[h] = Absent
    BY <1>0, <1>11 DEF SetInstanceDeleted
  <2>2. /\ pass[h].at = "setDeleted" /\ pass'[h].at = "idle"
        /\ wf' = wf /\ installed' = installed
    BY <1>11 DEF SetInstanceDeleted
  <2>3. QED BY <2>1, <2>2 DEF Absent
<1>12. CASE SetInstanceUntrusted(h)
  <2>1. inst'[h].des = inst[h].des /\ inst'[h].prov = inst[h].prov
    BY <1>0, <1>12 DEF SetInstanceUntrusted, InstanceType
  <2>2. /\ pass[h].at = "untrust" /\ pass'[h].at = "idle"
        /\ wf' = wf /\ installed' = installed
    BY <1>12 DEF SetInstanceUntrusted
  <2>3. QED BY <2>1, <2>2
<1>13. QED
  BY <1>1, <1>2, <1>3, <1>4, <1>5, <1>6, <1>7, <1>8, <1>9, <1>10, <1>11, <1>12 DEF PassStep

\* A pass starts with what the Inventory knows, and never on a failed
\* Instance that is not being deleted.
LEMMA GetInv ==
  ASSUME TypeOK, NEW h \in Hosts, Get(h), NEW g \in Hosts, HostInv(g)
  PROVE  HostInv(g)'
<1>1. UNCHANGED <<inst, wf, installed>>
  BY DEF Get, envVars
<1>2. CASE g # h
  <2>1. pass'[g] = pass[g]
    BY <1>2 DEF Get, TypeOK
  <2>2. QED BY <1>1, <2>1, UntouchedInv DEF Untouched
<1>3. CASE UNCHANGED pass
  BY <1>1, <1>3, UntouchedInv DEF Untouched
<1>4. CASE g = h /\ ~ UNCHANGED pass
  <2> DEFINE step == Reconcile(inst[h], host[h])
  <2>1. inst[h] \in InstanceType /\ host[h] \in HostType
    BY DEF TypeOK
  <2>2. step \in {"deauth", "delete", "untrust", "cleanup", "check"}
    BY <1>4, <2>1, ReconcileType DEF Get
  <2>3. /\ step = "delete" => inst[h].des = "DELETED"
        /\ inst[h].prov = "Failed" => inst[h].des = "DELETED"
    BY <2>1, <2>2 DEF Reconcile, Deauthorized, ReconcileInstance, InstanceType
  <2>4. FirstNew(h, step).prov \in {inst[h].prov, "Unknown"}
    BY <2>1, PopulatedFields DEF FirstNew
  <2>5. Exists(h) /\ ~InPass(h)
    BY <1>4 DEF Get
  <2>6. pass'[h] = [at |-> step, new |-> FirstNew(h, step),
                    hstat |-> host[h].status, dir |-> "Ack"]
    BY <1>4, <2>2 DEF Get, TypeOK
  <2> HIDE DEF step
  <2>7. pass'[h].at = step /\ pass'[h].new.prov \in {inst[h].prov, "Unknown"}
    BY <2>4, <2>6
  <2>8. QED
    BY <1>1, <1>4, <2>2, <2>3, <2>5, <2>7
    DEF HostInv, Existence, DoneKnown, FailedKnown, InPass, Exists
<1>5. QED BY <1>2, <1>3, <1>4

\* What users, agents and the tink server do.
LEMMA EnvironmentInv ==
  ASSUME TypeOK, NEW h \in Hosts, Environment(h), NEW g \in Hosts, HostInv(g)
  PROVE  HostInv(g)'
<1>0. /\ inst \in [Hosts -> InstanceType] /\ inst[g] \in InstanceType
      /\ wf \in [Hosts -> WorkflowStates] /\ installed \in [Hosts -> BOOLEAN]
  BY DEF TypeOK
<1>1. pass' = pass
  BY DEF Environment, CreateInstance, SetDesiredState, OnboardHost, DeauthorizeHost,
    InvalidateHost, HrmReport, WorkflowStep, envUnchanged
<1>2. CASE g # h
  <2>1. inst'[g] = inst[g]
    BY <1>0, <1>2 DEF Environment, CreateInstance, SetDesiredState, OnboardHost,
      DeauthorizeHost, InvalidateHost, HrmReport, WorkflowStep
  <2>2. wf'[g] = wf[g] /\ installed'[g] = installed[g]
    BY <1>0, <1>2 DEF Environment, CreateInstance, SetDesiredState, OnboardHost,
      DeauthorizeHost, InvalidateHost, HrmReport, WorkflowStep
  <2>3. QED BY <1>1, <2>1, <2>2, UntouchedInv DEF Untouched
<1>3. CASE g = h /\ CreateInstance(h)
  <2>1. PICK k \in Kinds : inst'[h] = NewInstance(k)
    BY <1>0, <1>3 DEF CreateInstance
  <2>2. inst'[h].prov = "Unknown" /\ inst'[h].des = "RUNNING"
    BY <2>1 DEF NewInstance, Absent
  <2>3. ~Exists(h) /\ wf' = wf
    BY <1>3 DEF CreateInstance
  <2>4. QED
    BY <1>1, <1>3, <2>2, <2>3 DEF HostInv, Existence, DoneKnown, FailedKnown, InPass, Exists
<1>4. ASSUME g = h, NEW d \in {"UNTRUSTED", "DELETED"}, SetDesiredState(h, d)
      PROVE  HostInv(g)'
  <2>1. /\ inst'[h].prov = inst[h].prov /\ inst'[h].des = d
        /\ inst[h].des \in {"RUNNING", "UNTRUSTED"}
        /\ wf' = wf /\ installed' = installed
    BY <1>0, <1>4 DEF SetDesiredState, InstanceType
  <2>2. QED
    BY <1>1, <1>4, <2>1 DEF HostInv, Existence, DoneKnown, FailedKnown, InPass, Exists
<1>5. CASE g = h /\ (OnboardHost(h) \/ DeauthorizeHost(h) \/ InvalidateHost(h))
  BY <1>1, <1>5, UntouchedInv DEF Untouched, OnboardHost, DeauthorizeHost, InvalidateHost
<1>6. CASE g = h /\ HrmReport(h)
  <2>1. /\ inst'[h].prov = inst[h].prov /\ inst'[h].des = inst[h].des
        /\ wf' = wf /\ installed' = installed
    <3>1. PICK s \in {"Idle", "Busy"}, a \in {"idle", "busy"} :
            inst' = [inst EXCEPT ![h] =
                       [inst[h] EXCEPT !.cur = "RUNNING", !.status = s, !.aux = a]]
      BY <1>0, <1>6 DEF HrmReport
    <3>2. inst'[h] = [inst[h] EXCEPT !.cur = "RUNNING", !.status = s, !.aux = a]
      BY <1>0, <3>1
    <3>3. QED BY <1>0, <1>6, <3>2 DEF HrmReport, InstanceType
  <2>2. QED
    BY <1>1, <1>6, <2>1 DEF HostInv, Existence, DoneKnown, FailedKnown, InPass, Exists
<1>7. CASE g = h /\ WorkflowStep(h)
  <2>1. /\ inst' = inst
        /\ wf[h] \in {"PENDING", "OTHER", "RUNNING"}
        /\ wf'[h] = "SUCCESS" => installed'[h]
        /\ installed[h] => installed'[h]
    BY <1>0, <1>7 DEF WorkflowStep
  <2>2. QED
    BY <1>1, <1>7, <2>1
    DEF HostInv, Existence, DoneKnown, FailedKnown, FailedStates, InPass, Exists
<1>8. QED
  BY <1>2, <1>3, <1>4, <1>5, <1>6, <1>7 DEF Environment

LEMMA InitInv == Init => IInv
<1>1. Init => TypeOK
  BY ConstantTypes DEF Init, TypeOK, HostType, HostStates, WorkflowStates
<1>2. Init => \A h \in Hosts : HostInv(h)
  BY DEF Init, Absent, NoPass, HostInv, Existence, DoneKnown, FailedKnown, InPass, Exists
<1>3. QED BY <1>1, <1>2 DEF IInv

LEMMA NextInv == IInv /\ [Next]_vars => IInv'
<1> SUFFICES ASSUME IInv, [Next]_vars PROVE IInv'
  OBVIOUS
<1>0. TypeOK /\ \A g \in Hosts : HostInv(g)
  BY DEF IInv
<1>1. TypeOK'
  BY <1>0, NextTypes
<1>2. ASSUME NEW g \in Hosts PROVE HostInv(g)'
  <2>1. CASE UNCHANGED vars
    BY <1>0, <2>1, UntouchedInv DEF Untouched, vars
  <2>2. CASE Crash
    <3>1. /\ pass'[g].at = "idle"
          /\ UNCHANGED <<inst, wf, installed>>
      BY <2>2 DEF Crash, NoPass, envVars
    <3>2. QED
      BY <1>0, <3>1 DEF HostInv, Existence, DoneKnown, FailedKnown, InPass, Exists
  <2>3. ASSUME NEW h \in Hosts, Enqueue(h) PROVE HostInv(g)'
    BY <1>0, <2>3, UntouchedInv DEF Untouched, Enqueue, envVars
  <2>4. ASSUME NEW h \in Hosts, PassStep(h) PROVE HostInv(g)'
    BY <1>0, <2>4, PassStepInv, PassStepOthers, UntouchedInv
  <2>5. QED
    BY <1>0, <2>1, <2>2, <2>3, <2>4, GetInv, EnvironmentInv DEF Next
<1>3. QED BY <1>1, <1>2 DEF IInv

\* The invariant holds in every reachable state.
THEOREM Inductive == Spec => []IInv
BY InitInv, NextInv, PTL DEF Spec

-----------------------------------------------------------------------------
(* The safety properties.                                                  *)

\* An Instance is reported as Provisioned only after its own workflow
\* succeeded on the device, whatever fails, crashes or is changed meanwhile
\* (instance.go, tryProvisionInstance).
THEOREM ProvisionedOnlyIfInstalled == Spec => []ProvisionedMeansInstalled
<1>1. IInv => ProvisionedMeansInstalled
  BY DEF IInv, HostInv, DoneKnown, ProvisionedMeansInstalled
<1>2. QED BY <1>1, Inductive, PTL

\* No workflow outlives its Instance (instance.go, reconcileInstance).
THEOREM WorkflowHasInstance == Spec => []NoOrphanWorkflow
<1>1. IInv => NoOrphanWorkflow
  BY DEF IInv, HostInv, Existence, NoOrphanWorkflow
<1>2. QED BY <1>1, Inductive, PTL

\* A failure that is reported is final: nothing is tried again and the failed
\* workflow stays until the user deletes the Instance (instance.go,
\* handleErrorState).
THEOREM FailureFinal == Spec => FailureIsFinal
<1> DEFINE Final == \A h \in Hosts :
       inst[h].prov = "Failed" /\ inst[h].des # "DELETED" =>
         /\ inst'[h].prov = "Failed"
         /\ wf'[h] = wf[h] /\ wf[h] \in {"FAILED", "TIMEOUT"}
<1>1. ASSUME IInv, [Next]_vars PROVE Final
  <2> SUFFICES ASSUME NEW h \in Hosts, inst[h].prov = "Failed", inst[h].des # "DELETED"
               PROVE  /\ inst'[h].prov = "Failed"
                      /\ wf'[h] = wf[h] /\ wf[h] \in {"FAILED", "TIMEOUT"}
    OBVIOUS
  <2>1. /\ TypeOK /\ wf[h] \in FailedStates /\ ~InPass(h) /\ Exists(h)
        /\ inst \in [Hosts -> InstanceType] /\ wf \in [Hosts -> WorkflowStates]
    BY <1>1 DEF IInv, TypeOK, HostInv, Existence, FailedKnown, FailedStates
  <2>2. CASE UNCHANGED vars
    BY <2>1, <2>2 DEF vars, FailedStates
  <2>3. CASE Crash
    BY <2>1, <2>3 DEF Crash, envVars, FailedStates
  <2>4. ASSUME NEW g \in Hosts, Get(g) \/ Enqueue(g)
        PROVE  UNCHANGED <<inst, wf>>
    BY <2>4 DEF Get, Enqueue, envVars
  <2>5. ASSUME NEW g \in Hosts, PassStep(g)
        PROVE  inst'[h] = inst[h] /\ wf'[h] = wf[h]
    <3>1. InPass(g)
      BY <2>5 DEF PassStep, DeauthCheck, DeauthDelete, DeauthStatus,
        CheckStatusOrRunProdWorkflow, CreateENCredentialsIfNotExists, RunProdWorkflow,
        SetHostStatus, UpdateInstance, CleanupProvisioningResources,
        CleanupForDeletion, SetInstanceDeleted, SetInstanceUntrusted, InPass
    <3>2. QED BY <2>1, <2>5, <3>1, PassStepOthers DEF Untouched
  <2>6. ASSUME NEW g \in Hosts, Environment(g)
        PROVE  inst'[h].prov = "Failed" /\ wf'[h] = wf[h]
    <3>1. wf'[h] = wf[h]
      BY <2>1, <2>6 DEF Environment, CreateInstance, SetDesiredState, OnboardHost,
        DeauthorizeHost, InvalidateHost, HrmReport, WorkflowStep, FailedStates
    <3>2. inst'[h].prov = inst[h].prov
      <4>1. CASE CreateInstance(g)
        BY <2>1, <4>1 DEF CreateInstance
      <4>2. ASSUME NEW d \in {"UNTRUSTED", "DELETED"}, SetDesiredState(g, d)
            PROVE  inst'[h].prov = inst[h].prov
        BY <2>1, <4>2 DEF SetDesiredState, InstanceType
      <4>3. CASE HrmReport(g)
        <5>1. PICK st \in {"Idle", "Busy"}, a \in {"idle", "busy"} :
                inst' = [inst EXCEPT ![g] =
                           [inst[g] EXCEPT !.cur = "RUNNING", !.status = st, !.aux = a]]
          BY <2>1, <4>3 DEF HrmReport
        <5>2. QED BY <2>1, <5>1 DEF InstanceType
      <4>4. QED
        BY <2>6, <4>1, <4>2, <4>3
        DEF Environment, OnboardHost, DeauthorizeHost, InvalidateHost, WorkflowStep
    <3>3. QED BY <3>1, <3>2
  <2>7. QED
    BY <1>1, <2>1, <2>2, <2>3, <2>4, <2>5, <2>6 DEF Next, FailedStates
<1>2. QED BY <1>1, Inductive, PTL DEF Spec, FailureIsFinal

-----------------------------------------------------------------------------
(* A provisioned Instance stays RUNNING.                                   *)

ProvisionSteps == {"check", "creds", "create"}
WriteSteps == {"hostWrite", "instWrite"}
DeauthSteps == {"deauth", "deauthDelete", "deauthStatus"}

\* While the user wants the Instance to run, a provisioned one is RUNNING; the
\* passes that would write another state started before it was provisioned,
\* and no such pass is left when it is.
Running(h) ==
  /\ inst[h].prov = "Done" => Exists(h)
  /\ pass[h].at = "untrust" => inst[h].des # "RUNNING"
  /\ inst[h].des = "RUNNING" =>
       /\ inst[h].prov = "Done" => inst[h].cur = "RUNNING"
       /\ pass[h].at \in ProvisionSteps \cup WriteSteps => inst[h].prov # "Done"
       /\ pass[h].at \in ProvisionSteps => pass[h].new.prov # "Done"
       /\ pass[h].at \in WriteSteps /\ pass[h].new.prov = "Done" =>
            pass[h].new.cur = "RUNNING"
       /\ pass[h].at \in DeauthSteps /\ pass[h].new.prov = "Done" =>
            inst[h].prov = "Done"
RunningInv == \A h \in Hosts : Running(h)

LEMMA RunningUntouched ==
  ASSUME NEW g \in Hosts, Running(g), Untouched(g)
  PROVE  Running(g)'
BY DEF Untouched, Running, Exists

\* More of the fields the populating helpers set and keep.
LEMMA PopulatedStates ==
  ASSUME NEW i \in InstanceType, NEW new \in InstanceType
  PROVE  /\ UpdatedInstance(i, new).cur = new.cur
         /\ UpdatedStatuses(i, new).cur = i.cur
         /\ \A state : HandleWorkflowStatus(i, state).new.prov = "Done" /\ state # "SUCCESS"
              => i.prov = "Done"
         /\ HandleWorkflowStatus(i, "SUCCESS").new.cur = "RUNNING"
<1>1. UpdatedInstance(i, new).cur = new.cur /\ UpdatedStatuses(i, new).cur = i.cur
  BY DEF UpdatedInstance, UpdatedStatuses, InstanceType
<1>2. ASSUME NEW state, HandleWorkflowStatus(i, state).new.prov = "Done", state # "SUCCESS"
      PROVE  i.prov = "Done"
  <2>1. Provisioning(i).prov = "InProgress" /\ Provisioning(i) \in InstanceType
    BY PopulatedTypes DEF Provisioning, InstanceType
  <2>2. [Provisioning(i) EXCEPT !.prov = "Failed"].prov = "Failed"
    BY <2>1 DEF InstanceType
  <2>3. CASE state \in FailedStates
    BY <1>2, <2>2, <2>3 DEF HandleWorkflowStatus, FailedStates
  <2>4. CASE state \notin FailedStates
    BY <1>2, <2>1, <2>4 DEF HandleWorkflowStatus, FailedStates
  <2>5. QED BY <2>3, <2>4
<1>3. HandleWorkflowStatus(i, "SUCCESS").new.cur = "RUNNING"
  BY DEF HandleWorkflowStatus, InstanceType
<1>4. QED BY <1>1, <1>2, <1>3

LEMMA RunningPassStep ==
  ASSUME TypeOK, NEW h \in Hosts, HostInv(h), Running(h), PassStep(h)
  PROVE  Running(h)'
<1> USE PassEffect DEF Running, ProvisionSteps, WriteSteps, DeauthSteps, Exists
<1>0. /\ pass[h] \in PassType /\ pass[h].new \in InstanceType
      /\ inst[h] \in InstanceType /\ inst \in [Hosts -> InstanceType]
      /\ InPass(h) => Exists(h)
  BY DEF TypeOK, PassType, HostInv, Existence
<1>1. CASE DeauthCheck(h)
  BY <1>1 DEF DeauthCheck, envVars
<1>2. CASE DeauthDelete(h)
  BY <1>2 DEF DeauthDelete
<1>3. CASE DeauthStatus(h)
  <2>1. inst'[h] = inst[h] \/ inst'[h] = UpdatedStatuses(inst[h], pass[h].new)
    BY <1>0, <1>3 DEF DeauthStatus
  <2>2. /\ inst'[h].des = inst[h].des /\ inst'[h].cur = inst[h].cur
        /\ inst'[h].prov \in {inst[h].prov, pass[h].new.prov}
    BY <1>0, <2>1, PopulatedFields, PopulatedStates
  <2>3. pass[h].at = "deauthStatus" /\ pass'[h].at = "idle"
    BY <1>3 DEF DeauthStatus
  <2>4. QED BY <1>0, <2>2, <2>3 DEF InPass
<1>4. CASE CheckStatusOrRunProdWorkflow(h)
  <2>1. pass[h].at = "check" /\ UNCHANGED inst
    BY <1>4 DEF CheckStatusOrRunProdWorkflow, envVars
  <2>2. CASE GotoWith(h, "instWrite", pass[h].new, "Retry")
    BY <2>1, <2>2
  <2>3. CASE Goto(h, "creds")
    BY <2>1, <2>3
  <2>4. CASE LET r == HandleWorkflowStatus(pass[h].new, wf[h])
             IN  GotoWith(h, IF WritesHostStatus(pass[h], wf[h])
                             THEN "hostWrite" ELSE "instWrite", r.new, r.dir)
    <3> DEFINE r == HandleWorkflowStatus(pass[h].new, wf[h])
    <3>1. pass'[h].at \in {"hostWrite", "instWrite"} /\ pass'[h].new = r.new
      BY <2>4
    <3>2. r.new.prov = "Done" => r.new.cur = "RUNNING" \/ pass[h].new.prov = "Done"
      BY <1>0, PopulatedStates
    <3> HIDE DEF r
    <3>3. QED BY <2>1, <3>1, <3>2
  <2>5. QED BY <1>4, <2>2, <2>3, <2>4 DEF CheckStatusOrRunProdWorkflow
<1>5. CASE CreateENCredentialsIfNotExists(h)
  BY <1>5 DEF CreateENCredentialsIfNotExists
<1>6. CASE RunProdWorkflow(h)
  BY <1>6 DEF RunProdWorkflow
<1>7. CASE SetHostStatus(h)
  BY <1>7 DEF SetHostStatus
<1>8. CASE UpdateInstance(h)
  <2>1. inst'[h] = inst[h] \/ inst'[h] = UpdatedInstance(inst[h], pass[h].new)
    BY <1>0, <1>8 DEF UpdateInstance
  <2>2. /\ inst'[h].des = inst[h].des
        /\ \/ inst'[h].prov = inst[h].prov /\ inst'[h].cur = inst[h].cur
           \/ inst'[h].prov = pass[h].new.prov /\ inst'[h].cur = pass[h].new.cur
    BY <1>0, <2>1, PopulatedFields, PopulatedStates
  <2>3. pass[h].at = "instWrite" /\ pass'[h].at \in {"cleanup", "idle"}
    BY <1>8 DEF UpdateInstance, AfterUpdate
  <2>4. QED BY <1>0, <2>2, <2>3 DEF InPass
<1>9. CASE CleanupProvisioningResources(h)
  BY <1>9 DEF CleanupProvisioningResources
<1>10. CASE CleanupForDeletion(h)
  <2>1. inst' = inst /\ pass'[h].at \in {"setDeleted", "idle"}
    BY <1>10 DEF CleanupForDeletion
  <2>2. QED BY <2>1
<1>11. CASE SetInstanceDeleted(h)
  <2>1. inst'[h] = inst[h] \/ inst'[h] = Absent
    BY <1>0, <1>11 DEF SetInstanceDeleted
  <2>2. pass[h].at = "setDeleted" /\ pass'[h].at = "idle"
    BY <1>11 DEF SetInstanceDeleted
  <2>3. QED BY <2>1, <2>2 DEF Absent
<1>12. CASE SetInstanceUntrusted(h)
  <2>1. inst'[h].des = inst[h].des /\ inst'[h].prov = inst[h].prov
    BY <1>0, <1>12 DEF SetInstanceUntrusted, InstanceType
  <2>2. pass[h].at = "untrust" /\ pass'[h].at = "idle"
    BY <1>12 DEF SetInstanceUntrusted
  <2>3. QED BY <2>1, <2>2
<1>13. QED
  BY <1>1, <1>2, <1>3, <1>4, <1>5, <1>6, <1>7, <1>8, <1>9, <1>10, <1>11, <1>12 DEF PassStep

LEMMA RunningGet ==
  ASSUME TypeOK, NEW h \in Hosts, Get(h), NEW g \in Hosts, Running(g)
  PROVE  Running(g)'
<1>1. UNCHANGED <<inst, wf, installed>>
  BY DEF Get, envVars
<1>2. CASE pass'[g] = pass[g]
  BY <1>1, <1>2, RunningUntouched DEF Untouched
<1>3. CASE pass'[g] # pass[g]
  <2> DEFINE step == Reconcile(inst[h], host[h])
  <2>1. inst[h] \in InstanceType /\ host[h] \in HostType
    BY DEF TypeOK
  <2>2. /\ g = h /\ step \notin {"Ack", "Retry"}
        /\ pass'[h] = [at |-> step, new |-> FirstNew(h, step),
                       hstat |-> host[h].status, dir |-> "Ack"]
    BY <1>3 DEF Get, TypeOK
  <2>3. step \in {"deauth", "delete", "untrust", "cleanup", "check"}
    BY <2>1, <2>2, ReconcileType
  <2>4. /\ step = "untrust" => inst[h].des # "RUNNING"
        /\ step = "check" /\ inst[h].des = "RUNNING" /\ inst[h].cur = "RUNNING" =>
             inst[h].prov # "Done"
    BY <2>1 DEF Reconcile, NothingToDo, ProvisioningUnfinished, ReconcileInstance, InstanceType
  <2>5. /\ step # "deauth" => FirstNew(h, step) = inst[h]
        /\ FirstNew(h, step).prov \in {inst[h].prov, "Unknown"}
    BY <2>1, PopulatedFields DEF FirstNew
  <2> HIDE DEF step
  <2>6. pass'[h].at = step /\ pass'[h].new = FirstNew(h, step)
    BY <2>2
  <2>7. QED
    BY <1>1, <2>2, <2>3, <2>4, <2>5, <2>6
    DEF Running, ProvisionSteps, WriteSteps, DeauthSteps, Exists
<1>4. QED BY <1>2, <1>3

LEMMA RunningEnvironment ==
  ASSUME TypeOK, NEW h \in Hosts, Environment(h), NEW g \in Hosts, HostInv(g), Running(g)
  PROVE  Running(g)'
<1>0. inst \in [Hosts -> InstanceType] /\ inst[g] \in InstanceType
  BY DEF TypeOK
<1>1. pass' = pass
  BY DEF Environment, CreateInstance, SetDesiredState, OnboardHost, DeauthorizeHost,
    InvalidateHost, HrmReport, WorkflowStep, envUnchanged
<1>2. CASE inst'[g] = inst[g]
  BY <1>1, <1>2 DEF Running, Exists
<1>3. CASE CreateInstance(h) /\ g = h
  <2>1. PICK k \in Kinds : inst'[h] = NewInstance(k)
    BY <1>0, <1>3 DEF CreateInstance
  <2>2. inst'[h].prov = "Unknown"
    BY <2>1 DEF NewInstance, Absent
  <2>3. pass[h].at = "idle"
    BY <1>3 DEF CreateInstance, HostInv, Existence, InPass
  <2>4. QED
    BY <1>1, <1>3, <2>2, <2>3 DEF Running, ProvisionSteps, WriteSteps, DeauthSteps, Exists
<1>4. ASSUME g = h, NEW d \in {"UNTRUSTED", "DELETED"}, SetDesiredState(h, d)
      PROVE  Running(g)'
  BY <1>0, <1>1, <1>4 DEF SetDesiredState, InstanceType, Running, Exists
<1>5. CASE HrmReport(h) /\ g = h
  <2>1. PICK s \in {"Idle", "Busy"}, a \in {"idle", "busy"} :
          inst' = [inst EXCEPT ![h] =
                     [inst[h] EXCEPT !.cur = "RUNNING", !.status = s, !.aux = a]]
    BY <1>0, <1>5 DEF HrmReport
  <2>2. inst'[h] = [inst[h] EXCEPT !.cur = "RUNNING", !.status = s, !.aux = a]
    BY <1>0, <2>1
  <2>3. /\ inst'[h].des = inst[h].des /\ inst'[h].prov = inst[h].prov
        /\ inst'[h].cur = "RUNNING"
    BY <1>0, <1>5, <2>2 DEF InstanceType
  <2>4. QED BY <1>0, <1>1, <1>5, <2>3 DEF Running, Exists
<1>6. QED
  <2>1. CASE g # h
    <3>1. inst'[g] = inst[g]
      BY <1>0, <2>1 DEF Environment, CreateInstance, SetDesiredState, OnboardHost,
        DeauthorizeHost, InvalidateHost, HrmReport, WorkflowStep
    <3>2. QED BY <1>2, <3>1
  <2>2. CASE OnboardHost(h) \/ DeauthorizeHost(h) \/ InvalidateHost(h) \/ WorkflowStep(h)
    BY <1>2, <2>2 DEF OnboardHost, DeauthorizeHost, InvalidateHost, WorkflowStep
  <2>3. QED BY <1>3, <1>4, <1>5, <2>1, <2>2 DEF Environment

LEMMA RunningInductive == Spec => [](IInv /\ RunningInv)
<1>1. Init => RunningInv
  BY DEF Init, Absent, NoPass, RunningInv, Running, ProvisionSteps, WriteSteps, DeauthSteps
<1>2. IInv /\ RunningInv /\ [Next]_vars => RunningInv'
  <2> SUFFICES ASSUME IInv, RunningInv, [Next]_vars, NEW g \in Hosts PROVE Running(g)'
    BY DEF RunningInv
  <2>1. TypeOK /\ \A h \in Hosts : HostInv(h) /\ Running(h)
    BY DEF IInv, RunningInv
  <2>2. CASE UNCHANGED vars
    BY <2>1, <2>2, RunningUntouched DEF Untouched, vars
  <2>3. CASE Crash
    BY <2>1, <2>3
    DEF Crash, envVars, NoPass, Running, ProvisionSteps, WriteSteps, DeauthSteps, Exists
  <2>4. ASSUME NEW h \in Hosts, Enqueue(h) PROVE Running(g)'
    BY <2>1, <2>4, RunningUntouched DEF Untouched, Enqueue, envVars
  <2>5. ASSUME NEW h \in Hosts, PassStep(h) PROVE Running(g)'
    BY <2>1, <2>5, RunningPassStep, PassStepOthers, RunningUntouched
  <2>6. QED
    BY <2>1, <2>2, <2>3, <2>4, <2>5, RunningGet, RunningEnvironment DEF Next
<1>3. QED BY <1>1, <1>2, InitInv, NextInv, PTL DEF Spec

\* A provisioned Instance the user wants to run is RUNNING, and no step takes
\* it out of that state (instance.go, handleMatchingStates and
\* updateHostInstanceStatusAndCurrentState).
THEOREM ProvisionedRuns == Spec => ProvisionedStaysRunning
<1> DEFINE Stays == \A h \in Hosts :
       inst[h].prov = "Done" /\ inst[h].cur = "RUNNING" /\ inst'[h].des = "RUNNING"
         => inst'[h].cur = "RUNNING"
<1>1. ASSUME IInv, RunningInv, [Next]_vars PROVE Stays
  <2> SUFFICES ASSUME NEW h \in Hosts, inst[h].prov = "Done", inst[h].cur = "RUNNING",
                      inst'[h].des = "RUNNING", inst'[h] # inst[h]
               PROVE  inst'[h].cur = "RUNNING"
    OBVIOUS
  <2>1. /\ TypeOK /\ Running(h) /\ Exists(h)
        /\ inst \in [Hosts -> InstanceType] /\ inst[h] \in InstanceType
    BY <1>1 DEF IInv, TypeOK, RunningInv, Running
  <2>2. ~UNCHANGED vars /\ ~Crash
    BY DEF vars, Crash, envVars
  <2>3. \A g \in Hosts : ~Get(g) /\ ~Enqueue(g)
    BY DEF Get, Enqueue, envVars
  <2>4. ASSUME NEW g \in Hosts, PassStep(g) PROVE inst'[h].cur = "RUNNING"
    <3>1. g = h
      BY <2>1, <2>4, PassStepOthers DEF Untouched
    <3>2. CASE DeauthStatus(h)
      <4>1. inst'[h] = UpdatedStatuses(inst[h], pass[h].new) /\ pass[h].new \in InstanceType
        BY <2>1, <3>2 DEF DeauthStatus, TypeOK, PassType
      <4>2. QED BY <2>1, <4>1, PopulatedStates
    <3>3. ~UpdateInstance(h)
      <4>1. SUFFICES ASSUME UpdateInstance(h) PROVE FALSE
        OBVIOUS
      <4>2. /\ pass[h].at = "instWrite" /\ pass[h].new \in InstanceType
            /\ inst'[h] = UpdatedInstance(inst[h], pass[h].new)
        BY <2>1, <4>1 DEF UpdateInstance, TypeOK, PassType
      <4>3. inst[h].des = "RUNNING"
        BY <2>1, <4>2, PopulatedFields
      <4>4. QED BY <2>1, <4>2, <4>3 DEF Running, WriteSteps
    <3>4. ~SetInstanceDeleted(h)
      BY <2>1 DEF SetInstanceDeleted, Absent
    <3>5. ~SetInstanceUntrusted(h)
      BY <2>1 DEF SetInstanceUntrusted, Running, InstanceType
    <3>6. QED
      BY <2>4, <3>1, <3>2, <3>3, <3>4, <3>5 DEF PassStep, DeauthCheck, DeauthDelete,
        CheckStatusOrRunProdWorkflow, CreateENCredentialsIfNotExists, RunProdWorkflow,
        SetHostStatus, CleanupProvisioningResources, CleanupForDeletion, envVars
  <2>5. ASSUME NEW g \in Hosts, Environment(g) PROVE inst'[h].cur = "RUNNING"
    <3>1. ~CreateInstance(g)
      BY <2>1 DEF CreateInstance
    <3>2. \A d \in {"UNTRUSTED", "DELETED"} : ~SetDesiredState(g, d)
      BY <2>1 DEF SetDesiredState, InstanceType
    <3>3. HrmReport(g)
      BY <2>5, <3>1, <3>2
      DEF Environment, OnboardHost, DeauthorizeHost, InvalidateHost, WorkflowStep
    <3>4. PICK s \in {"Idle", "Busy"}, a \in {"idle", "busy"} :
            inst' = [inst EXCEPT ![g] =
                       [inst[g] EXCEPT !.cur = "RUNNING", !.status = s, !.aux = a]]
      BY <2>1, <3>3 DEF HrmReport
    <3>5. QED BY <2>1, <3>4 DEF InstanceType
  <2>6. QED BY <1>1, <2>2, <2>3, <2>4, <2>5 DEF Next
<1>2. QED BY <1>1, RunningInductive, PTL DEF Spec, ProvisionedStaysRunning

-----------------------------------------------------------------------------
(* A device is not provisioned twice.                                      *)

Bare == {"noos", "foreign"}

\* What keeps the reconciler from provisioning an Instance whose workflow is gone.
Settled(h) == inst[h].prov = "Done" \/ inst[h].des # "RUNNING" \/ host[h].des = "UNTRUSTED"

\* A pass provisions only a device whose workflow has not succeeded, and a workflow
\* that has succeeded is deleted only when nothing can bring it back: the success is
\* written, the user wants something else, or the host is not trusted any more.
Once(h) ==
  /\ host[h].cur = "UNTRUSTED" => host[h].des = "UNTRUSTED"
  /\ inst[h].kind \in Bare => wf[h] = "none" /\ ~installed[h]
  /\ pass[h].at \in ProvisionSteps \cup WriteSteps => inst[h].kind \notin Bare
  /\ pass[h].at \in {"creds", "create"} => wf[h] = "none" /\ ~installed[h]
  /\ pass[h].at = "check" /\ wf[h] = "none" => ~installed[h]
  /\ pass[h].at \in WriteSteps /\ pass[h].dir = "Ack" => pass[h].new.prov = "Done"
  /\ pass[h].at \in DeauthSteps => host[h].des = "UNTRUSTED"
  /\ pass[h].at = "cleanup" => inst[h].kind \in Bare \/ inst[h].prov = "Done"
  /\ installed[h] => wf[h] = "SUCCESS" \/ (wf[h] = "none" /\ Settled(h))
OnceInv == faults.inv = 0 => \A h \in Hosts : Once(h)

LEMMA OnceUntouched ==
  ASSUME NEW g \in Hosts, Once(g), Untouched(g),
         host'[g].cur = host[g].cur, host'[g].des = host[g].des
  PROVE  Once(g)'
BY DEF Untouched, Once, Settled

LEMMA OnceFaults ==
  ASSUME TypeOK, [Next]_vars, faults'.inv = 0
  PROVE  faults.inv = 0 /\ ~InvFault
<1>1. faults \in [inv : Nat, ext : Nat, crash : Nat]
  BY DEF TypeOK
<1>2. ~InvFault
  BY <1>1 DEF InvFault
<1>3. InvFault \/ ExtFault \/ NoFault \/ Crash
  BY DEF Next, Get, PassStep, DeauthCheck, DeauthDelete, DeauthStatus, DeleteWorkflowFails,
    CheckStatusOrRunProdWorkflow, CreateENCredentialsIfNotExists, RunProdWorkflow,
    SetHostStatus, UpdateInstance, CleanupProvisioningResources,
    CleanupForDeletion, SetInstanceDeleted, SetInstanceUntrusted, Enqueue, Environment,
    CreateInstance, SetDesiredState, OnboardHost, DeauthorizeHost, InvalidateHost,
    HrmReport, WorkflowStep, envUnchanged, NoFault, vars
<1>4. QED BY <1>1, <1>2, <1>3 DEF ExtFault, NoFault, Crash

\* No step of a pass changes the kind of an Instance or the trust in a host.
LEMMA PopulatedKinds ==
  ASSUME NEW i \in InstanceType, NEW new \in InstanceType
  PROVE  UpdatedInstance(i, new).kind = i.kind /\ UpdatedStatuses(i, new).kind = i.kind
BY DEF UpdatedInstance, UpdatedStatuses, InstanceType

LEMMA AckMeansDone ==
  ASSUME NEW i \in InstanceType, NEW state, HandleWorkflowStatus(i, state).dir = "Ack"
  PROVE  HandleWorkflowStatus(i, state).new.prov = "Done"
<1>1. CASE state = "SUCCESS"
  BY <1>1 DEF HandleWorkflowStatus, InstanceType
<1>2. CASE state # "SUCCESS"
  BY <1>2 DEF HandleWorkflowStatus, HandleProvisioningError
<1>3. QED BY <1>1, <1>2

LEMMA OncePassStep ==
  ASSUME TypeOK, NEW h \in Hosts, HostInv(h), Running(h), Once(h), PassStep(h), ~InvFault
  PROVE  Once(h)'
<1> USE PassEffect DEF Once, Settled, ProvisionSteps, WriteSteps, DeauthSteps
<1>0. /\ pass[h] \in PassType /\ pass[h].new \in InstanceType
      /\ inst[h] \in InstanceType /\ inst \in [Hosts -> InstanceType]
      /\ wf \in [Hosts -> WorkflowStates] /\ wf[h] \in WorkflowStates
      /\ InPass(h) => Exists(h)
  BY DEF TypeOK, PassType, HostInv, Existence
<1>1. CASE DeauthCheck(h)
  BY <1>1 DEF DeauthCheck, envVars
<1>2. CASE DeauthDelete(h)
  <2>1. /\ pass[h].at = "deauthDelete" /\ pass'[h].at \in {"deauthStatus", "idle"}
        /\ wf'[h] \in {wf[h], "none"} /\ UNCHANGED <<host, inst, installed>>
    BY <1>0, <1>2 DEF DeauthDelete, DeleteWorkflow, DeleteWorkflowFails
  <2>2. QED BY <2>1
<1>3. CASE DeauthStatus(h)
  <2>1. inst'[h] = UpdatedStatuses(inst[h], pass[h].new)
    BY <1>0, <1>3 DEF DeauthStatus
  <2>2. inst'[h].des = inst[h].des /\ inst'[h].kind = inst[h].kind
    BY <1>0, <2>1, PopulatedFields, PopulatedKinds
  <2>3. /\ pass[h].at = "deauthStatus" /\ pass'[h].at = "idle"
        /\ UNCHANGED <<host, wf, installed>>
    BY <1>3 DEF DeauthStatus
  <2>4. QED BY <2>2, <2>3
<1>4. CASE CheckStatusOrRunProdWorkflow(h)
  <2>1. pass[h].at = "check" /\ UNCHANGED <<host, inst, wf, installed>>
    BY <1>4 DEF CheckStatusOrRunProdWorkflow, envVars
  <2>2. CASE GotoWith(h, "instWrite", pass[h].new, "Retry")
    BY <2>1, <2>2
  <2>3. CASE wf[h] = "none" /\ Goto(h, "creds")
    BY <2>1, <2>3
  <2>4. CASE LET r == HandleWorkflowStatus(pass[h].new, wf[h])
             IN  GotoWith(h, IF WritesHostStatus(pass[h], wf[h])
                             THEN "hostWrite" ELSE "instWrite", r.new, r.dir)
    <3> DEFINE r == HandleWorkflowStatus(pass[h].new, wf[h])
    <3>1. /\ pass'[h].at \in {"hostWrite", "instWrite"}
          /\ pass'[h].new = r.new /\ pass'[h].dir = r.dir
      BY <2>4
    <3>2. r.dir = "Ack" => r.new.prov = "Done"
      BY <1>0, AckMeansDone
    <3> HIDE DEF r
    <3>3. QED BY <2>1, <3>1, <3>2
  <2>5. QED BY <1>4, <2>2, <2>3, <2>4 DEF CheckStatusOrRunProdWorkflow
<1>5. CASE CreateENCredentialsIfNotExists(h)
  BY <1>5 DEF CreateENCredentialsIfNotExists
<1>6. CASE RunProdWorkflow(h)
  <2>1. /\ pass[h].at = "create" /\ pass'[h].at = "instWrite" /\ pass'[h].dir = "Retry"
        /\ UNCHANGED <<host, inst, installed>>
    BY <1>6 DEF RunProdWorkflow
  <2>2. QED BY <2>1
<1>7. CASE SetHostStatus(h)
  <2>1. host'[h].cur = host[h].cur /\ host'[h].des = host[h].des
    BY <1>7 DEF SetHostStatus, TypeOK, HostType
  <2>2. /\ pass[h].at = "hostWrite" /\ pass'[h].at = "instWrite"
        /\ pass'[h].new = pass[h].new /\ pass'[h].dir = pass[h].dir
        /\ UNCHANGED <<inst, wf, installed>>
    BY <1>7 DEF SetHostStatus
  <2>3. QED BY <2>1, <2>2
<1>8. CASE UpdateInstance(h)
  <2>1. inst'[h] = UpdatedInstance(inst[h], pass[h].new)
    BY <1>0, <1>8 DEF UpdateInstance
  <2>2. /\ inst'[h].des = inst[h].des /\ inst'[h].kind = inst[h].kind
        /\ inst'[h].prov = pass[h].new.prov
    BY <1>0, <2>1, PopulatedFields, PopulatedKinds
  <2>3. /\ pass[h].at = "instWrite" /\ UNCHANGED <<host, wf, installed>>
        /\ pass'[h].at = "idle" \/ (pass'[h].at = "cleanup" /\ pass[h].dir = "Ack")
    BY <1>8 DEF UpdateInstance, AfterUpdate
  <2>4. Settled(h) => inst[h].des # "RUNNING" \/ host[h].des = "UNTRUSTED"
    BY <2>3 DEF Running
  <2>5. QED BY <2>2, <2>3, <2>4
<1>9. CASE CleanupProvisioningResources(h)
  <2>1. /\ pass[h].at = "cleanup" /\ pass'[h].at = "idle"
        /\ wf'[h] \in {wf[h], "none"} /\ UNCHANGED <<host, inst, installed>>
    BY <1>0, <1>9 DEF CleanupProvisioningResources, DeleteWorkflow, DeleteWorkflowFails
  <2>2. QED BY <2>1
<1>10. CASE CleanupForDeletion(h)
  <2>1. /\ pass[h].at = "delete" /\ pass'[h].at \in {"setDeleted", "idle"}
        /\ wf'[h] \in {wf[h], "none"} /\ UNCHANGED <<host, inst, installed>>
    BY <1>0, <1>10 DEF CleanupForDeletion, DeleteWorkflow, DeleteWorkflowFails
  <2>2. inst[h].des = "DELETED"
    BY <2>1 DEF HostInv, FailedKnown
  <2>3. QED BY <2>1, <2>2
<1>11. CASE SetInstanceDeleted(h)
  <2>1. inst'[h] = inst[h] \/ inst'[h] = Absent
    BY <1>0, <1>11 DEF SetInstanceDeleted
  <2>2. /\ pass[h].at = "setDeleted" /\ pass'[h].at = "idle" /\ UNCHANGED <<host, wf, installed>>
    BY <1>11 DEF SetInstanceDeleted
  <2>3. Absent.kind \notin Bare /\ Absent.des = "ABSENT"
    BY DEF Absent, Bare
  <2>4. QED BY <2>1, <2>2, <2>3
<1>12. CASE SetInstanceUntrusted(h)
  <2>1. /\ inst'[h].des = inst[h].des /\ inst'[h].prov = inst[h].prov
        /\ inst'[h].kind = inst[h].kind
    BY <1>0, <1>12 DEF SetInstanceUntrusted, InstanceType
  <2>2. pass[h].at = "untrust" /\ pass'[h].at = "idle" /\ UNCHANGED <<host, wf, installed>>
    BY <1>12 DEF SetInstanceUntrusted
  <2>3. QED BY <2>1, <2>2
<1>13. QED
  BY <1>1, <1>2, <1>3, <1>4, <1>5, <1>6, <1>7, <1>8, <1>9, <1>10, <1>11, <1>12 DEF PassStep

LEMMA OnceGet ==
  ASSUME TypeOK, NEW h \in Hosts, Get(h), NEW g \in Hosts, Running(g), Once(g)
  PROVE  Once(g)'
<1>1. UNCHANGED <<host, inst, wf, installed>>
  BY DEF Get, envVars
<1>2. CASE pass'[g] = pass[g]
  BY <1>1, <1>2, OnceUntouched DEF Untouched
<1>3. CASE pass'[g] # pass[g]
  <2> DEFINE step == Reconcile(inst[h], host[h])
  <2>1. inst[h] \in InstanceType /\ host[h] \in HostType
    BY DEF TypeOK
  <2>2. /\ g = h /\ step \notin {"Ack", "Retry"}
        /\ pass'[h] = [at |-> step, new |-> FirstNew(h, step),
                       hstat |-> host[h].status, dir |-> "Ack"]
    BY <1>3 DEF Get, TypeOK
  <2>3. step \in {"deauth", "delete", "untrust", "cleanup", "check"}
    BY <2>1, <2>2, ReconcileType
  <2>4. step = "check" =>
          /\ inst[h].des = "RUNNING" /\ inst[h].kind \notin Bare
          /\ inst[h].cur = "RUNNING" => inst[h].prov # "Done"
          /\ host[h].des # "UNTRUSTED"
    BY <1>3, <2>1
    DEF Reconcile, Deauthorized, NothingToDo, ProvisioningUnfinished, ReconcileInstance,
        InstanceType, Bare, Get, Exists
  <2>5. /\ step = "cleanup" => inst[h].kind \in Bare
        /\ step = "deauth" => "UNTRUSTED" \in {host[h].cur, host[h].des}
    BY <2>1
    DEF Reconcile, Deauthorized, NothingToDo, ProvisioningUnfinished, ReconcileInstance,
        InstanceType, Bare
  <2> HIDE DEF step
  <2>6. pass'[h].at = step
    BY <2>2
  <2>7. step = "check" /\ wf[h] = "none" => ~installed[h]
    BY <2>2, <2>4 DEF Once, Settled, Running
  <2>8. QED
    BY <1>1, <2>2, <2>3, <2>4, <2>5, <2>6, <2>7
    DEF Once, Settled, ProvisionSteps, WriteSteps, DeauthSteps
<1>4. QED BY <1>2, <1>3

LEMMA OnceEnvironment ==
  ASSUME TypeOK, NEW h \in Hosts, Environment(h), NEW g \in Hosts, HostInv(g), Once(g)
  PROVE  Once(g)'
<1>0. /\ inst \in [Hosts -> InstanceType] /\ inst[g] \in InstanceType
      /\ host \in [Hosts -> HostType] /\ host[g] \in HostType
      /\ wf \in [Hosts -> WorkflowStates] /\ wf[g] \in WorkflowStates
      /\ installed \in [Hosts -> BOOLEAN]
  BY DEF TypeOK
<1>1. pass' = pass
  BY DEF Environment, CreateInstance, SetDesiredState, OnboardHost, DeauthorizeHost,
    InvalidateHost, HrmReport, WorkflowStep, envUnchanged
<1>2. CASE CreateInstance(h) /\ g = h
  <2>1. PICK k \in Kinds : inst'[h] = NewInstance(k)
    BY <1>0, <1>2 DEF CreateInstance
  <2>2. pass[h].at = "idle" /\ wf[h] = "none"
    BY <1>2 DEF CreateInstance, HostInv, Existence, InPass
  <2>3. ~installed'[h] /\ UNCHANGED <<host, wf>>
    BY <1>0, <1>2 DEF CreateInstance
  <2>4. QED
    BY <1>1, <1>2, <2>2, <2>3 DEF Once, ProvisionSteps, WriteSteps, DeauthSteps
<1>3. ASSUME g = h, NEW d \in {"UNTRUSTED", "DELETED"}, SetDesiredState(h, d)
      PROVE  Once(g)'
  <2>1. /\ inst'[g].des # "RUNNING" /\ inst'[g].kind = inst[g].kind
        /\ inst'[g].prov = inst[g].prov /\ UNCHANGED <<host, wf, installed>>
    BY <1>0, <1>3 DEF SetDesiredState, InstanceType
  <2>2. QED BY <1>1, <2>1 DEF Once, Settled
<1>4. CASE (OnboardHost(h) \/ DeauthorizeHost(h) \/ InvalidateHost(h)) /\ g = h
  <2>1. /\ host'[g].cur = "UNTRUSTED" => host'[g].des = "UNTRUSTED"
        /\ host[g].des = "UNTRUSTED" => host'[g].des = "UNTRUSTED"
    BY <1>0, <1>4 DEF OnboardHost, DeauthorizeHost, InvalidateHost, HostType, Once
  <2>2. UNCHANGED <<inst, wf, installed>>
    BY <1>4 DEF OnboardHost, DeauthorizeHost, InvalidateHost
  <2>3. QED BY <1>1, <2>1, <2>2 DEF Once, Settled
<1>5. CASE HrmReport(h) /\ g = h
  <2>1. PICK s \in {"Idle", "Busy"}, a \in {"idle", "busy"} :
          inst' = [inst EXCEPT ![h] =
                     [inst[h] EXCEPT !.cur = "RUNNING", !.status = s, !.aux = a]]
    BY <1>0, <1>5 DEF HrmReport
  <2>2. inst'[h] = [inst[h] EXCEPT !.cur = "RUNNING", !.status = s, !.aux = a]
    BY <1>0, <2>1
  <2>3. /\ inst'[h].des = inst[h].des /\ inst'[h].prov = inst[h].prov
        /\ inst'[h].kind = inst[h].kind
    BY <1>0, <1>5, <2>2 DEF InstanceType
  <2>4. /\ host'[h].cur = host[h].cur /\ host'[h].des = host[h].des
        /\ UNCHANGED <<wf, installed>>
    BY <1>0, <1>5 DEF HrmReport, HostType
  <2>5. QED BY <1>1, <1>5, <2>3, <2>4 DEF Once, Settled
<1>6. CASE WorkflowStep(h) /\ g = h
  <2>1. /\ wf[h] \notin {"none", "SUCCESS"} /\ wf'[h] # "none"
        /\ installed'[h] = (installed[h] \/ wf'[h] = "SUCCESS")
        /\ UNCHANGED <<host, inst>>
    BY <1>0, <1>6 DEF WorkflowStep
  <2>2. QED BY <1>1, <1>6, <2>1 DEF Once, Settled
<1>7. QED
  <2>1. CASE g # h
    <3>1. /\ inst'[g] = inst[g] /\ host'[g] = host[g] /\ wf'[g] = wf[g]
          /\ installed'[g] = installed[g]
      BY <1>0, <2>1 DEF Environment, CreateInstance, SetDesiredState, OnboardHost,
        DeauthorizeHost, InvalidateHost, HrmReport, WorkflowStep
    <3>2. QED BY <1>1, <3>1, OnceUntouched DEF Untouched
  <2>2. QED BY <1>2, <1>3, <1>4, <1>5, <1>6, <2>1 DEF Environment

LEMMA OnceInductive == Spec => [](IInv /\ RunningInv /\ OnceInv)
<1>1. Init => OnceInv
  BY DEF Init, Absent, NoPass, OnceInv, Once, Bare, ProvisionSteps, WriteSteps, DeauthSteps
<1>2. IInv /\ RunningInv /\ OnceInv /\ [Next]_vars => OnceInv'
  <2> SUFFICES ASSUME IInv, RunningInv, OnceInv, [Next]_vars, faults'.inv = 0, NEW g \in Hosts
               PROVE  Once(g)'
    BY DEF OnceInv
  <2>1. /\ TypeOK /\ ~InvFault
        /\ \A h \in Hosts : HostInv(h) /\ Running(h) /\ Once(h)
    BY OnceFaults DEF IInv, RunningInv, OnceInv
  <2>2. CASE UNCHANGED vars
    BY <2>1, <2>2, OnceUntouched DEF Untouched, vars
  <2>3. CASE Crash
    BY <2>1, <2>3
    DEF Crash, envVars, NoPass, Once, Settled, ProvisionSteps, WriteSteps, DeauthSteps
  <2>4. ASSUME NEW h \in Hosts, Enqueue(h) PROVE Once(g)'
    BY <2>1, <2>4, OnceUntouched DEF Untouched, Enqueue, envVars
  <2>5. ASSUME NEW h \in Hosts, PassStep(h) PROVE Once(g)'
    <3>1. CASE g = h
      BY <2>1, <2>5, <3>1, OncePassStep
    <3>2. CASE g # h
      <4>1. host'[g] = host[g]
        BY <2>1, <2>5, <3>2
        DEF PassStep, DeauthCheck, DeauthDelete, DeauthStatus,
          CheckStatusOrRunProdWorkflow, CreateENCredentialsIfNotExists, RunProdWorkflow,
          SetHostStatus, UpdateInstance, CleanupProvisioningResources,
          CleanupForDeletion, SetInstanceDeleted, SetInstanceUntrusted, envVars, TypeOK
      <4>2. Untouched(g)
        BY <2>1, <2>5, <3>2, PassStepOthers
      <4>3. QED BY <2>1, <4>1, <4>2, OnceUntouched
    <3>3. QED BY <3>1, <3>2
  <2>6. QED
    BY <2>1, <2>2, <2>3, <2>4, <2>5, OnceGet, OnceEnvironment DEF Next
<1>3. QED BY <1>1, <1>2, RunningInductive, PTL DEF Spec

\* A device whose workflow has succeeded is not provisioned again for the same
\* Instance, whatever calls to Kubernetes or Keycloak fail, however often the manager
\* crashes and whatever the users do, as long as no call to the Inventory fails
\* (workflow.go, CheckStatusOrRunProdWorkflow; instance.go, tryProvisionInstance).
THEOREM ProvisionedOnce == Spec => []NotReprovisioned
<1>1. OnceInv => NotReprovisioned
  BY DEF OnceInv, Once, NotReprovisioned
<1>2. QED BY <1>1, OnceInductive, PTL

=============================================================================
