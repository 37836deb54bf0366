------------------------ MODULE InstanceReconciler ------------------------
(***************************************************************************)
(* The Instance reconciler of the Onboarding Manager, with the parts of    *)
(* the Inventory, of Tinkerbell and of Keycloak that it reads and writes.  *)
(*                                                                         *)
(* One pass of the reconciler works on the Instance of one host.  Every    *)
(* call to another service is a step of its own, so that the user, the     *)
(* Host Resource Manager (HRM) and the tink server act between any two     *)
(* calls, and the manager may crash there.  What the pass has read is kept *)
(* in pass[h]; the masked updates it sends later are computed from it.     *)
(***************************************************************************)
EXTENDS Naturals, FiniteSets

CONSTANTS
  Hosts,          \* hosts; a host has at most one Instance
  Kinds,          \* the kinds of Instance a user creates, a subset of AllKinds
  MaxInvFaults,   \* bound: how many Inventory calls fail
  MaxExtFaults,   \* bound: how many Kubernetes and Keycloak calls fail
  MaxCrashes      \* bound: how often the manager crashes

(***************************************************************************)
(* What the code tells apart about an Instance's OS resource and its       *)
(* host's provider: "infra" and "standalone" are provisioned here,         *)
(* "foreign" has another OS provider, "noos" has no OS resource, "broken"  *)
(* has one that does not convert to a DeviceInfo, "vendor" sits on a host  *)
(* that has a Provider.                                                    *)
(***************************************************************************)
AllKinds == {"infra", "standalone", "foreign", "noos", "broken", "vendor"}

ASSUME KindsAssumption == Kinds \subseteq AllKinds
ASSUME BoundsAssumption ==
  MaxInvFaults \in Nat /\ MaxExtFaults \in Nat /\ MaxCrashes \in Nat

VARIABLES
  host,       \* Inventory: current and desired state and status of each host
  inst,       \* Inventory: the Instance of each host, or Absent
  wf,         \* Kubernetes: state of the Workflow object workflow-<host UUID>
  creds,      \* Keycloak: hosts that have client credentials
  queued,     \* hosts whose Instance waits in the reconciler's queue
  pass,       \* the running pass, and what it has read
  installed,  \* history: the workflow of this Instance succeeded on the device
  faults      \* how many faults of each kind have happened

envVars == <<host, inst, wf, creds, installed>>
vars == <<host, inst, wf, creds, queued, pass, installed, faults>>

HostStates == {"REGISTERED", "ONBOARDED", "UNTRUSTED"}
ProvStatuses == {"Unknown", "InProgress", "Done", "Failed"}
WorkflowStates ==
  {"none", "PENDING", "RUNNING", "OTHER", "SUCCESS", "FAILED", "TIMEOUT"}

HostType == [cur : HostStates, des : {"REGISTERED", "ONBOARDED", "UNTRUSTED"},
             status : {"other", "Rebooting"}]

\* status: "Unknown" is that text; "Idle" and "Busy" are any other text, by
\* indicator.  aux is "busy" if the update or the attestation indicator is.
InstanceType ==
  [des : {"ABSENT", "RUNNING", "UNTRUSTED", "DELETED"},
   cur : {"UNSPECIFIED", "RUNNING", "UNTRUSTED"},
   prov : ProvStatuses, status : {"Unknown", "Idle", "Busy"},
   aux : {"idle", "busy"}, kind : AllKinds]

Absent == [des |-> "ABSENT", cur |-> "UNSPECIFIED", prov |-> "Unknown",
           status |-> "Idle", aux |-> "idle", kind |-> "infra"]
NewInstance(k) == [Absent EXCEPT !.des = "RUNNING", !.kind = k]

Steps == {"deauth", "deauthDelete", "deauthStatus", "check", "creds", "create",
          "hostWrite", "instWrite", "cleanup", "delete", "setDeleted", "untrust"}

\* at: the next call of the pass; new: the Instance it read, then modified;
\* hstat: the host status it read; dir: the directive it will return.
PassType == [at : Steps \cup {"idle"}, new : InstanceType,
             hstat : {"other", "Rebooting"}, dir : {"Ack", "Retry", "Fail"}]
NoPass == [at |-> "idle", new |-> Absent, hstat |-> "other", dir |-> "Ack"]

TypeOK ==
  /\ host \in [Hosts -> HostType]
  /\ inst \in [Hosts -> InstanceType]
  /\ wf \in [Hosts -> WorkflowStates]
  /\ creds \in SUBSET Hosts
  /\ queued \in [Hosts -> BOOLEAN]
  /\ pass \in [Hosts -> PassType]
  /\ installed \in [Hosts -> BOOLEAN]
  /\ faults \in [inv : Nat, ext : Nat, crash : Nat]

Exists(h) == inst[h].des # "ABSENT"
InPass(h) == pass[h].at # "idle"

Init ==
  /\ host = [h \in Hosts |-> [cur |-> "REGISTERED", des |-> "ONBOARDED",
                              status |-> "other"]]
  /\ inst = [h \in Hosts |-> Absent]
  /\ wf = [h \in Hosts |-> "none"]
  /\ creds = {}
  /\ queued = [h \in Hosts |-> FALSE]
  /\ pass = [h \in Hosts |-> NoPass]
  /\ installed = [h \in Hosts |-> FALSE]
  /\ faults = [inv |-> 0, ext |-> 0, crash |-> 0]

-----------------------------------------------------------------------------
(* Faults, directives and the ends of a pass.                              *)

InvFault == /\ faults.inv < MaxInvFaults
            /\ faults' = [faults EXCEPT !.inv = @ + 1]
ExtFault == /\ faults.ext < MaxExtFaults
            /\ faults' = [faults EXCEPT !.ext = @ + 1]
NoFault == UNCHANGED faults

\* An error of an Inventory call is acknowledged (NotFound, AlreadyExists,
\* Unauthenticated, PermissionDenied) or retried.
HandleInventoryError == {"Ack", "Retry"}

\* Without a case for the errors that are not final, no directive results.
HandleProvisioningErrorMutant(workflowFailed) ==
  IF workflowFailed THEN "Fail" ELSE "None"

\* An error while provisioning: only a failed workflow (Aborted) is final.
HandleProvisioningError(workflowFailed) ==
  IF workflowFailed THEN "Fail" ELSE "Retry"

Goto(h, step) == pass' = [pass EXCEPT ![h].at = step]
GotoWith(h, step, new, dir) ==
  pass' = [pass EXCEPT ![h] = [@ EXCEPT !.at = step, !.new = new, !.dir = dir]]

\* The end of a pass: Retry puts the request back in the queue.
Return(h, dir) ==
  /\ pass' = [pass EXCEPT ![h] = NoPass]
  /\ queued' = [queued EXCEPT ![h] = @ \/ dir = "Retry"]

-----------------------------------------------------------------------------
(* The decisions Reconcile takes on what it read.                          *)

Deauthorized(i, hs) ==
  "UNTRUSTED" \in {hs.cur, hs.des} /\ i.des = "RUNNING"

StatusIdle(i) == i.status # "Busy" /\ i.aux = "idle"
               /\ i.prov \in {"Unknown", "Done"}

\* Every RUNNING Instance counts as unfinished.
ProvisioningUnfinishedMutant(i) == i.cur = "RUNNING"

\* RUNNING set by HRM before the provisioning was reported as done.
ProvisioningUnfinished(i) == i.cur = "RUNNING" /\ i.prov # "Done"

\* reconcileInstance, up to its first call to another service.
ReconcileInstance(i) ==
  CASE i.des = "DELETED" -> "delete"
    [] i.des = "UNTRUSTED" -> "untrust"
    [] i.des = "RUNNING" /\ i.kind \in {"noos", "foreign"} -> "cleanup"
    [] i.des = "RUNNING" /\ i.kind = "broken" -> "Retry"
    [] OTHER -> "check"

\* An Instance HRM set to RUNNING counts as finished.
NothingToDoMutant(i, hs) ==
  i.des = i.cur \/ (i.des = "RUNNING" /\ hs.cur # "ONBOARDED")

\* The states agree, or the host is not onboarded yet: nothing to do.
NothingToDo(i, hs) ==
  IF i.des = i.cur THEN ~ProvisioningUnfinished(i)
  ELSE i.des = "RUNNING" /\ hs.cur # "ONBOARDED"

\* Without the ERROR check, a failed Instance is provisioned again.
ReconcileNoErrorCheckMutant(i, hs) ==
  IF i.kind = "vendor" THEN "Ack"
  ELSE IF Deauthorized(i, hs) THEN IF i.status = "Unknown" THEN "Ack" ELSE "deauth"
  ELSE IF NothingToDo(i, hs) THEN "Ack" ELSE ReconcileInstance(i)

\* Without the deauthorized check, the workflow of an untrusted host stays.
ReconcileNoDeauthMutant(i, hs) ==
  IF i.kind = "vendor" \/ (i.prov = "Failed" /\ i.des # "DELETED") THEN "Ack"
  ELSE IF NothingToDo(i, hs) THEN "Ack" ELSE ReconcileInstance(i)

\* With an ERROR check that stops the deletion too, a failed Instance stays.
ReconcileErrorStopsDeletionMutant(i, hs) ==
  IF i.kind = "vendor" \/ i.prov = "Failed" THEN "Ack"
  ELSE IF Deauthorized(i, hs) THEN IF i.status = "Unknown" THEN "Ack" ELSE "deauth"
  ELSE IF NothingToDo(i, hs) THEN "Ack" ELSE ReconcileInstance(i)

\* The checks in the order Reconcile makes them: "Ack" and "Retry" end the
\* pass, anything else is its next call.
Reconcile(i, hs) ==
  IF i.kind = "vendor" \/ (i.prov = "Failed" /\ i.des # "DELETED") THEN "Ack"
  ELSE IF Deauthorized(i, hs) THEN IF i.status = "Unknown" THEN "Ack" ELSE "deauth"
  ELSE IF NothingToDo(i, hs) THEN "Ack" ELSE ReconcileInstance(i)

\* PopulateInstanceIdleStatus, unless every indicator is idle already.
Idled(i) == IF StatusIdle(i) THEN i
            ELSE [i EXCEPT !.status = "Unknown", !.prov = "Unknown",
                           !.aux = "idle"]

\* The Instance as read, or idled when the host is deauthorized.
FirstNew(h, step) == IF step = "deauth" THEN Idled(inst[h]) ELSE inst[h]

\* The pass takes the request off the queue and reads the Instance with its
\* host.  One pass runs at a time: the controller has parallelism 1.
Get(h) ==
  /\ queued[h]
  /\ \A g \in Hosts : ~InPass(g)
  /\ UNCHANGED envVars
  /\ \/ /\ InvFault
        /\ \E dir \in HandleInventoryError :
             queued' = [queued EXCEPT ![h] = dir = "Retry"]
        /\ UNCHANGED pass
     \/ /\ NoFault
        /\ ~Exists(h)
        /\ queued' = [queued EXCEPT ![h] = FALSE]
        /\ UNCHANGED pass
     \/ /\ NoFault
        /\ Exists(h)
        /\ LET step == Reconcile(inst[h], host[h])
           IN  /\ queued' = [queued EXCEPT ![h] = step = "Retry"]
               /\ IF step \in {"Ack", "Retry"} THEN UNCHANGED pass
                  ELSE pass' = [pass EXCEPT ![h] =
                         [at |-> step, new |-> FirstNew(h, step),
                          hstat |-> host[h].status, dir |-> "Ack"]]

-----------------------------------------------------------------------------
(* handleHostDeauthorized, after the decision to act.                      *)

\* CheckWorkflowExist takes an error of the call for "does not exist"; no
\* call is made for an Instance that does not convert to a DeviceInfo.
DeauthCheck(h) ==
  /\ pass[h].at = "deauth"
  /\ \/ /\ NoFault
        /\ IF pass[h].new.kind \notin {"noos", "broken"} /\ wf[h] # "none"
           THEN Goto(h, "deauthDelete") ELSE Goto(h, "deauthStatus")
     \/ /\ ExtFault
        /\ pass[h].new.kind \notin {"noos", "broken"}
        /\ Goto(h, "deauthStatus")
  /\ UNCHANGED <<envVars, queued>>

\* DeleteTinkerbellWorkflowIfExists: a call that fails may have deleted the
\* object all the same.
DeleteWorkflow(h) == wf' = [wf EXCEPT ![h] = "none"]
DeleteWorkflowFails(h) == ExtFault /\ (DeleteWorkflow(h) \/ UNCHANGED wf)

DeauthDelete(h) ==
  /\ pass[h].at = "deauthDelete"
  /\ \/ NoFault /\ DeleteWorkflow(h) /\ Goto(h, "deauthStatus") /\ UNCHANGED queued
     \/ DeleteWorkflowFails(h) /\ Return(h, "Ack")
  /\ UNCHANGED <<host, inst, creds, installed>>

\* The mutant forgets the provisioning status.
UpdatedStatusesMutant(i, new) == [i EXCEPT !.status = new.status, !.aux = new.aux]
UpdatedStatuses(i, new) ==
  [i EXCEPT !.status = new.status, !.prov = new.prov, !.aux = new.aux]

\* updateInstanceStatuses: an error is only logged.
DeauthStatus(h) ==
  /\ pass[h].at = "deauthStatus"
  /\ \/ /\ NoFault
        /\ inst' = [inst EXCEPT ![h] = UpdatedStatuses(@, pass[h].new)]
     \/ InvFault /\ UNCHANGED inst
  /\ Return(h, "Ack")
  /\ UNCHANGED <<host, wf, creds, installed>>

-----------------------------------------------------------------------------
(* tryProvisionInstance and CheckStatusOrRunProdWorkflow.                  *)

Provisioning(i) == [i EXCEPT !.cur = "UNSPECIFIED", !.prov = "InProgress"]

\* A pending workflow counted as finished, as if handleWorkflowStatus had
\* no case of its own for it.
HandleWorkflowStatusMutant(i, state) ==
  CASE state \in {"SUCCESS", "PENDING"} ->
         [new |-> [i EXCEPT !.cur = "RUNNING", !.prov = "Done"], dir |-> "Ack"]
    [] state \in {"FAILED", "TIMEOUT"} ->
         [new |-> [Provisioning(i) EXCEPT !.prov = "Failed"],
          dir |-> HandleProvisioningError(TRUE)]
    [] OTHER -> [new |-> Provisioning(i), dir |-> HandleProvisioningError(FALSE)]

\* What the pass makes of the workflow's state: the Instance it will write
\* and the directive it will return.  "OTHER" stands for a state unknown to
\* the manager.
HandleWorkflowStatus(i, state) ==
  CASE state = "SUCCESS" ->
         [new |-> [i EXCEPT !.cur = "RUNNING", !.prov = "Done"], dir |-> "Ack"]
    [] state \in {"FAILED", "TIMEOUT"} ->
         [new |-> [Provisioning(i) EXCEPT !.prov = "Failed"],
          dir |-> HandleProvisioningError(TRUE)]
    [] OTHER -> [new |-> Provisioning(i), dir |-> HandleProvisioningError(FALSE)]

\* The host status is written only if the pass changed it: to Rebooting,
\* after a success, unless the node is standalone.
WritesHostStatus(p, state) ==
  state = "SUCCESS" /\ p.new.kind # "standalone" /\ p.hstat # "Rebooting"

\* getWorkflow.  After an error the deferred update writes back what was read.
CheckStatusOrRunProdWorkflow(h) ==
  /\ pass[h].at = "check"
  /\ \/ ExtFault /\ GotoWith(h, "instWrite", pass[h].new, "Retry")
     \/ NoFault /\ wf[h] = "none" /\ Goto(h, "creds")
     \/ /\ NoFault
        /\ wf[h] # "none"
        /\ LET r == HandleWorkflowStatus(pass[h].new, wf[h])
           IN  GotoWith(h, IF WritesHostStatus(pass[h], wf[h])
                           THEN "hostWrite" ELSE "instWrite", r.new, r.dir)
  /\ UNCHANGED <<envVars, queued>>

\* runProdWorkflow: get or create the client credentials ...
CreateENCredentialsIfNotExists(h) ==
  /\ pass[h].at = "creds"
  /\ \/ ExtFault /\ GotoWith(h, "instWrite", pass[h].new, "Retry") /\ UNCHANGED creds
     \/ NoFault /\ creds' = creds \cup {h} /\ Goto(h, "create")
  /\ UNCHANGED <<host, inst, wf, installed, queued>>

\* ... generate the inputs (an error if a service it asks fails) and create
\* the Workflow, unless it exists.  A call that fails may have created it.
\* Success is reported as "operation in progress", hence a retry.
RunProdWorkflow(h) ==
  /\ pass[h].at = "create"
  /\ \/ ExtFault /\ UNCHANGED wf
     \/ /\ ExtFault \/ NoFault
        /\ wf' = [wf EXCEPT ![h] = IF @ = "none" THEN "PENDING" ELSE @]
  /\ GotoWith(h, "instWrite", pass[h].new, "Retry")
  /\ UNCHANGED <<host, inst, creds, installed, queued>>

\* The deferred updateHostInstanceStatusAndCurrentState: errors are only
\* logged, and the onboarding status never differs.
SetHostStatus(h) ==
  /\ pass[h].at = "hostWrite"
  /\ \/ NoFault /\ host' = [host EXCEPT ![h].status = "Rebooting"]
     \/ InvFault /\ UNCHANGED host
  /\ Goto(h, "instWrite")
  /\ UNCHANGED <<inst, wf, creds, installed, queued>>

\* The way on from the deferred update: success cleans up, an error ends the
\* pass with its directive.
AfterUpdate(h) ==
  IF pass[h].dir = "Ack" THEN Goto(h, "cleanup") /\ UNCHANGED queued
  ELSE Return(h, pass[h].dir)

\* The state and the status the update sends; the mutant forgets the status.
UpdatedInstanceMutant(i, new) == [i EXCEPT !.cur = new.cur]
UpdatedInstance(i, new) == [i EXCEPT !.cur = new.cur, !.prov = new.prov]

\* UpdateInstance, always called: the comparison of the OS edge compares
\* pointers, which differ.
UpdateInstance(h) ==
  /\ pass[h].at = "instWrite"
  /\ \/ NoFault /\ inst' = [inst EXCEPT ![h] = UpdatedInstance(@, pass[h].new)]
     \/ InvFault /\ UNCHANGED inst
  /\ AfterUpdate(h)
  /\ UNCHANGED <<host, wf, creds, installed>>

\* cleanupProvisioningResources after a provisioning without error.
CleanupProvisioningResources(h) ==
  /\ pass[h].at = "cleanup"
  /\ \/ NoFault /\ DeleteWorkflow(h)
     \/ DeleteWorkflowFails(h)
  /\ Return(h, "Ack")
  /\ UNCHANGED <<host, inst, creds, installed>>

-----------------------------------------------------------------------------
(* Deletion and invalidation of an Instance.                               *)

\* The state is set to DELETED although the workflow could not be deleted.
CleanupForDeletionMutant(h) ==
  /\ pass[h].at = "delete"
  /\ (NoFault /\ DeleteWorkflow(h)) \/ DeleteWorkflowFails(h)
  /\ Goto(h, "setDeleted")
  /\ UNCHANGED <<host, inst, creds, installed, queued>>

CleanupForDeletion(h) ==
  /\ pass[h].at = "delete"
  /\ \/ NoFault /\ DeleteWorkflow(h) /\ Goto(h, "setDeleted") /\ UNCHANGED queued
     \/ DeleteWorkflowFails(h) /\ Return(h, HandleProvisioningError(FALSE))
  /\ UNCHANGED <<host, inst, creds, installed>>

\* UpdateInstanceCurrentState with DELETED: the Inventory then removes the
\* resource, whose desired state is DELETED too.
SetInstanceDeleted(h) ==
  /\ pass[h].at = "setDeleted"
  /\ \/ NoFault /\ inst' = [inst EXCEPT ![h] = Absent] /\ Return(h, "Ack")
     \/ /\ InvFault
        /\ \E dir \in HandleInventoryError : Return(h, dir)
        /\ UNCHANGED inst
  /\ UNCHANGED <<host, wf, creds, installed>>

SetInstanceUntrusted(h) ==
  /\ pass[h].at = "untrust"
  /\ \/ NoFault /\ inst' = [inst EXCEPT ![h].cur = "UNTRUSTED"] /\ Return(h, "Ack")
     \/ /\ InvFault
        /\ \E dir \in HandleInventoryError : Return(h, dir)
        /\ UNCHANGED inst
  /\ UNCHANGED <<host, wf, creds, installed>>

-----------------------------------------------------------------------------
(* The controller around the reconciler, and a crash of the manager.       *)

\* An Inventory event, an internal event or the 10-minute ticker.
Enqueue(h) ==
  /\ ~queued[h] /\ Exists(h)
  /\ queued' = [queued EXCEPT ![h] = TRUE]
  /\ UNCHANGED <<envVars, pass, faults>>

\* A restart loses queue and pass; Start reconciles every resource.
Crash ==
  /\ faults.crash < MaxCrashes
  /\ faults' = [faults EXCEPT !.crash = @ + 1]
  /\ pass' = [h \in Hosts |-> NoPass]
  /\ queued' = [h \in Hosts |-> Exists(h)]
  /\ UNCHANGED envVars

-----------------------------------------------------------------------------
(* The user, the southbound API, the Host reconciler, HRM, the tink server.*)

envUnchanged == UNCHANGED <<queued, pass, faults>>

\* A user, or zero-touch provisioning, creates the Instance of a host.
CreateInstance(h) ==
  /\ ~Exists(h) /\ host[h].des # "UNTRUSTED"
  /\ \E k \in Kinds : inst' = [inst EXCEPT ![h] = NewInstance(k)]
  /\ installed' = [installed EXCEPT ![h] = FALSE]
  /\ UNCHANGED <<host, wf, creds>> /\ envUnchanged

\* A user changes the desired state of the Instance.
SetDesiredState(h, d) ==
  /\ \/ inst[h].des = "RUNNING" /\ d \in {"UNTRUSTED", "DELETED"}
     \/ inst[h].des = "UNTRUSTED" /\ d = "DELETED"
  /\ inst' = [inst EXCEPT ![h].des = d]
  /\ UNCHANGED <<host, wf, creds, installed>> /\ envUnchanged

\* The southbound API reports the host as onboarded.
OnboardHost(h) ==
  /\ host[h].cur = "REGISTERED"
  /\ host' = [host EXCEPT ![h].cur = "ONBOARDED"]
  /\ UNCHANGED <<inst, wf, creds, installed>> /\ envUnchanged

\* A user deauthorizes the host; the Host reconciler then invalidates it.
DeauthorizeHost(h) ==
  /\ host[h].des # "UNTRUSTED"
  /\ host' = [host EXCEPT ![h].des = "UNTRUSTED"]
  /\ UNCHANGED <<inst, wf, creds, installed>> /\ envUnchanged
InvalidateHost(h) ==
  /\ host[h].des = "UNTRUSTED" /\ host[h].cur # "UNTRUSTED"
  /\ host' = [host EXCEPT ![h] = [@ EXCEPT !.cur = "UNTRUSTED", !.status = "other"]]
  /\ creds' = creds \ {h}
  /\ UNCHANGED <<inst, wf, installed>> /\ envUnchanged

\* HRM reports the state and the statuses the node's agents send, which may
\* be before the workflow is reported as finished.
HrmReport(h) ==
  /\ Exists(h) /\ host[h].cur = "ONBOARDED"
  /\ installed[h] \/ wf[h] = "RUNNING"
  /\ \E s \in {"Idle", "Busy"}, a \in {"idle", "busy"} :
       inst' = [inst EXCEPT ![h] =
                  [@ EXCEPT !.cur = "RUNNING", !.status = s, !.aux = a]]
  /\ host' = [host EXCEPT ![h].status = "other"]
  /\ UNCHANGED <<wf, creds, installed>> /\ envUnchanged

\* The tink server moves the workflow as the worker reports its actions.
WorkflowStep(h) ==
  /\ \/ wf[h] = "PENDING" /\ wf' = [wf EXCEPT ![h] = "RUNNING"]
     \/ wf[h] = "PENDING" /\ wf' = [wf EXCEPT ![h] = "OTHER"]
     \/ wf[h] = "OTHER" /\ wf' = [wf EXCEPT ![h] = "RUNNING"]
     \/ /\ wf[h] = "RUNNING"
        /\ \E s \in {"SUCCESS", "FAILED", "TIMEOUT"} : wf' = [wf EXCEPT ![h] = s]
  /\ installed' = [installed EXCEPT ![h] = @ \/ wf'[h] = "SUCCESS"]
  /\ UNCHANGED <<host, inst, creds>> /\ envUnchanged

-----------------------------------------------------------------------------
(* The specification.                                                      *)

\* The next call of the running pass.
PassStep(h) ==
  \/ DeauthCheck(h) \/ DeauthDelete(h) \/ DeauthStatus(h)
  \/ CheckStatusOrRunProdWorkflow(h)
  \/ CreateENCredentialsIfNotExists(h) \/ RunProdWorkflow(h)
  \/ SetHostStatus(h) \/ UpdateInstance(h) \/ CleanupProvisioningResources(h)
  \/ CleanupForDeletion(h) \/ SetInstanceDeleted(h) \/ SetInstanceUntrusted(h)

Environment(h) ==
  \/ CreateInstance(h)
  \/ \E d \in {"UNTRUSTED", "DELETED"} : SetDesiredState(h, d)
  \/ OnboardHost(h) \/ DeauthorizeHost(h) \/ InvalidateHost(h)
  \/ HrmReport(h) \/ WorkflowStep(h)

Next == \/ \E h \in Hosts : Get(h) \/ PassStep(h) \/ Enqueue(h) \/ Environment(h)
        \/ Crash

Spec == Init /\ [][Next]_vars

\* The reconciler goroutine keeps running, its queue is served in order, and
\* the ticker enqueues every resource again and again.
Fairness == \A h \in Hosts : /\ WF_vars(PassStep(h))
                              /\ SF_vars(Get(h))
                              /\ WF_vars(Enqueue(h))
FairSpec == Spec /\ Fairness

-----------------------------------------------------------------------------
(* Properties.                                                             *)

\* An Instance is reported as Provisioned only if its workflow succeeded on
\* the device: not because of a workflow of an earlier Instance of the host,
\* nor because of a state read before the Instance or the workflow changed
\* (instance.go, tryProvisionInstance).
ProvisionedMeansInstalled ==
  \A h \in Hosts : inst[h].prov = "Done" => installed[h]

\* Deleting an Instance leaves no workflow behind that would provision the
\* host, whatever crashed or failed in between: the Instance stays until the
\* workflow is gone (instance.go, reconcileInstance).
NoOrphanWorkflow == \A h \in Hosts : wf[h] # "none" => Exists(h)

\* A device whose workflow succeeded is not provisioned a second time for the
\* same Instance, unless a write to the Inventory failed (workflow.go,
\* CheckStatusOrRunProdWorkflow: "we already finished & removed workflow").
NotReprovisioned ==
  faults.inv = 0 => \A h \in Hosts : installed[h] => wf[h] \in {"none", "SUCCESS"}

\* "we already finished & removed workflow for Instance -> in this case we should
\* never get here" (workflow.go:84): the same, whatever fails.
NeverReprovisioned ==
  \A h \in Hosts : installed[h] => wf[h] \in {"none", "SUCCESS"}

\* An Instance reported as Failed keeps its failed workflow, untouched, until
\* the user deletes it: nothing is tried again (instance.go, handleErrorState:
\* "the only allowed path from the ERROR state is DELETED").
FailureIsFinal ==
  [][\A h \in Hosts :
       inst[h].prov = "Failed" /\ inst[h].des # "DELETED" =>
         /\ inst'[h].prov = "Failed"
         /\ wf'[h] = wf[h] /\ wf[h] \in {"FAILED", "TIMEOUT"}]_vars

\* Once an Instance is provisioned and RUNNING, no late write of the
\* reconciler takes it out of RUNNING while the user wants it to run.
ProvisionedStaysRunning ==
  [][\A h \in Hosts :
       inst[h].prov = "Done" /\ inst[h].cur = "RUNNING" /\ inst'[h].des = "RUNNING"
         => inst'[h].cur = "RUNNING"]_vars

\* The outcome of a workflow is reported, even if HRM, a crash or a failing call
\* interferes, unless the user or a deauthorization intervenes, or a success was
\* lost in a failing write and its workflow deleted.
OutcomeReported ==
  \A h \in Hosts : wf[h] \in {"SUCCESS", "FAILED", "TIMEOUT"} ~>
    \/ inst[h].prov \in {"Done", "Failed"}
    \/ wf[h] = "none" /\ faults.inv > 0
    \/ inst[h].des # "RUNNING" \/ Deauthorized(inst[h], host[h])

\* An Instance the user deletes disappears, whatever its state was.
DeletionCompletes ==
  \A h \in Hosts :
    inst[h].des = "DELETED" /\ inst[h].kind # "vendor" ~> ~Exists(h)

\* The workflow of a deauthorized host is removed (instance.go,
\* handleHostDeauthorized: "check if the provisioning workflow has been
\* removed and clean it up if not"), unless its failure was reported first or a
\* call to Kubernetes failed, which CheckWorkflowExist takes for no workflow.
DeauthorizedWorkflowRemoved ==
  \A h \in Hosts :
    Deauthorized(inst[h], host[h]) /\ inst[h].prov # "Failed" ~>
      \/ wf[h] = "none" \/ faults.ext > 0
      \/ inst[h].des # "RUNNING" \/ inst[h].prov = "Failed"

\* The statuses of the Instance of an invalidated host become idle, also when
\* the pass that would set them loses its write (instance_test.go: "Now
\* instance statuses should be updated to Unknown since Host is deauthorized").
DeauthorizedStatusIdle ==
  \A h \in Hosts :
    host[h].cur = "UNTRUSTED" /\ inst[h].des = "RUNNING" /\ ~StatusIdle(inst[h]) ~>
      StatusIdle(inst[h]) \/ inst[h].des # "RUNNING" \/ inst[h].prov = "Failed"

=============================================================================
