----------------------------- MODULE TinkWorker -----------------------------
(***************************************************************************)
(* The tink-worker of an edge node: it asks the Tinkerbell server for the  *)
(* state of its workflow and runs the actions, one container each, from    *)
(* where the workflow stands.  Calls to the server and to containerd fail, *)
(* the process crashes while its container goes on, the node loses power,  *)
(* and the last action reboots the node under the worker.                  *)
(***************************************************************************)
EXTENDS Naturals, FiniteSets

CONSTANTS
  N,              \* number of actions of the workflow
  Mine,           \* the actions of this worker; others belong to another one
  OnTimeout,      \* the actions with an OnTimeout command
  OnFailure,      \* the actions with an OnFailure command
  RebootActions,  \* the actions whose container asks for a reboot of the node
  PullRetries,    \* how often a failed pull of an image is tried again
  Boxes,          \* IDs of containers
  MaxFaults,      \* bound: how many calls fail
  MaxCrashes,     \* bound: how many crashes of the worker and power cycles
  None

Actions == 1..N

ASSUME ActionsAssumption ==
  /\ N \in Nat \ {0} /\ Mine \subseteq Actions
  /\ OnTimeout \subseteq Actions /\ OnFailure \subseteq Actions
  /\ RebootActions \subseteq Actions
ASSUME NoneNotBox == None \notin Boxes
ASSUME BoundsAssumption ==
  PullRetries \in Nat /\ MaxFaults \in Nat /\ MaxCrashes \in Nat

VARIABLES
  workflow, \* Tinkerbell server: the workflow and its current action
  worker,   \* what the worker is at, and the context it was sent
  box,      \* containerd: the containers
  done,     \* history: the actions a container of which has succeeded
  reboot,   \* /worker/reboot exists
  budget    \* faults and crashes so far

vars == <<workflow, worker, box, done, reboot, budget>>

States == {"PENDING", "RUNNING", "FAILED", "TIMEOUT", "SUCCESS"}

\* cur: the current action, 0 for none.
WorkflowType == [exists : BOOLEAN, cur : 0..N, st : States]

\* at: the next call; ctx: the workflow context; idx: the action at hand; id:
\* its container; tries: pulls so far; out: its outcome; reacted: a reaction to
\* the outcome was started.
Steps == {"contexts", "actions", "running", "pull", "create", "start", "wait",
          "react", "remove", "report", "gone"}
WorkerType ==
  [at : Steps, ctx : WorkflowType, idx : 0..N, id : Boxes \cup {None},
   tries : 0..PullRetries, out : States, reacted : {"no", "timeout", "failure"}]
NoContext == [exists |-> FALSE, cur |-> 0, st |-> "PENDING"]
IdleWorker == [at |-> "contexts", ctx |-> NoContext, idx |-> 0, id |-> None,
               tries |-> 0, out |-> "PENDING", reacted |-> "no"]

\* own: created since the worker last started.
BoxType == [idx : 0..N, st : {"free", "created", "running", "ok", "failed"},
            reaction : BOOLEAN, own : BOOLEAN]
NoBox == [idx |-> 0, st |-> "free", reaction |-> FALSE, own |-> FALSE]

TypeOK ==
  /\ workflow \in WorkflowType /\ worker \in WorkerType
  /\ box \in [Boxes -> BoxType] /\ done \in SUBSET Actions /\ reboot \in BOOLEAN
  /\ budget \in [faults : Nat, crashes : Nat]

Init ==
  /\ workflow = [exists |-> TRUE, cur |-> 0, st |-> "PENDING"]
  /\ worker = IdleWorker /\ box = [b \in Boxes |-> NoBox]
  /\ done = {} /\ reboot = FALSE
  /\ budget = [faults |-> 0, crashes |-> 0]

Fault == /\ budget.faults < MaxFaults
         /\ budget' = [budget EXCEPT !.faults = @ + 1]
NoFault == UNCHANGED budget

Goto(step) == worker' = [worker EXCEPT !.at = step]
serverSide == <<workflow, done, reboot>>

-----------------------------------------------------------------------------
(* Getting work.                                                           *)

\* GetWorkflowContexts, and the first context of the stream if there is one.
GetContexts ==
  /\ worker.at = "contexts" /\ workflow.exists
  /\ worker' = [IdleWorker EXCEPT !.at = "actions", !.ctx = workflow]
  /\ UNCHANGED <<serverSide, box, budget>>

\* An action that has timed out or failed is tried again.
FirstActionRetriesMutant(ctx) ==
  IF ctx.cur = 0 THEN 1
  ELSE IF ctx.st = "SUCCESS" THEN (IF ctx.cur = N THEN 0 ELSE ctx.cur + 1)
  ELSE ctx.cur

\* The action after the one that runs is next.
FirstActionSkipsMutant(ctx) ==
  IF ctx.cur = 0 THEN 1
  ELSE CASE ctx.st \in {"SUCCESS", "RUNNING"} /\ ctx.cur # N -> ctx.cur + 1
         [] ctx.st \in {"FAILED", "TIMEOUT", "SUCCESS"} -> 0
         [] OTHER -> ctx.cur

\* The action to begin with, 0 for none.
FirstAction(ctx) ==
  IF ctx.cur = 0 THEN 1
  ELSE CASE ctx.st = "SUCCESS" -> IF ctx.cur = N THEN 0 ELSE ctx.cur + 1
         [] ctx.st \in {"FAILED", "TIMEOUT"} -> 0
         [] OTHER -> ctx.cur

\* The worker turns to action i; that it runs is not reported when the context
\* says that the action which was current then was running.
Begin(i) ==
  worker' = [worker EXCEPT !.at = IF worker.ctx.st = "RUNNING" THEN "pull" ELSE "running",
                           !.idx = i, !.id = None, !.tries = 0,
                           !.out = "PENDING", !.reacted = "no"]

\* GetWorkflowActions; without a turn the stream's next context is read.
GetActions ==
  /\ worker.at = "actions"
  /\ \/ /\ Fault \/ (~workflow.exists /\ NoFault)
        /\ worker' = IdleWorker
     \/ /\ workflow.exists /\ NoFault
        /\ IF FirstAction(worker.ctx) \in Mine THEN Begin(FirstAction(worker.ctx))
           ELSE worker' = IdleWorker
  /\ UNCHANGED <<serverSide, box>>

-----------------------------------------------------------------------------
(* Reports to the server.                                                  *)

\* The server's side of ReportActionStatus: a report about an action that is
\* not the current one any more changes nothing.
Recorded(i, st) ==
  [workflow EXCEPT !.cur = IF i < workflow.cur THEN @ ELSE i,
                   !.st = IF i < workflow.cur THEN @ ELSE st]

\* reportActionStatus tries for ever; a report that failed may have been
\* recorded, and there is no answer but an error once the workflow is deleted.
ReportFails(i, st) ==
  /\ workflow.exists /\ Fault
  /\ workflow' \in {workflow, Recorded(i, st)}
  /\ UNCHANGED worker
Report(i, st) ==
  /\ workflow.exists /\ NoFault
  /\ workflow' = Recorded(i, st)

ReportRunning ==
  /\ worker.at = "running"
  /\ \/ ReportFails(worker.idx, "RUNNING")
     \/ Report(worker.idx, "RUNNING") /\ Goto("pull")
  /\ UNCHANGED <<box, done, reboot>>

\* The outcome, and what comes next: after a success the next action, if it is
\* for this worker.
ReportOutcome ==
  /\ worker.at = "report"
  /\ LET i == worker.idx
         st == worker.out IN
     \/ ReportFails(i, st)
     \/ /\ Report(i, st)
        /\ IF st = "SUCCESS" /\ i # N /\ i + 1 \in Mine THEN Begin(i + 1)
           ELSE worker' = IdleWorker
  /\ UNCHANGED <<box, done, reboot>>

-----------------------------------------------------------------------------
(* execute.                                                                *)

\* execute returns, after the removal of the container or before.
End(step, st) == worker' = [worker EXCEPT !.at = step, !.out = st]

\* The number of attempts has no limit.
PullImageForeverMutant ==
  /\ worker.at = "pull"
  /\ \/ NoFault /\ Goto("create")
     \/ Fault /\ worker' = [worker EXCEPT !.tries = @ + 1]
  /\ UNCHANGED <<serverSide, box>>

\* pullImageWithRetry.
PullImage ==
  /\ worker.at = "pull"
  /\ \/ NoFault /\ Goto("create")
     \/ /\ Fault
        /\ IF worker.tries = PullRetries THEN End("report", "FAILED")
           ELSE worker' = [worker EXCEPT !.tries = @ + 1]
  /\ UNCHANGED <<serverSide, box>>

New(b, st, reaction) ==
  box' = [box EXCEPT ![b] = [idx |-> worker.idx, st |-> st, reaction |-> reaction,
                             own |-> TRUE]]
Unused == {b \in Boxes : box[b].st = "free"}

\* Containers have random names, a left-over one is no obstacle.
CreateContainer ==
  /\ worker.at = "create"
  /\ \/ Fault /\ End("report", "FAILED") /\ UNCHANGED box
     \/ /\ NoFault
        /\ LET b == CHOOSE b \in Unused : TRUE IN
           /\ Unused # {} /\ New(b, "created", FALSE)
           /\ worker' = [worker EXCEPT !.at = "start", !.id = b]
  /\ UNCHANGED serverSide

\* A container that cannot be started is left behind.
StartContainer ==
  /\ worker.at = "start"
  /\ \/ Fault /\ End("report", "FAILED") /\ UNCHANGED box
     \/ /\ NoFault /\ Goto("wait")
        /\ box' = [box EXCEPT ![worker.id].st = "running"]
  /\ UNCHANGED serverSide

\* A container that exits counts as a success, whatever its exit code.
OutcomesMutant(b) ==
  IF box[b].st \in {"ok", "failed"} THEN {<<"SUCCESS", FALSE>>} ELSE {<<"TIMEOUT", TRUE>>}

\* The wait never ends by itself.
OutcomesNoTimeoutMutant(b) ==
  (IF box[b].st = "ok" THEN {<<"SUCCESS", FALSE>>} ELSE {})
    \cup (IF box[b].st = "failed" THEN {<<"FAILED", FALSE>>} ELSE {})

\* What WaitForContainer may return, with whether it is an error.  The deadline
\* may have passed whatever the container does, and then the channel of containerd
\* is ready as well, with an exit code other than 0.
Outcomes(b) ==
  {<<"TIMEOUT", TRUE>>, <<"FAILED", FALSE>>}
    \cup (IF box[b].st = "ok" THEN {<<"SUCCESS", FALSE>>} ELSE {})

\* The reaction of execute to the outcome; none to an error.
Reaction(st, err) ==
  IF err \/ st = "SUCCESS" THEN "no"
  ELSE IF st = "TIMEOUT" /\ worker.idx \in OnTimeout THEN "timeout"
  ELSE IF worker.idx \in OnFailure THEN "failure" ELSE "no"

WaitForContainer ==
  /\ worker.at = "wait"
  /\ \/ Fault /\ End("remove", "FAILED")
     \/ /\ NoFault
        /\ \E o \in Outcomes(worker.id) :
             worker' = [worker EXCEPT !.out = o[1], !.reacted = Reaction(o[1], o[2]),
                          !.at = IF Reaction(o[1], o[2]) = "no" THEN "remove" ELSE "react"]
  /\ UNCHANGED <<serverSide, box>>

\* executeReaction: errors are only logged.  The goroutine that waits for the
\* container may do so before it is started, and then waits for nothing.
ExecuteReaction ==
  /\ worker.at = "react" /\ Goto("remove")
  /\ \/ Fault /\ UNCHANGED box
     \/ /\ NoFault
        /\ \E st \in {"running", "ok", "failed"} :
             Unused # {} /\ New(CHOOSE b \in Unused : TRUE, st, TRUE)
  /\ UNCHANGED serverSide

\* The deferred RemoveContainer kills and deletes; its errors are only logged.
RemoveContainer ==
  /\ worker.at = "remove" /\ Goto("report")
  /\ LET killed == IF box[worker.id].st = "running" THEN "failed" ELSE box[worker.id].st IN
     \/ Fault /\ box' \in {box, [box EXCEPT ![worker.id].st = killed]}
     \/ NoFault /\ box' = [box EXCEPT ![worker.id] = NoBox]
  /\ UNCHANGED serverSide

-----------------------------------------------------------------------------
(* The environment.                                                        *)

\* A container ends; the one of a reboot action has made /worker/reboot.
Exit(b) ==
  /\ box[b].st = "running"
  /\ \E st \in {"ok", "failed"} :
       /\ box' = [box EXCEPT ![b].st = st]
       /\ done' = IF st = "ok" /\ ~box[b].reaction THEN done \cup {box[b].idx} ELSE done
       /\ reboot' = (reboot \/ (st = "ok" /\ box[b].idx \in RebootActions))
  /\ UNCHANGED <<workflow, worker, budget>>

\* rebootWatch: the node boots from its disk, without the worker.
RebootWatch ==
  /\ reboot /\ worker.at # "gone"
  /\ worker' = [IdleWorker EXCEPT !.at = "gone"]
  /\ box' = [b \in Boxes |-> NoBox]
  /\ UNCHANGED <<serverSide, budget>>

Crashes == /\ worker.at # "gone" /\ budget.crashes < MaxCrashes
           /\ budget' = [budget EXCEPT !.crashes = @ + 1]
           /\ worker' = IdleWorker

\* The worker restarts, its containers go on.
Crash ==
  /\ Crashes
  /\ box' = [b \in Boxes |-> [box[b] EXCEPT !.own = FALSE]]
  /\ UNCHANGED serverSide

\* The node restarts; its containers and files were in memory.
PowerCycle ==
  /\ Crashes
  /\ box' = [b \in Boxes |-> NoBox] /\ reboot' = FALSE
  /\ UNCHANGED <<workflow, done>>

\* The Onboarding Manager deletes the workflow.
DeleteWorkflow ==
  /\ workflow.exists
  /\ workflow' = [workflow EXCEPT !.exists = FALSE]
  /\ UNCHANGED <<worker, box, done, reboot, budget>>

\* The other worker does its actions.
OtherWorker ==
  /\ workflow.exists
  /\ LET i == IF workflow.st \in {"PENDING", "SUCCESS"} THEN workflow.cur + 1
              ELSE workflow.cur IN
     /\ i \in Actions \ Mine
     /\ \/ /\ workflow.st \in {"PENDING", "SUCCESS"}
           /\ workflow' = [workflow EXCEPT !.cur = i, !.st = "RUNNING"] /\ UNCHANGED done
        \/ /\ workflow.st = "RUNNING" /\ i \notin done
           /\ done' = done \cup {i} /\ UNCHANGED workflow
        \/ /\ workflow.st = "RUNNING" /\ UNCHANGED done
           /\ \E st \in {"FAILED"} \cup (IF i \in done THEN {"SUCCESS"} ELSE {}) :
                workflow' = [workflow EXCEPT !.st = st]
  /\ UNCHANGED <<worker, box, reboot, budget>>

-----------------------------------------------------------------------------
WorkerStep ==
  \/ GetContexts \/ GetActions \/ ReportRunning \/ ReportOutcome
  \/ PullImage \/ CreateContainer \/ StartContainer \/ WaitForContainer
  \/ ExecuteReaction \/ RemoveContainer

Next ==
  \/ WorkerStep \/ RebootWatch \/ Crash \/ PowerCycle
  \/ DeleteWorkflow \/ OtherWorker
  \/ \E b \in Boxes : Exit(b)

Spec == Init /\ [][Next]_vars
FairSpec == Spec /\ WF_vars(WorkerStep) /\ WF_vars(OtherWorker)

-----------------------------------------------------------------------------
(* Properties.                                                             *)

Running(b) == box[b].st = "running" /\ ~box[b].reaction

\* An action runs only after a container of every action before it has
\* succeeded, and the node reboots only after every other action, through
\* crashes, lost reports and resumed workflows (ProcessWorkflowActions).
InOrder ==
  /\ \A b \in Boxes : Running(b) => 1..(box[b].idx - 1) \subseteq done
  /\ worker.at = "gone" => Actions \ RebootActions \subseteq done

\* Containers of two actions run at the same time only if a crash of the worker
\* left one of them behind: a failed removal or report leads to no overlap.
OverlapOnlyAfterCrash ==
  \A b, c \in Boxes :
    b # c /\ Running(b) /\ Running(c) => ~box[b].own \/ ~box[c].own

\* The worker implements the workflow its server knows: the current action and its
\* state move on in order and never back, a reported success is of an action that
\* was done, a failure is final, whatever calls fail and wherever a worker resumes
\* (ProcessWorkflowActions, reportActionStatus; workflow.proto:49, 55).
W == INSTANCE Workflow WITH
       exists <- workflow.exists, cur <- workflow.cur, st <- workflow.st
ImplementsWorkflow == W!Spec

\* A workflow comes to an end, whatever calls fail and whenever the worker
\* restarts, unless it is deleted or its last action reboots the node under the
\* worker before the outcome is reported (ProcessWorkflowActions, execute).
Ended == \/ workflow.st \in {"FAILED", "TIMEOUT"}
         \/ workflow.st = "SUCCESS" /\ workflow.cur = N
WorkflowEnds == <>(Ended \/ ~workflow.exists \/ worker.at = "gone")

\* "executes special case OnTimeout/OnFailure actions" (worker.go:286): an action
\* that has timed out is reported after its OnTimeout command was started.
OnTimeoutRuns ==
  worker.at = "report" /\ worker.out = "TIMEOUT" /\ worker.idx \in OnTimeout
    => worker.reacted = "timeout"

=============================================================================
