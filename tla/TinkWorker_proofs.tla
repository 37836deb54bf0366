-------------------------- MODULE TinkWorker_proofs --------------------------
(***************************************************************************)
(* TinkWorker implements Workflow, for every number of actions, every      *)
(* distribution over workers and any faults, crashes and containers.       *)
(***************************************************************************)
EXTENDS TinkWorker, TLAPS

\* The workflow says only what was done.
Reached ==
  /\ workflow.st = "PENDING" <=> workflow.cur = 0
  /\ 1..(workflow.cur - 1) \subseteq done
  /\ workflow.st = "SUCCESS" => workflow.cur \in done

\* It is the turn of action i, whether that was reported or not.
Turn(i) ==
  \/ workflow.cur = i - 1 /\ workflow.st \in {"PENDING", "SUCCESS"}
  \/ workflow.cur = i /\ workflow.st = "RUNNING"

\* The outcome was recorded although its report has failed; the workflow may have
\* gone on with another worker.
Reported ==
  \/ workflow.cur = worker.idx /\ workflow.st = worker.out
  \/ worker.out = "SUCCESS" /\ workflow.cur > worker.idx /\ worker.idx + 1 \notin Mine

Busy == worker.at \in Steps \ {"contexts", "actions", "gone"}

\* A context that gives this worker a turn is not stale: nobody else can move the
\* workflow on.
ContextInv ==
  worker.at = "actions" =>
    /\ worker.ctx.st = "PENDING" <=> worker.ctx.cur = 0
    /\ FirstAction(worker.ctx) \in Mine
         => workflow.cur = worker.ctx.cur /\ workflow.st = worker.ctx.st

TurnInv ==
  Busy => /\ worker.idx \in Mine /\ 1..(worker.idx - 1) \subseteq done
          /\ Turn(worker.idx) \/ (worker.at = "report" /\ Reported)

OutcomeInv ==
  worker.at \in {"react", "remove", "report"} =>
    /\ worker.out \in {"SUCCESS", "FAILED", "TIMEOUT"}
    /\ worker.out = "SUCCESS" => worker.idx \in done

IdInv ==
  worker.at \in {"start", "wait", "react", "remove"} =>
    /\ worker.id \in Boxes /\ box[worker.id].st # "free"
    /\ box[worker.id].idx = worker.idx /\ ~box[worker.id].reaction

BoxInv ==
  \A b \in Boxes : box[b].st # "free" =>
    /\ box[b].idx \in Actions /\ 1..(box[b].idx - 1) \subseteq done
    /\ box[b].st = "ok" /\ ~box[b].reaction => box[b].idx \in done

IInv == TypeOK /\ Reached /\ ContextInv /\ TurnInv /\ OutcomeInv /\ IdInv /\ BoxInv

-----------------------------------------------------------------------------
LEMMA ChosenUnused ==
  Unused # {} => (CHOOSE b \in Unused : TRUE) \in Boxes
                 /\ box[CHOOSE b \in Unused : TRUE].st = "free"
BY DEF Unused

LEMMA IdleType == IdleWorker \in WorkerType /\ IdleWorker.at = "contexts"
BY ActionsAssumption, BoundsAssumption
DEF IdleWorker, WorkerType, NoContext, WorkflowType, States, Steps

LEMMA NoBoxType == NoBox \in BoxType /\ NoBox.st = "free"
BY ActionsAssumption DEF NoBox, BoxType

LEMMA FirstActionMine ==
  ASSUME NEW ctx \in WorkflowType, FirstAction(ctx) \in Mine, ctx.st = "PENDING" <=> ctx.cur = 0
  PROVE  /\ FirstAction(ctx) \in Actions
         /\ \/ FirstAction(ctx) = ctx.cur + 1 /\ ctx.st \in {"PENDING", "SUCCESS"}
            \/ FirstAction(ctx) = ctx.cur /\ ctx.st = "RUNNING"
BY ActionsAssumption DEF FirstAction, WorkflowType, States, Actions

\* Initially.
LEMMA InitIInv == Init => IInv
<1> SUFFICES ASSUME Init PROVE IInv
  OBVIOUS
<1>1. TypeOK
  <2>1. workflow \in WorkflowType
    BY ActionsAssumption DEF Init, WorkflowType, States
  <2>2. budget \in [faults : Nat, crashes : Nat]
    BY DEF Init
  <2>3. box \in [Boxes -> BoxType]
    BY NoBoxType DEF Init
  <2> QED
    BY <2>1, <2>2, <2>3, IdleType DEF Init, TypeOK
<1>2. worker.at = "contexts" /\ \A b \in Boxes : box[b].st = "free"
  BY IdleType, NoBoxType DEF Init
<1>3. Reached
  BY DEF Init, Reached
<1> QED
  BY <1>1, <1>2, <1>3 DEF IInv, ContextInv, TurnInv, Busy, OutcomeInv, IdInv, BoxInv

-----------------------------------------------------------------------------
(* Types.                                                                  *)

LEMMA BeginType ==
  ASSUME TypeOK, NEW i \in Actions, Begin(i)
  PROVE  worker' \in WorkerType
<1> DEFINE step == IF worker.ctx.st = "RUNNING" THEN "pull" ELSE "running"
<1>1. step \in Steps /\ "PENDING" \in States
  BY DEF Steps, States
<1>2. i \in 0..N /\ 0 \in 0..PullRetries
  BY BoundsAssumption, ActionsAssumption DEF Actions
<1>3. worker' = [worker EXCEPT !.at = step, !.idx = i, !.id = None, !.tries = 0,
                               !.out = "PENDING", !.reacted = "no"]
  BY DEF Begin
<1> HIDE DEF step
<1> QED
  BY <1>1, <1>2, <1>3 DEF TypeOK, WorkerType

LEMMA ReportType ==
  ASSUME TypeOK, NEW i \in Actions, NEW st \in States
  PROVE  Recorded(i, st) \in WorkflowType
<1> DEFINE c == IF i < workflow.cur THEN workflow.cur ELSE i
           s == IF i < workflow.cur THEN workflow.st ELSE st
<1>1. c \in 0..N /\ s \in States
  BY ActionsAssumption DEF TypeOK, WorkflowType, Actions
<1>2. Recorded(i, st) = [workflow EXCEPT !.cur = c, !.st = s]
  BY DEF Recorded
<1> HIDE DEF c, s
<1> QED
  BY <1>1, <1>2 DEF TypeOK, WorkflowType

LEMMA OutcomeCases ==
  ASSUME NEW b, NEW o \in Outcomes(b)
  PROVE  o[1] \in {"SUCCESS", "FAILED", "TIMEOUT"} /\ (o[1] = "SUCCESS" => box[b].st = "ok")
<1>1. o = <<"TIMEOUT", TRUE>> \/ o = <<"FAILED", FALSE>>
        \/ (o = <<"SUCCESS", FALSE>> /\ box[b].st = "ok")
  BY Zenon DEF Outcomes
<1>2. CASE o = <<"TIMEOUT", TRUE>>
  BY <1>2
<1>3. CASE o = <<"FAILED", FALSE>>
  BY <1>3
<1>4. CASE o = <<"SUCCESS", FALSE>> /\ box[b].st = "ok"
  BY <1>4
<1> QED
  BY <1>1, <1>2, <1>3, <1>4

LEMMA NewType ==
  ASSUME TypeOK, NEW b \in Boxes, NEW st \in {"created", "running", "ok", "failed"},
         NEW reaction \in BOOLEAN, New(b, st, reaction)
  PROVE  box' \in [Boxes -> BoxType]
<1> DEFINE new == [idx |-> worker.idx, st |-> st, reaction |-> reaction, own |-> TRUE]
<1>1. new \in BoxType
  BY DEF TypeOK, WorkerType, BoxType
<1>2. box' = [box EXCEPT ![b] = new]
  BY DEF New
<1> HIDE DEF new
<1> QED
  BY <1>1, <1>2 DEF TypeOK

LEMMA TypesOfFaults ==
  ASSUME TypeOK, Fault \/ NoFault
  PROVE  budget' \in [faults : Nat, crashes : Nat]
BY DEF TypeOK, Fault, NoFault

LEMMA TypeOKStep == IInv /\ [Next]_vars => TypeOK'
<1> SUFFICES ASSUME IInv, [Next]_vars PROVE TypeOK'
  OBVIOUS
<1>0. TypeOK
  BY DEF IInv
<1>1. ASSUME GetContexts PROVE TypeOK'
  <2>1. worker' \in WorkerType
    BY <1>0, <1>1, IdleType DEF GetContexts, TypeOK, WorkerType, Steps
  <2> QED
    BY <1>0, <1>1, <2>1 DEF GetContexts, serverSide, TypeOK
<1>2. ASSUME GetActions PROVE TypeOK'
  <2>1. worker' \in WorkerType
    BY <1>0, <1>2, IdleType, BeginType, ActionsAssumption DEF GetActions
  <2> QED
    BY <1>0, <1>2, <2>1, TypesOfFaults DEF GetActions, serverSide, TypeOK
<1>3. ASSUME ReportRunning PROVE TypeOK'
  <2>1. worker.idx \in Actions
    BY <1>3, ActionsAssumption DEF ReportRunning, IInv, TurnInv, Busy, Steps
  <2>2. workflow' \in WorkflowType
    BY <1>0, <1>3, <2>1, ReportType DEF ReportRunning, ReportFails, Report, TypeOK, States
  <2>3. worker' \in WorkerType
    BY <1>0, <1>3 DEF ReportRunning, ReportFails, Goto, TypeOK, WorkerType, Steps
  <2> QED
    BY <1>0, <1>3, <2>2, <2>3, TypesOfFaults DEF ReportRunning, ReportFails, Report, TypeOK
<1>4. ASSUME ReportOutcome PROVE TypeOK'
  <2>1. worker.idx \in Actions /\ worker.out \in States
    BY <1>0, <1>4, ActionsAssumption
    DEF ReportOutcome, IInv, TurnInv, Busy, Steps, TypeOK, WorkerType
  <2>2. workflow' \in WorkflowType
    BY <1>0, <1>4, <2>1, ReportType DEF ReportOutcome, ReportFails, Report, TypeOK
  <2>3. worker' \in WorkerType
    <3>1. CASE UNCHANGED worker \/ worker' = IdleWorker
      BY <1>0, <3>1, IdleType DEF TypeOK
    <3>2. CASE worker.idx + 1 \in Mine /\ Begin(worker.idx + 1)
      BY <1>0, <3>2, BeginType, ActionsAssumption
    <3> QED
      BY <1>4, <3>1, <3>2 DEF ReportOutcome, ReportFails
  <2> QED
    BY <1>0, <1>4, <2>2, <2>3, TypesOfFaults DEF ReportOutcome, ReportFails, Report, TypeOK
<1>5. ASSUME PullImage PROVE TypeOK'
  <2>1. worker' \in WorkerType
    <3>1. CASE Goto("create") \/ End("report", "FAILED")
      BY <1>0, <3>1 DEF Goto, End, TypeOK, WorkerType, Steps, States
    <3>2. CASE worker.tries # PullRetries /\ worker' = [worker EXCEPT !.tries = worker.tries + 1]
      <4>1. worker.tries + 1 \in 0..PullRetries
        BY <1>0, <3>2, BoundsAssumption DEF TypeOK, WorkerType
      <4> QED
        BY <1>0, <3>2, <4>1 DEF TypeOK, WorkerType
    <3> QED
      BY <1>5, <3>1, <3>2 DEF PullImage
  <2> QED
    BY <1>0, <1>5, <2>1, TypesOfFaults DEF PullImage, serverSide, TypeOK
<1>6. ASSUME CreateContainer PROVE TypeOK'
  <2>1. worker' \in WorkerType
    BY <1>0, <1>6, ChosenUnused DEF CreateContainer, End, TypeOK, WorkerType, Steps, States
  <2>2. box' \in [Boxes -> BoxType]
    <3>1. \A b \in Boxes : New(b, "created", FALSE) => box' \in [Boxes -> BoxType]
      BY <1>0, NewType
    <3> QED
      BY <1>0, <1>6, <3>1, ChosenUnused DEF CreateContainer, TypeOK
  <2> QED
    BY <1>0, <1>6, <2>1, <2>2, TypesOfFaults DEF CreateContainer, serverSide, TypeOK
<1>7. ASSUME StartContainer PROVE TypeOK'
  <2>1. worker' \in WorkerType
    BY <1>0, <1>7 DEF StartContainer, Goto, End, TypeOK, WorkerType, Steps, States
  <2>2. box' \in [Boxes -> BoxType]
    BY <1>0, <1>7 DEF StartContainer, TypeOK, BoxType
  <2> QED
    BY <1>0, <1>7, <2>1, <2>2, TypesOfFaults DEF StartContainer, serverSide, TypeOK
<1>8. ASSUME WaitForContainer PROVE TypeOK'
  <2>1. worker' \in WorkerType
    <3>1. \A o \in Outcomes(worker.id) : o[1] \in States
      BY OutcomeCases DEF States
    <3>2. ASSUME NEW o PROVE Reaction(o[1], o[2]) \in {"no", "timeout", "failure"}
      BY DEF Reaction
    <3> QED
      BY <1>0, <1>8, <3>1, <3>2 DEF WaitForContainer, End, TypeOK, WorkerType, Steps, States
  <2> QED
    BY <1>0, <1>8, <2>1, TypesOfFaults DEF WaitForContainer, serverSide, TypeOK
<1>9. ASSUME ExecuteReaction PROVE TypeOK'
  <2>1. worker' \in WorkerType
    BY <1>0, <1>9 DEF ExecuteReaction, Goto, TypeOK, WorkerType, Steps
  <2>2. box' \in [Boxes -> BoxType]
    <3>1. \A b \in Boxes : \A st \in {"running", "ok", "failed"} :
             New(b, st, TRUE) => box' \in [Boxes -> BoxType]
      BY <1>0, NewType
    <3> QED
      BY <1>0, <1>9, <3>1, ChosenUnused DEF ExecuteReaction, TypeOK
  <2> QED
    BY <1>0, <1>9, <2>1, <2>2, TypesOfFaults DEF ExecuteReaction, serverSide, TypeOK
<1>10. ASSUME RemoveContainer PROVE TypeOK'
  <2>1. worker' \in WorkerType
    BY <1>0, <1>10 DEF RemoveContainer, Goto, TypeOK, WorkerType, Steps
  <2>2. worker.id \in Boxes
    BY <1>10 DEF RemoveContainer, IInv, IdInv
  <2>3. box' \in [Boxes -> BoxType]
    BY <1>0, <1>10, <2>2, NoBoxType DEF RemoveContainer, TypeOK, BoxType
  <2> QED
    BY <1>0, <1>10, <2>1, <2>3, TypesOfFaults DEF RemoveContainer, serverSide, TypeOK
<1>11. ASSUME RebootWatch PROVE TypeOK'
  <2>1. worker' \in WorkerType
    BY <1>11, IdleType DEF RebootWatch, WorkerType, Steps
  <2> QED
    BY <1>0, <1>11, <2>1, NoBoxType DEF RebootWatch, serverSide, TypeOK
<1>12. ASSUME Crash \/ PowerCycle PROVE TypeOK'
  <2>1. box' \in [Boxes -> BoxType]
    <3>1. CASE Crash
      BY <1>0, <3>1 DEF Crash, TypeOK, BoxType
    <3>2. CASE PowerCycle
      BY <3>2, NoBoxType DEF PowerCycle
    <3> QED
      BY <1>12, <3>1, <3>2
  <2>2. budget' \in [faults : Nat, crashes : Nat]
    BY <1>0, <1>12 DEF Crash, PowerCycle, Crashes, TypeOK
  <2> QED
    BY <1>0, <1>12, <2>1, <2>2, IdleType DEF Crash, PowerCycle, Crashes, serverSide, TypeOK
<1>13. ASSUME DeleteWorkflow PROVE TypeOK'
  BY <1>0, <1>13 DEF DeleteWorkflow, TypeOK, WorkflowType
<1>14. ASSUME OtherWorker PROVE TypeOK'
  <2>1. workflow' \in WorkflowType
    <3>1. {"FAILED", "SUCCESS", "RUNNING"} \subseteq States
      BY DEF States
    <3>2. PICK i \in Actions :
             \/ workflow' = [workflow EXCEPT !.cur = i, !.st = "RUNNING"]
             \/ workflow' = workflow
             \/ \E st \in {"FAILED"} \cup (IF i \in done THEN {"SUCCESS"} ELSE {}) :
                  workflow' = [workflow EXCEPT !.st = st]
      BY <1>14 DEF OtherWorker
    <3>3. i \in 0..N
      BY ActionsAssumption DEF Actions
    <3>4. CASE workflow' = [workflow EXCEPT !.cur = i, !.st = "RUNNING"]
      BY <1>0, <3>1, <3>3, <3>4 DEF TypeOK, WorkflowType
    <3>5. CASE workflow' = workflow
      BY <1>0, <3>5 DEF TypeOK
    <3>6. ASSUME NEW st \in {"FAILED", "SUCCESS"}, workflow' = [workflow EXCEPT !.st = st]
          PROVE  workflow' \in WorkflowType
      BY <1>0, <3>1, <3>6 DEF TypeOK, WorkflowType
    <3> QED
      BY <3>2, <3>4, <3>5, <3>6
  <2>2. done' \in SUBSET Actions
    BY <1>0, <1>14 DEF OtherWorker, TypeOK
  <2> QED
    BY <1>0, <1>14, <2>1, <2>2 DEF OtherWorker, TypeOK
<1>15. ASSUME NEW b \in Boxes, Exit(b) PROVE TypeOK'
  <2>1. box' \in [Boxes -> BoxType]
    BY <1>0, <1>15 DEF Exit, TypeOK, BoxType
  <2>2. done' \in SUBSET Actions
    BY <1>0, <1>15 DEF Exit, IInv, BoxInv, TypeOK
  <2> QED
    BY <1>0, <1>15, <2>1, <2>2 DEF Exit, TypeOK
<1>16. ASSUME UNCHANGED vars PROVE TypeOK'
  BY <1>0, <1>16 DEF vars, TypeOK
<1> QED
  BY <1>1, <1>2, <1>3, <1>4, <1>5, <1>6, <1>7, <1>8, <1>9, <1>10, <1>11, <1>12, <1>13,
     <1>14, <1>15, <1>16 DEF Next, WorkerStep

-----------------------------------------------------------------------------
(* Every step is one of Workflow, or leaves its variables alone.           *)

WVars == <<workflow.exists, workflow.cur, workflow.st, done>>

LEMMA RecordTurn ==
  ASSUME TypeOK, NEW i \in Actions, Turn(i), NEW st, workflow' = Recorded(i, st)
  PROVE  workflow'.cur = i /\ workflow'.st = st /\ workflow'.exists = workflow.exists
<1>1. ~(i < workflow.cur)
  BY ActionsAssumption DEF Turn, TypeOK, WorkflowType, Actions
<1>2. workflow' = [workflow EXCEPT !.cur = i, !.st = st]
  BY <1>1 DEF Recorded
<1> QED
  BY <1>2 DEF TypeOK, WorkflowType

LEMMA RecordReported ==
  ASSUME TypeOK, worker.idx \in Actions, Reported, workflow' = Recorded(worker.idx, worker.out)
  PROVE  workflow'.cur = workflow.cur /\ workflow'.st = workflow.st
         /\ workflow'.exists = workflow.exists
<1>1. CASE worker.idx < workflow.cur
  <2>1. workflow' = [workflow EXCEPT !.cur = workflow.cur, !.st = workflow.st]
    BY <1>1 DEF Recorded
  <2> QED
    BY <2>1 DEF TypeOK, WorkflowType
<1>2. CASE ~(worker.idx < workflow.cur)
  <2>1. workflow.cur = worker.idx /\ workflow.st = worker.out
    BY <1>2, ActionsAssumption DEF Reported, TypeOK, WorkflowType, Actions
  <2>2. workflow' = [workflow EXCEPT !.cur = worker.idx, !.st = worker.out]
    BY <1>2 DEF Recorded
  <2> QED
    BY <2>1, <2>2 DEF TypeOK, WorkflowType
<1> QED
  BY <1>1, <1>2

LEMMA RecordRefines ==
  ASSUME TypeOK, NEW i \in Actions, Turn(i), workflow.exists, UNCHANGED done,
         NEW st \in {"RUNNING", "SUCCESS", "FAILED", "TIMEOUT"}, st = "SUCCESS" => i \in done,
         workflow' = Recorded(i, st)
  PROVE  W!Report
<1>1. workflow'.cur = i /\ workflow'.st = st /\ workflow'.exists = workflow.exists
  BY RecordTurn
<1>2. i \in 1..N /\ workflow.st \notin W!Final
  BY DEF Actions, Turn, W!Final
<1>3. i = IF workflow.st \in {"PENDING", "SUCCESS"} THEN workflow.cur + 1 ELSE workflow.cur
  BY <1>2, ActionsAssumption DEF Turn, TypeOK, WorkflowType
<1> QED
  BY <1>1, <1>2, <1>3 DEF W!Report

LEMMA StepRefines == IInv /\ [Next]_vars => [W!Next]_WVars
<1> SUFFICES ASSUME IInv, [Next]_vars PROVE [W!Next]_WVars
  OBVIOUS
<1>0. TypeOK
  BY DEF IInv
<1>1. CASE UNCHANGED <<workflow, done>>
  BY <1>1 DEF WVars
<1>2. ASSUME ReportRunning PROVE [W!Next]_WVars
  <2>1. worker.idx \in Actions /\ Turn(worker.idx)
    BY <1>2, ActionsAssumption DEF ReportRunning, IInv, TurnInv, Busy, Steps
  <2>2. workflow.exists /\ UNCHANGED done
    BY <1>2 DEF ReportRunning, ReportFails, Report
  <2>3. CASE workflow' = workflow
    BY <2>2, <2>3 DEF WVars
  <2>4. CASE workflow' = Recorded(worker.idx, "RUNNING")
    BY <1>0, <2>1, <2>2, <2>4, RecordRefines DEF W!Next
  <2> QED
    BY <1>2, <2>3, <2>4 DEF ReportRunning, ReportFails, Report
<1>3. ASSUME ReportOutcome PROVE [W!Next]_WVars
  <2>1. /\ worker.idx \in Actions /\ (Turn(worker.idx) \/ Reported)
        /\ worker.out \in {"SUCCESS", "FAILED", "TIMEOUT"}
        /\ (worker.out = "SUCCESS" => worker.idx \in done)
    BY <1>3, ActionsAssumption DEF ReportOutcome, IInv, TurnInv, OutcomeInv, Busy, Steps
  <2>2. workflow.exists /\ UNCHANGED done
    BY <1>3 DEF ReportOutcome, ReportFails, Report
  <2>3. CASE workflow' = workflow
    BY <2>2, <2>3 DEF WVars
  <2>4. ASSUME workflow' = Recorded(worker.idx, worker.out), Turn(worker.idx)
        PROVE  [W!Next]_WVars
    <3>1. worker.idx \in Actions /\ (worker.out = "SUCCESS" => worker.idx \in done)
          /\ worker.out \in {"RUNNING", "SUCCESS", "FAILED", "TIMEOUT"}
      BY <2>1
    <3>2. W!Report
      BY <1>0, <2>2, <2>4, <3>1, RecordRefines
    <3> QED
      BY <3>2 DEF W!Next
  <2>5. ASSUME workflow' = Recorded(worker.idx, worker.out), Reported
        PROVE  [W!Next]_WVars
    <3>1. workflow'.cur = workflow.cur /\ workflow'.st = workflow.st
          /\ workflow'.exists = workflow.exists
      BY <1>0, <2>1, <2>5, RecordReported
    <3> QED
      BY <2>2, <3>1 DEF WVars
  <2> QED
    BY <1>3, <2>1, <2>3, <2>4, <2>5 DEF ReportOutcome, ReportFails, Report
<1>4. ASSUME DeleteWorkflow PROVE [W!Next]_WVars
  <2>1. workflow'.cur = workflow.cur /\ workflow'.st = workflow.st /\ ~workflow'.exists
    BY <1>0, <1>4 DEF DeleteWorkflow, TypeOK, WorkflowType
  <2> QED
    BY <1>4, <2>1 DEF DeleteWorkflow, W!Next, W!Delete
<1>5. ASSUME OtherWorker PROVE [W!Next]_WVars
  <2> DEFINE i == IF workflow.st \in {"PENDING", "SUCCESS"} THEN workflow.cur + 1 ELSE workflow.cur
  <2>1. i \in 1..N /\ workflow.exists
    BY <1>5 DEF OtherWorker, Actions
  <2>2. CASE /\ workflow.st \in {"PENDING", "SUCCESS"} /\ UNCHANGED done
             /\ workflow' = [workflow EXCEPT !.cur = i, !.st = "RUNNING"]
    <3>1. workflow'.cur = i /\ workflow'.st = "RUNNING" /\ workflow'.exists = workflow.exists
      BY <1>0, <2>2 DEF TypeOK, WorkflowType
    <3> QED
      BY <2>1, <2>2, <3>1 DEF W!Next, W!Report, W!Final
  <2>3. CASE workflow.st = "RUNNING" /\ done' = done \cup {i} /\ UNCHANGED workflow
    <3>1. 1..(i - 1) \subseteq done
      BY <2>3 DEF IInv, Reached
    <3> QED
      BY <2>1, <2>3, <3>1 DEF W!Next, W!Do
  <2>4. ASSUME NEW st \in {"FAILED", "SUCCESS"}, st = "SUCCESS" => i \in done, UNCHANGED done,
               workflow.st = "RUNNING", workflow' = [workflow EXCEPT !.st = st]
        PROVE  [W!Next]_WVars
    <3>1. workflow'.cur = i /\ workflow'.st = st /\ workflow'.exists = workflow.exists
      BY <1>0, <2>4 DEF TypeOK, WorkflowType
    <3> QED
      BY <2>1, <2>4, <3>1 DEF W!Next, W!Report, W!Final
  <2> QED
    BY <1>5, <2>2, <2>3, <2>4 DEF OtherWorker
<1>6. ASSUME NEW b \in Boxes, Exit(b) PROVE [W!Next]_WVars
  <2>1. CASE UNCHANGED done
    BY <1>6, <2>1 DEF Exit, WVars
  <2>2. CASE ~box[b].reaction /\ done' = done \cup {box[b].idx}
    <3>1. box[b].idx \in 1..N /\ 1..(box[b].idx - 1) \subseteq done
      BY <1>6, <2>2 DEF Exit, IInv, BoxInv, Actions
    <3> QED
      BY <1>6, <2>2, <3>1 DEF Exit, W!Next, W!Do
  <2> QED
    BY <1>6, <2>1, <2>2 DEF Exit
<1> QED
  BY <1>1, <1>2, <1>3, <1>4, <1>5, <1>6
  DEF Next, WorkerStep, GetContexts, GetActions, PullImage, CreateContainer, StartContainer,
      WaitForContainer, ExecuteReaction, RemoveContainer, RebootWatch, Crash, PowerCycle,
      serverSide, vars

LEMMA ReachedStep == IInv /\ [Next]_vars => Reached'
<1> SUFFICES ASSUME IInv, [Next]_vars PROVE Reached'
  OBVIOUS
<1>0. TypeOK /\ Reached /\ [W!Next]_WVars
  BY StepRefines DEF IInv
<1>1. CASE UNCHANGED WVars
  BY <1>0, <1>1 DEF WVars, Reached
<1>2. ASSUME W!Delete \/ \E i \in 1..N : W!Do(i) PROVE Reached'
  BY <1>0, <1>2 DEF W!Delete, W!Do, Reached
<1>3. ASSUME W!Report, workflow.st \in {"PENDING", "SUCCESS"} PROVE Reached'
  <2>1. workflow.cur \in Nat /\ workflow'.cur = workflow.cur + 1 /\ done' = done
    BY <1>0, <1>3, ActionsAssumption DEF W!Report, TypeOK, WorkflowType
  <2>2. workflow'.st # "PENDING" /\ (workflow'.st = "SUCCESS" => workflow'.cur \in done)
    BY <1>3, <2>1 DEF W!Report
  <2>3. 1..workflow.cur \subseteq done
    BY <1>0, <1>3, <2>1 DEF Reached
  <2> QED
    BY <2>1, <2>2, <2>3 DEF Reached
<1>4. ASSUME W!Report, workflow.st \notin {"PENDING", "SUCCESS"} PROVE Reached'
  <2>1. workflow'.cur = workflow.cur /\ done' = done /\ workflow.st # "PENDING"
    BY <1>4 DEF W!Report
  <2>2. workflow'.st # "PENDING" /\ (workflow'.st = "SUCCESS" => workflow'.cur \in done)
    BY <1>4, <2>1 DEF W!Report
  <2> QED
    BY <1>0, <2>1, <2>2 DEF Reached
<1> QED
  BY <1>0, <1>1, <1>2, <1>3, <1>4 DEF W!Next

\* What was done stays done.
LEMMA DoneGrows == [Next]_vars => done \subseteq done'
BY DEF Next, WorkerStep, GetContexts, GetActions, ReportRunning, ReportOutcome, PullImage,
       CreateContainer, StartContainer, WaitForContainer, ExecuteReaction, RemoveContainer,
       RebootWatch, Crash, PowerCycle, DeleteWorkflow, OtherWorker, Exit, serverSide, vars

-----------------------------------------------------------------------------
(* Containers.                                                             *)

LEMMA BoxInvStep == IInv /\ [Next]_vars => BoxInv'
<1> SUFFICES ASSUME IInv, [Next]_vars, NEW b \in Boxes, box'[b].st # "free"
             PROVE  /\ box'[b].idx \in Actions /\ 1..(box'[b].idx - 1) \subseteq done'
                    /\ box'[b].st = "ok" /\ ~box'[b].reaction => box'[b].idx \in done'
  BY DEF BoxInv
<1> DEFINE Goal == /\ box'[b].idx \in Actions /\ 1..(box'[b].idx - 1) \subseteq done'
                   /\ box'[b].st = "ok" /\ ~box'[b].reaction => box'[b].idx \in done'
<1>0. TypeOK /\ BoxInv /\ done \subseteq done'
  BY DoneGrows DEF IInv
<1>1. ASSUME box'[b].idx = box[b].idx, box'[b].reaction = box[b].reaction, box[b].st # "free",
             box'[b].st = "ok" => box[b].st = "ok"
      PROVE  Goal
  BY <1>0, <1>1 DEF BoxInv
<1>2. CASE box' = box
  BY <1>1, <1>2
<1>3. ASSUME NEW c \in Boxes, NEW st \in {"created", "running", "ok", "failed"},
             NEW reaction \in BOOLEAN, New(c, st, reaction), reaction \/ st = "created",
             worker.idx \in Actions /\ 1..(worker.idx - 1) \subseteq done
      PROVE  Goal
  <2>1. CASE b = c
    <3>1. box'[b] = [idx |-> worker.idx, st |-> st, reaction |-> reaction, own |-> TRUE]
      BY <1>0, <1>3, <2>1 DEF New, TypeOK
    <3> QED
      BY <1>0, <1>3, <3>1
  <2>2. CASE b # c
    <3>1. box'[b] = box[b]
      BY <1>0, <1>3, <2>2 DEF New, TypeOK
    <3> QED
      BY <1>1, <3>1
  <2> QED
    BY <2>1, <2>2
<1>4. ASSUME CreateContainer PROVE Goal
  <2>1. worker.idx \in Actions /\ 1..(worker.idx - 1) \subseteq done
    BY <1>4, ActionsAssumption DEF CreateContainer, IInv, TurnInv, Busy, Steps
  <2> QED
    BY <1>2, <1>3, <1>4, <2>1, ChosenUnused DEF CreateContainer
<1>5. ASSUME StartContainer PROVE Goal
  <2>1. worker.id \in Boxes /\ box[worker.id].st # "free"
    BY <1>5 DEF StartContainer, IInv, IdInv
  <2>2. CASE box' = [box EXCEPT ![worker.id].st = "running"]
    <3>1. CASE b = worker.id
      BY <1>0, <1>1, <2>1, <2>2, <3>1 DEF TypeOK, BoxType
    <3>2. CASE b # worker.id
      BY <1>0, <1>1, <2>2, <3>2 DEF TypeOK, BoxType
    <3> QED
      BY <3>1, <3>2
  <2> QED
    BY <1>2, <1>5, <2>2 DEF StartContainer
<1>6. ASSUME ExecuteReaction PROVE Goal
  <2>1. worker.idx \in Actions /\ 1..(worker.idx - 1) \subseteq done
    BY <1>6, ActionsAssumption DEF ExecuteReaction, IInv, TurnInv, Busy, Steps
  <2> QED
    BY <1>2, <1>3, <1>6, <2>1, ChosenUnused DEF ExecuteReaction
<1>7. ASSUME RemoveContainer PROVE Goal
  <2>1. worker.id \in Boxes /\ box[worker.id].st # "free"
    BY <1>7 DEF RemoveContainer, IInv, IdInv
  <2> DEFINE killed == IF box[worker.id].st = "running" THEN "failed" ELSE box[worker.id].st
  <2>2. CASE box' = [box EXCEPT ![worker.id].st = killed]
    <3>1. CASE b = worker.id
      BY <1>0, <1>1, <2>1, <2>2, <3>1 DEF TypeOK, BoxType
    <3>2. CASE b # worker.id
      BY <1>0, <1>1, <2>2, <3>2 DEF TypeOK, BoxType
    <3> QED
      BY <3>1, <3>2
  <2>3. CASE box' = [box EXCEPT ![worker.id] = NoBox]
    BY <1>0, <1>1, <2>3, NoBoxType DEF TypeOK
  <2> QED
    BY <1>2, <1>7, <2>2, <2>3 DEF RemoveContainer
<1>8. ASSUME RebootWatch \/ PowerCycle PROVE Goal
  BY <1>8, NoBoxType DEF RebootWatch, PowerCycle
<1>9. ASSUME Crash PROVE Goal
  BY <1>0, <1>1, <1>9 DEF Crash, TypeOK, BoxType
<1>10. ASSUME NEW c \in Boxes, Exit(c) PROVE Goal
  <2>1. CASE b # c
    BY <1>0, <1>1, <1>10, <2>1 DEF Exit, TypeOK
  <2>2. CASE b = c
    <3>1. /\ box[b].st = "running" /\ box'[b].idx = box[b].idx
          /\ box'[b].reaction = box[b].reaction
      BY <1>0, <1>10, <2>2 DEF Exit, TypeOK, BoxType
    <3>2. box'[b].st = "ok" /\ ~box'[b].reaction => box[b].idx \in done'
      BY <1>0, <1>10, <2>2, <3>1 DEF Exit, TypeOK, BoxType
    <3> QED
      BY <1>0, <3>1, <3>2 DEF BoxInv
  <2> QED
    BY <2>1, <2>2
<1> QED
  BY <1>2, <1>4, <1>5, <1>6, <1>7, <1>8, <1>9, <1>10
  DEF Next, WorkerStep, GetContexts, GetActions, ReportRunning, ReportOutcome, PullImage,
      WaitForContainer, DeleteWorkflow, OtherWorker, vars

\* The worker's container is there, and is of its action.
LEMMA IdInvStep == IInv /\ [Next]_vars => IdInv'
<1> SUFFICES ASSUME IInv, [Next]_vars, worker'.at \in {"start", "wait", "react", "remove"}
             PROVE  /\ worker'.id \in Boxes /\ box'[worker'.id].st # "free"
                    /\ box'[worker'.id].idx = worker'.idx /\ ~box'[worker'.id].reaction
  BY DEF IdInv
<1> DEFINE Goal == /\ worker'.id \in Boxes /\ box'[worker'.id].st # "free"
                   /\ box'[worker'.id].idx = worker'.idx /\ ~box'[worker'.id].reaction
<1>0. TypeOK /\ IdInv
  BY DEF IInv
<1>1. ASSUME worker'.id = worker.id, worker'.idx = worker.idx,
             worker.at \in {"start", "wait", "react", "remove"},
             box'[worker.id].st # "free", box'[worker.id].idx = box[worker.id].idx,
             box'[worker.id].reaction = box[worker.id].reaction
      PROVE  Goal
  BY <1>0, <1>1 DEF IdInv
<1>2. CASE worker' = worker /\ box' = box
  BY <1>0, <1>2 DEF IdInv
<1>3. CASE worker' = IdleWorker \/ worker'.at = "gone"
  BY <1>3, IdleType
<1>4. ASSUME GetContexts PROVE Goal
  BY <1>4, IdleType DEF GetContexts, IdleWorker
<1>5. ASSUME GetActions \/ ReportRunning \/ ReportOutcome PROVE Goal
  <2>1. ASSUME NEW i, Begin(i) PROVE worker'.at \in {"pull", "running"}
    BY <1>0, <2>1 DEF Begin, TypeOK, WorkerType
  <2>2. ASSUME ReportRunning PROVE worker'.at \in {"pull", "running"}
    BY <1>0, <2>2 DEF ReportRunning, ReportFails, Goto, TypeOK, WorkerType
  <2>3. ASSUME GetActions PROVE worker' = IdleWorker \/ worker'.at \in {"pull", "running"}
    BY <2>1, <2>3 DEF GetActions
  <2>4. ASSUME ReportOutcome
        PROVE  worker' = IdleWorker \/ worker'.at \in {"pull", "running", "report"}
    BY <2>1, <2>4 DEF ReportOutcome, ReportFails
  <2> QED
    BY <1>3, <1>5, <2>2, <2>3, <2>4
<1>6. ASSUME PullImage PROVE Goal
  <2>1. \/ worker' = [worker EXCEPT !.at = "create"]
        \/ worker' = [worker EXCEPT !.at = "report", !.out = "FAILED"]
        \/ worker' = [worker EXCEPT !.tries = worker.tries + 1]
    BY <1>6 DEF PullImage, Goto, End
  <2>2. worker'.at \in {"create", "report", "pull"}
    BY <1>0, <1>6, <2>1 DEF PullImage, TypeOK, WorkerType
  <2> QED
    BY <2>2
<1>7. ASSUME CreateContainer PROVE Goal
  <2> DEFINE c == CHOOSE c \in Unused : TRUE
  <2>1. CASE End("report", "FAILED")
    BY <1>0, <2>1 DEF End, TypeOK, WorkerType
  <2>2. CASE Unused # {} /\ New(c, "created", FALSE)
             /\ worker' = [worker EXCEPT !.at = "start", !.id = c]
    <3>1. c \in Boxes
      BY <2>2, ChosenUnused
    <3> HIDE DEF c
    <3>2. box'[c] = [idx |-> worker.idx, st |-> "created", reaction |-> FALSE, own |-> TRUE]
      BY <1>0, <2>2, <3>1 DEF New, TypeOK
    <3>3. worker'.id = c /\ worker'.idx = worker.idx
      BY <1>0, <2>2 DEF TypeOK, WorkerType
    <3> QED
      BY <3>1, <3>2, <3>3
  <2> QED
    BY <1>7, <2>1, <2>2 DEF CreateContainer
<1>8. ASSUME StartContainer PROVE Goal
  <2>1. CASE End("report", "FAILED")
    BY <1>0, <2>1 DEF End, TypeOK, WorkerType
  <2>2. CASE Goto("wait") /\ box' = [box EXCEPT ![worker.id].st = "running"]
    <3>1. worker'.id = worker.id /\ worker'.idx = worker.idx
      BY <1>0, <2>2 DEF Goto, TypeOK, WorkerType
    <3>2. worker.id \in Boxes /\ worker.at = "start"
      BY <1>0, <1>8 DEF StartContainer, IdInv
    <3>3. /\ box'[worker.id].st = "running" /\ box'[worker.id].idx = box[worker.id].idx
          /\ box'[worker.id].reaction = box[worker.id].reaction
      BY <1>0, <2>2, <3>2 DEF TypeOK, BoxType
    <3> QED
      BY <1>1, <3>1, <3>2, <3>3
  <2> QED
    BY <1>8, <2>1, <2>2 DEF StartContainer
<1>9. ASSUME WaitForContainer PROVE Goal
  <2>1. worker'.id = worker.id /\ worker'.idx = worker.idx
    BY <1>0, <1>9 DEF WaitForContainer, End, TypeOK, WorkerType
  <2>2. box' = box /\ worker.at = "wait"
    BY <1>9 DEF WaitForContainer
  <2> QED
    BY <1>0, <2>1, <2>2 DEF IdInv
<1>10. ASSUME ExecuteReaction PROVE Goal
  <2> DEFINE c == CHOOSE c \in Unused : TRUE
  <2>1. /\ worker'.id = worker.id /\ worker'.idx = worker.idx /\ worker.at = "react"
        /\ worker.id \in Boxes /\ box[worker.id].st # "free"
    BY <1>0, <1>10 DEF ExecuteReaction, Goto, TypeOK, WorkerType, IdInv
  <2>2. CASE box' = box
    BY <1>0, <2>1, <2>2 DEF IdInv
  <2>3. ASSUME NEW st, Unused # {}, New(c, st, TRUE) PROVE Goal
    <3>1. c \in Boxes /\ c # worker.id
      BY <2>1, <2>3, ChosenUnused
    <3> HIDE DEF c
    <3>2. box'[worker.id] = box[worker.id]
      BY <1>0, <2>1, <2>3, <3>1 DEF New, TypeOK
    <3> QED
      BY <1>0, <2>1, <3>2 DEF IdInv
  <2> QED
    BY <1>10, <2>2, <2>3 DEF ExecuteReaction
<1>11. ASSUME RemoveContainer PROVE Goal
  BY <1>0, <1>11 DEF RemoveContainer, Goto, TypeOK, WorkerType
<1>12. ASSUME RebootWatch \/ Crash \/ PowerCycle PROVE Goal
  BY <1>0, <1>3, <1>12 DEF RebootWatch, Crash, PowerCycle, Crashes, IdleWorker
<1>13. ASSUME DeleteWorkflow \/ OtherWorker \/ UNCHANGED vars PROVE Goal
  BY <1>2, <1>13 DEF DeleteWorkflow, OtherWorker, vars
<1>14. ASSUME NEW c \in Boxes, Exit(c) PROVE Goal
  <2>1. worker' = worker /\ worker.id \in Boxes
    BY <1>0, <1>14 DEF Exit, IdInv
  <2>2. box'[worker.id].st # "free" /\ box'[worker.id].idx = box[worker.id].idx
        /\ box'[worker.id].reaction = box[worker.id].reaction
    BY <1>0, <1>14, <2>1 DEF Exit, IdInv, TypeOK, BoxType
  <2> QED
    BY <1>1, <2>1, <2>2
<1> QED
  BY <1>4, <1>5, <1>6, <1>7, <1>8, <1>9, <1>10, <1>11, <1>12, <1>13, <1>14 DEF Next, WorkerStep

\* A success is only noted when the container has succeeded.
LEMMA OutcomeInvStep == IInv /\ [Next]_vars => OutcomeInv'
<1> SUFFICES ASSUME IInv, [Next]_vars, worker'.at \in {"react", "remove", "report"}
             PROVE  /\ worker'.out \in {"SUCCESS", "FAILED", "TIMEOUT"}
                    /\ worker'.out = "SUCCESS" => worker'.idx \in done'
  BY DEF OutcomeInv
<1> DEFINE Goal == /\ worker'.out \in {"SUCCESS", "FAILED", "TIMEOUT"}
                   /\ worker'.out = "SUCCESS" => worker'.idx \in done'
<1>0. TypeOK /\ OutcomeInv /\ done \subseteq done'
  BY DoneGrows DEF IInv
<1>1. ASSUME worker'.out = worker.out, worker'.idx = worker.idx,
             worker.at \in {"react", "remove", "report"}
      PROVE  Goal
  BY <1>0, <1>1 DEF OutcomeInv
<1>2. CASE worker' = worker
  BY <1>1, <1>2
<1>3. CASE worker' = IdleWorker \/ worker'.at \in {"gone", "actions", "running", "pull"}
  BY <1>3, IdleType
<1>4. ASSUME NEW step \in Steps, End(step, "FAILED") PROVE Goal
  BY <1>0, <1>4 DEF End, TypeOK, WorkerType
<1>5. ASSUME NEW step \in Steps \ {"react", "remove", "report"}, Goto(step) PROVE Goal
  BY <1>0, <1>5 DEF Goto, TypeOK, WorkerType
<1>6. ASSUME GetContexts \/ GetActions \/ ReportRunning \/ ReportOutcome PROVE Goal
  <2>1. ASSUME NEW i, Begin(i) PROVE Goal
    BY <1>0, <1>3, <2>1 DEF Begin, TypeOK, WorkerType
  <2>2. CASE GetContexts
    BY <1>3, <2>2 DEF GetContexts, IdleWorker
  <2>3. CASE GetActions
    BY <1>3, <2>1, <2>3 DEF GetActions
  <2>4. CASE ReportRunning
    BY <1>2, <1>5, <2>4 DEF ReportRunning, ReportFails, Steps
  <2>5. CASE ReportOutcome
    BY <1>2, <1>3, <2>1, <2>5 DEF ReportOutcome, ReportFails
  <2> QED
    BY <1>6, <2>2, <2>3, <2>4, <2>5
<1>7. ASSUME PullImage PROVE Goal
  <2>1. CASE worker' = [worker EXCEPT !.tries = worker.tries + 1]
    BY <1>0, <1>1, <1>7, <2>1 DEF PullImage, TypeOK, WorkerType
  <2> QED
    BY <1>4, <1>5, <1>7, <2>1 DEF PullImage, Steps
<1>8. ASSUME CreateContainer \/ StartContainer PROVE Goal
  <2>1. ASSUME NEW b, worker' = [worker EXCEPT !.at = "start", !.id = b] PROVE Goal
    BY <1>0, <2>1 DEF TypeOK, WorkerType
  <2> QED
    BY <1>4, <1>5, <1>8, <2>1 DEF CreateContainer, StartContainer, Steps
<1>9. ASSUME WaitForContainer PROVE Goal
  <2>1. CASE End("remove", "FAILED")
    BY <1>4, <2>1 DEF Steps
  <2>2. ASSUME NEW o \in Outcomes(worker.id), worker'.out = o[1], worker'.idx = worker.idx
        PROVE  Goal
    <3>1. box[worker.id].st = "ok" => worker.idx \in done
      BY <1>9 DEF WaitForContainer, IInv, IdInv, BoxInv
    <3> QED
      BY <1>0, <2>2, <3>1, OutcomeCases
  <2>3. ASSUME NEW o \in Outcomes(worker.id),
               worker' = [worker EXCEPT !.out = o[1], !.reacted = Reaction(o[1], o[2]),
                            !.at = IF Reaction(o[1], o[2]) = "no" THEN "remove" ELSE "react"]
        PROVE  Goal
    BY <1>0, <2>2, <2>3 DEF TypeOK, WorkerType
  <2> QED
    BY <1>9, <2>1, <2>3 DEF WaitForContainer
<1>10. ASSUME ExecuteReaction \/ RemoveContainer PROVE Goal
  BY <1>0, <1>1, <1>10 DEF ExecuteReaction, RemoveContainer, Goto, TypeOK, WorkerType
<1>11. ASSUME RebootWatch \/ Crash \/ PowerCycle PROVE Goal
  BY <1>3, <1>11 DEF RebootWatch, Crash, PowerCycle, Crashes, IdleWorker
<1>12. ASSUME DeleteWorkflow \/ OtherWorker \/ UNCHANGED vars \/ \E b \in Boxes : Exit(b)
       PROVE  Goal
  BY <1>2, <1>12 DEF DeleteWorkflow, OtherWorker, vars, Exit
<1> QED
  BY <1>6, <1>7, <1>8, <1>9, <1>10, <1>11, <1>12 DEF Next, WorkerStep

-----------------------------------------------------------------------------
(* Whose turn it is.                                                       *)

\* The other worker moves the workflow only when its own action is next.
LEMMA OtherWorkerTurn ==
  ASSUME TypeOK, OtherWorker, NEW i \in Mine, Turn(i)
  PROVE  FALSE
<1> DEFINE j == IF workflow.st \in {"PENDING", "SUCCESS"} THEN workflow.cur + 1 ELSE workflow.cur
<1>1. j \notin Mine
  BY DEF OtherWorker
<1>2. workflow.cur \in Nat /\ i \in Nat
  BY ActionsAssumption DEF TypeOK, WorkflowType, Actions
<1>3. j = i
  BY <1>2 DEF Turn
<1> QED
  BY <1>1, <1>3

LEMMA ContextInvStep == IInv /\ [Next]_vars => ContextInv'
<1> SUFFICES ASSUME IInv, [Next]_vars, worker'.at = "actions"
             PROVE  /\ worker'.ctx.st = "PENDING" <=> worker'.ctx.cur = 0
                    /\ FirstAction(worker'.ctx) \in Mine
                         => workflow'.cur = worker'.ctx.cur /\ workflow'.st = worker'.ctx.st
  BY DEF ContextInv
<1> DEFINE Goal == /\ worker'.ctx.st = "PENDING" <=> worker'.ctx.cur = 0
                   /\ FirstAction(worker'.ctx) \in Mine
                        => workflow'.cur = worker'.ctx.cur /\ workflow'.st = worker'.ctx.st
<1>0. TypeOK /\ ContextInv /\ Reached
  BY DEF IInv
<1>1. CASE worker' = worker /\ workflow'.cur = workflow.cur /\ workflow'.st = workflow.st
  BY <1>0, <1>1 DEF ContextInv
<1>2. CASE worker' = IdleWorker
  BY <1>2, IdleType
<1>3. ASSUME GetContexts PROVE Goal
  <2>1. worker'.ctx = workflow /\ workflow' = workflow
    BY <1>3 DEF GetContexts, serverSide, IdleWorker
  <2> QED
    BY <1>0, <2>1 DEF Reached
<1>4. ASSUME NEW i, Begin(i) PROVE Goal
  BY <1>0, <1>4 DEF Begin, TypeOK, WorkerType
<1>5. CASE worker.at # "actions" /\ worker' = worker
  BY <1>5
<1>6. ASSUME NEW step \in Steps \ {"actions"}, Goto(step) \/ End(step, "FAILED") PROVE Goal
  BY <1>0, <1>6 DEF Goto, End, TypeOK, WorkerType
<1>7. ASSUME GetActions \/ ReportRunning \/ ReportOutcome PROVE Goal
  BY <1>2, <1>4, <1>5, <1>6, <1>7
  DEF GetActions, ReportRunning, ReportOutcome, ReportFails, Steps
<1>8. ASSUME PullImage PROVE Goal
  <2>1. CASE worker' = [worker EXCEPT !.tries = worker.tries + 1]
    BY <1>0, <1>8, <2>1 DEF PullImage, TypeOK, WorkerType
  <2> QED
    BY <1>6, <1>8, <2>1 DEF PullImage, Steps
<1>9. ASSUME CreateContainer \/ StartContainer PROVE Goal
  <2>1. ASSUME NEW b, worker' = [worker EXCEPT !.at = "start", !.id = b] PROVE Goal
    BY <1>0, <2>1 DEF TypeOK, WorkerType
  <2> QED
    BY <1>6, <1>9, <2>1 DEF CreateContainer, StartContainer, Steps
<1>10. ASSUME WaitForContainer PROVE Goal
  <2>1. ASSUME NEW o,
               worker' = [worker EXCEPT !.out = o[1], !.reacted = Reaction(o[1], o[2]),
                            !.at = IF Reaction(o[1], o[2]) = "no" THEN "remove" ELSE "react"]
        PROVE  Goal
    BY <1>0, <2>1 DEF TypeOK, WorkerType
  <2> QED
    BY <1>6, <1>10, <2>1 DEF WaitForContainer, Steps
<1>11. ASSUME ExecuteReaction \/ RemoveContainer PROVE Goal
  BY <1>6, <1>11 DEF ExecuteReaction, RemoveContainer, Steps
<1>12. ASSUME RebootWatch \/ Crash \/ PowerCycle PROVE Goal
  BY <1>2, <1>12 DEF RebootWatch, Crash, PowerCycle, Crashes, IdleWorker
<1>13. ASSUME DeleteWorkflow \/ UNCHANGED vars \/ \E b \in Boxes : Exit(b) PROVE Goal
  BY <1>0, <1>1, <1>13 DEF DeleteWorkflow, vars, Exit, TypeOK, WorkflowType
<1>14. ASSUME OtherWorker PROVE Goal
  <2>1. worker' = worker
    BY <1>14 DEF OtherWorker
  <2>2. ASSUME FirstAction(worker.ctx) \in Mine PROVE FALSE
    <3>1. /\ worker.ctx \in WorkflowType /\ (worker.ctx.st = "PENDING" <=> worker.ctx.cur = 0)
          /\ workflow.cur = worker.ctx.cur /\ workflow.st = worker.ctx.st
      BY <1>0, <2>1, <2>2 DEF ContextInv, TypeOK, WorkerType
    <3>2. Turn(FirstAction(worker.ctx))
      BY <2>2, <3>1, FirstActionMine, ActionsAssumption DEF Turn, WorkflowType
    <3> QED
      BY <1>0, <1>14, <2>2, <3>2, OtherWorkerTurn
  <2> QED
    BY <1>0, <2>1, <2>2 DEF ContextInv
<1> QED
  BY <1>3, <1>7, <1>8, <1>9, <1>10, <1>11, <1>12, <1>13, <1>14 DEF Next, WorkerStep

LEMMA TurnInvStep == IInv /\ [Next]_vars => TurnInv'
<1> SUFFICES ASSUME IInv, [Next]_vars, Busy'
             PROVE  /\ worker'.idx \in Mine /\ 1..(worker'.idx - 1) \subseteq done'
                    /\ Turn(worker.idx)' \/ (worker'.at = "report" /\ Reported')
  BY DEF TurnInv
<1> DEFINE Goal == /\ worker'.idx \in Mine /\ 1..(worker'.idx - 1) \subseteq done'
                   /\ Turn(worker.idx)' \/ (worker'.at = "report" /\ Reported')
<1>0. TypeOK /\ Reached /\ TurnInv /\ OutcomeInv /\ done \subseteq done'
  BY DoneGrows DEF IInv
<1>1. ASSUME worker' = worker, workflow'.cur = workflow.cur, workflow'.st = workflow.st
      PROVE  Goal
  BY <1>0, <1>1 DEF TurnInv, Busy, Turn, Reported
<1>2. ASSUME Busy, worker.at # "report", worker'.idx = worker.idx, workflow' = workflow
      PROVE  Goal
  BY <1>0, <1>2 DEF TurnInv, Turn
<1>3. CASE worker' = IdleWorker \/ worker'.at \in {"contexts", "actions", "gone"}
  BY <1>3, IdleType DEF Busy
<1>4. ASSUME NEW i \in Mine, Begin(i), 1..(i - 1) \subseteq done,
             \/ workflow'.cur = i - 1 /\ workflow'.st \in {"PENDING", "SUCCESS"}
             \/ workflow'.cur = i /\ workflow'.st = "RUNNING"
      PROVE  Goal
  <2>1. worker'.idx = i
    BY <1>0, <1>4 DEF Begin, TypeOK, WorkerType
  <2> QED
    BY <1>0, <1>4, <2>1 DEF Turn
<1>5. ASSUME GetContexts PROVE Goal
  BY <1>3, <1>5, IdleType DEF GetContexts, IdleWorker
<1>6. ASSUME GetActions PROVE Goal
  <2>1. ASSUME FirstAction(worker.ctx) \in Mine, Begin(FirstAction(worker.ctx)) PROVE Goal
    <3> DEFINE i == FirstAction(worker.ctx)
    <3>1. /\ worker.ctx \in WorkflowType /\ (worker.ctx.st = "PENDING" <=> worker.ctx.cur = 0)
          /\ workflow.cur = worker.ctx.cur /\ workflow.st = worker.ctx.st
      BY <1>0, <1>6, <2>1 DEF GetActions, IInv, ContextInv, TypeOK, WorkerType
    <3>2. \/ i = workflow.cur + 1 /\ workflow.st \in {"PENDING", "SUCCESS"}
          \/ i = workflow.cur /\ workflow.st = "RUNNING"
      BY <2>1, <3>1, FirstActionMine
    <3>3. workflow' = workflow /\ workflow.cur \in Nat /\ i \in Mine /\ Begin(i)
      BY <1>0, <1>6, <2>1 DEF GetActions, serverSide, TypeOK, WorkflowType
    <3> HIDE DEF i
    <3>4. 1..(i - 1) \subseteq done
      <4>1. CASE i = workflow.cur + 1 /\ workflow.st = "PENDING"
        <5>1. i = 1
          BY <1>0, <3>3, <4>1 DEF Reached
        <5> QED
          BY <5>1
      <4>2. CASE i = workflow.cur + 1 /\ workflow.st = "SUCCESS"
        BY <1>0, <3>3, <4>2 DEF Reached
      <4>3. CASE i = workflow.cur
        BY <1>0, <4>3 DEF Reached
      <4> QED
        BY <3>2, <4>1, <4>2, <4>3
    <3> QED
      BY <1>4, <3>2, <3>3, <3>4
  <2> QED
    BY <1>3, <1>6, <2>1 DEF GetActions
<1>7. ASSUME ReportRunning PROVE Goal
  <2>1. /\ worker.idx \in Mine /\ worker.idx \in Actions /\ Turn(worker.idx)
        /\ 1..(worker.idx - 1) \subseteq done /\ worker'.idx = worker.idx
    BY <1>0, <1>7, ActionsAssumption
    DEF ReportRunning, ReportFails, Goto, TurnInv, Busy, Steps, TypeOK, WorkerType
  <2>2. CASE workflow' = workflow
    BY <1>0, <2>1, <2>2 DEF Turn
  <2>3. CASE workflow' = Recorded(worker.idx, "RUNNING")
    <3>1. workflow'.cur = worker.idx /\ workflow'.st = "RUNNING"
      BY <1>0, <2>1, <2>3, RecordTurn
    <3> QED
      BY <1>0, <2>1, <3>1 DEF Turn
  <2> QED
    BY <1>7, <2>2, <2>3 DEF ReportRunning, ReportFails, Report
<1>8. ASSUME ReportOutcome PROVE Goal
  <2>1. /\ worker.idx \in Mine /\ worker.idx \in Actions /\ worker.at = "report"
        /\ Turn(worker.idx) \/ Reported
        /\ 1..(worker.idx - 1) \subseteq done /\ (worker.out = "SUCCESS" => worker.idx \in done)
    BY <1>0, <1>8, ActionsAssumption DEF ReportOutcome, TurnInv, OutcomeInv, Busy, Steps
  <2>2. ASSUME workflow' = Recorded(worker.idx, worker.out)
        PROVE  \/ workflow'.cur = worker.idx /\ workflow'.st = worker.out
               \/ /\ workflow'.cur = workflow.cur /\ workflow'.st = workflow.st
                  /\ worker.out = "SUCCESS" /\ workflow.cur > worker.idx
                  /\ worker.idx + 1 \notin Mine
    BY <1>0, <2>1, <2>2, RecordTurn, RecordReported DEF Reported
  <2>3. CASE ReportFails(worker.idx, worker.out)
    <3>1. CASE workflow' = workflow
      BY <1>1, <2>3, <3>1 DEF ReportFails
    <3>2. CASE workflow' = Recorded(worker.idx, worker.out)
      BY <1>0, <2>1, <2>2, <2>3, <3>2 DEF ReportFails, Reported
    <3> QED
      BY <2>3, <3>1, <3>2 DEF ReportFails
  <2>4. ASSUME Report(worker.idx, worker.out), worker.out = "SUCCESS",
               worker.idx + 1 \in Mine, Begin(worker.idx + 1)
        PROVE  Goal
    <3> DEFINE i == worker.idx + 1
    <3>1. worker.idx \in Nat /\ i - 1 = worker.idx
      BY <2>1, ActionsAssumption DEF Actions
    <3>2. workflow'.cur = i - 1 /\ workflow'.st = "SUCCESS"
      BY <2>2, <2>4, <3>1 DEF Report
    <3>3. 1..(i - 1) \subseteq done
      BY <2>1, <2>4, <3>1
    <3>4. i \in Mine /\ Begin(i)
      BY <2>4
    <3> HIDE DEF i
    <3> QED
      BY <1>4, <3>2, <3>3, <3>4
  <2> QED
    BY <1>3, <1>8, <2>3, <2>4 DEF ReportOutcome
<1>9. ASSUME PullImage \/ CreateContainer \/ StartContainer PROVE Goal
  <2>1. worker'.idx = worker.idx /\ workflow' = workflow
    BY <1>0, <1>9
    DEF PullImage, CreateContainer, StartContainer, Goto, End, serverSide, TypeOK, WorkerType
  <2>2. Busy /\ worker.at # "report"
    BY <1>9 DEF PullImage, CreateContainer, StartContainer, Busy, Steps
  <2> QED
    BY <1>2, <2>1, <2>2
<1>10. ASSUME WaitForContainer \/ ExecuteReaction \/ RemoveContainer PROVE Goal
  <2>1. worker'.idx = worker.idx /\ workflow' = workflow
    BY <1>0, <1>10
    DEF WaitForContainer, ExecuteReaction, RemoveContainer, Goto, End, serverSide, TypeOK, WorkerType
  <2>2. Busy /\ worker.at # "report"
    BY <1>10 DEF WaitForContainer, ExecuteReaction, RemoveContainer, Busy, Steps
  <2> QED
    BY <1>2, <2>1, <2>2
<1>11. ASSUME RebootWatch \/ Crash \/ PowerCycle PROVE Goal
  BY <1>3, <1>11 DEF RebootWatch, Crash, PowerCycle, Crashes, IdleWorker
<1>12. ASSUME DeleteWorkflow \/ UNCHANGED vars \/ \E b \in Boxes : Exit(b) PROVE Goal
  BY <1>0, <1>1, <1>12 DEF DeleteWorkflow, vars, Exit, TypeOK, WorkflowType
<1>13. ASSUME OtherWorker PROVE Goal
  <2>1. worker' = worker /\ worker.idx \in Mine /\ worker.idx \in Nat
    BY <1>0, <1>13, ActionsAssumption DEF OtherWorker, TurnInv, Busy, Actions
  <2>2. worker.at = "report" /\ Reported /\ 1..(worker.idx - 1) \subseteq done
        /\ worker.out \in {"SUCCESS", "FAILED", "TIMEOUT"}
    BY <1>0, <1>13, <2>1, OtherWorkerTurn DEF TurnInv, OutcomeInv, Busy
  <2>3. workflow.cur \in Nat /\ (workflow.st = "RUNNING" \/ workflow.st \in {"PENDING", "SUCCESS"})
    BY <1>0, <1>13 DEF OtherWorker, TypeOK, WorkflowType
  <2>4. CASE workflow' = workflow
    BY <1>1, <2>1, <2>4
  <2>5. CASE workflow.st = "RUNNING" /\ \E st : workflow' = [workflow EXCEPT !.st = st]
    <3>1. workflow'.cur = workflow.cur
      BY <1>0, <2>5 DEF TypeOK, WorkflowType
    <3> QED
      BY <1>0, <2>1, <2>2, <2>5, <3>1 DEF Reported
  <2>6. CASE /\ workflow.st \in {"PENDING", "SUCCESS"} /\ workflow.cur + 1 \in Actions \ Mine
             /\ workflow' = [workflow EXCEPT !.cur = workflow.cur + 1, !.st = "RUNNING"]
    <3>1. workflow'.cur = workflow.cur + 1
      BY <1>0, <2>6 DEF TypeOK, WorkflowType
    <3>2. worker.out = "SUCCESS" /\ workflow'.cur > worker.idx /\ worker.idx + 1 \notin Mine
      BY <2>1, <2>2, <2>3, <2>6, <3>1 DEF Reported
    <3> QED
      BY <1>0, <2>1, <2>2, <3>2 DEF Reported
  <2> QED
    BY <1>13, <2>4, <2>5, <2>6 DEF OtherWorker
<1> QED
  BY <1>5, <1>6, <1>7, <1>8, <1>9, <1>10, <1>11, <1>12, <1>13 DEF Next, WorkerStep

-----------------------------------------------------------------------------
LEMMA Inductive == Spec => []IInv
<1>1. IInv /\ [Next]_vars => IInv'
  BY TypeOKStep, ReachedStep, ContextInvStep, TurnInvStep, OutcomeInvStep, IdInvStep, BoxInvStep
  DEF IInv
<1> QED
  BY InitIInv, <1>1, PTL DEF Spec

\* The records of the worker and of the containers keep their types: a worker that
\* resumes anywhere never leaves the list of its actions (TypeOK).
THEOREM TypesHold == Spec => []TypeOK
<1>1. IInv => TypeOK
  BY DEF IInv
<1> QED
  BY Inductive, <1>1, PTL

\* The worker implements the workflow of the server (ImplementsWorkflow,
\* ProcessWorkflowActions and reportActionStatus).
THEOREM WorkerImplementsWorkflow == Spec => ImplementsWorkflow
<1>1. Init => W!Init
  BY DEF Init, W!Init
<1>2. IInv /\ [Next]_vars => [W!Next]_(W!vars)
  BY StepRefines DEF WVars, W!vars
<1> QED
  BY Inductive, <1>1, <1>2, PTL DEF Spec, ImplementsWorkflow, W!Spec

-----------------------------------------------------------------------------
(* Actions run in order.                                                   *)

RebootInv == reboot \/ worker.at = "gone" => Actions \ RebootActions \subseteq done

\* An action runs only after those before it, and the node reboots only after all
\* others, if no action but the last one reboots it (InOrder).
THEOREM ActionsRunInOrder == ASSUME RebootActions \subseteq {N} PROVE Spec => []InOrder
<1>1. Init => RebootInv
  BY IdleType DEF Init, RebootInv
<1>2. ASSUME IInv, RebootInv, [Next]_vars PROVE RebootInv'
  <2>0. TypeOK /\ done \subseteq done'
    BY <1>2, DoneGrows DEF IInv
  <2>1. ASSUME NEW b \in Boxes, Exit(b) PROVE RebootInv'
    <3>1. CASE reboot \/ worker.at = "gone"
      BY <1>2, <2>0, <2>1, <3>1 DEF RebootInv
    <3>2. ASSUME ~reboot, worker.at # "gone", reboot' PROVE RebootInv'
      <4>1. box[b].idx = N /\ box[b].st # "free" /\ N \in RebootActions
        BY <2>1, <3>2 DEF Exit
      <4>2. 1..(N - 1) \subseteq done
        BY <1>2, <4>1 DEF IInv, BoxInv
      <4>3. Actions \ RebootActions \subseteq 1..(N - 1)
        BY <4>1, ActionsAssumption DEF Actions
      <4> QED
        BY <2>0, <4>2, <4>3 DEF RebootInv
    <3> QED
      BY <2>1, <3>1, <3>2 DEF Exit, RebootInv
  <2>2. ASSUME RebootWatch PROVE RebootInv'
    BY <1>2, <2>0, <2>2 DEF RebootWatch, RebootInv
  <2>3. ASSUME worker'.at # "gone", reboot' => reboot PROVE RebootInv'
    BY <1>2, <2>0, <2>3 DEF RebootInv
  <2>4. ASSUME UNCHANGED <<worker, reboot>> PROVE RebootInv'
    BY <1>2, <2>0, <2>4 DEF RebootInv
  <2>6. ASSUME GetContexts \/ GetActions PROVE worker'.at # "gone" /\ reboot' = reboot
    BY <1>2, <2>0, <2>6, IdleType
    DEF GetContexts, GetActions, Begin, serverSide, IdleWorker, TypeOK, WorkerType
  <2>7. ASSUME ReportRunning \/ ReportOutcome PROVE worker'.at # "gone" /\ reboot' = reboot
    BY <1>2, <2>0, <2>7, IdleType
    DEF ReportRunning, ReportOutcome, ReportFails, Begin, Goto, TypeOK, WorkerType
  <2>8. ASSUME PullImage \/ CreateContainer \/ StartContainer
        PROVE  worker'.at # "gone" /\ reboot' = reboot
    BY <1>2, <2>0, <2>8
    DEF PullImage, CreateContainer, StartContainer, Goto, End, serverSide, TypeOK, WorkerType
  <2>9. ASSUME WaitForContainer \/ ExecuteReaction \/ RemoveContainer
        PROVE  worker'.at # "gone" /\ reboot' = reboot
    BY <1>2, <2>0, <2>9
    DEF WaitForContainer, ExecuteReaction, RemoveContainer, Goto, End, serverSide, TypeOK,
        WorkerType
  <2>10. ASSUME Crash \/ PowerCycle PROVE worker'.at # "gone" /\ (reboot' => reboot)
    BY <1>2, <2>0, <2>10, IdleType DEF Crash, PowerCycle, Crashes, serverSide
  <2> QED
    BY <1>2, <2>1, <2>2, <2>3, <2>4, <2>6, <2>7, <2>8, <2>9, <2>10
    DEF Next, WorkerStep, DeleteWorkflow, OtherWorker, vars
<1>3. IInv /\ RebootInv => InOrder
  BY DEF IInv, BoxInv, RebootInv, InOrder, Running
<1> QED
  BY Inductive, <1>1, <1>2, <1>3, PTL DEF Spec

-----------------------------------------------------------------------------
(* Containers of two actions.                                              *)

OwnRunning(b) == Running(b) /\ box[b].own

\* A running container is the one at hand, or was left behind when its action failed.
OwnInv ==
  /\ \A b \in Boxes : OwnRunning(b) =>
       \/ worker.at \in {"wait", "react", "remove"} /\ worker.id = b
       \/ worker.at = "report" /\ worker.out \in {"FAILED", "TIMEOUT"}
       \/ workflow.st \in W!Final
  /\ worker.at \in {"react", "remove"} /\ worker.out = "SUCCESS"
       => box[worker.id].st # "running"
  /\ OverlapOnlyAfterCrash

\* A failure stays.
LEMMA FinalStays == IInv /\ [Next]_vars /\ workflow.st \in W!Final => workflow'.st \in W!Final
<1> SUFFICES ASSUME IInv, [Next]_vars, workflow.st \in W!Final PROVE workflow'.st = workflow.st
  OBVIOUS
<1> QED
  BY StepRefines DEF WVars, W!Next, W!Report, W!Delete, W!Do

\* No step but StartContainer makes a container of an action run.
LEMMA OwnOverlap ==
  ASSUME OverlapOnlyAfterCrash, \A b \in Boxes : OwnRunning(b)' => OwnRunning(b)
  PROVE  OverlapOnlyAfterCrash'
BY DEF OverlapOnlyAfterCrash, OwnRunning, Running

LEMMA OwnInvStep == IInv /\ OwnInv /\ [Next]_vars => OwnInv'
<1> SUFFICES ASSUME IInv, OwnInv, [Next]_vars PROVE OwnInv'
  OBVIOUS
<1>0. /\ TypeOK /\ IdInv /\ OverlapOnlyAfterCrash
      /\ workflow.st \in W!Final => workflow'.st \in W!Final
  BY FinalStays DEF IInv, OwnInv
<1>1. ASSUME box' = box, worker' = worker PROVE OwnInv'
  BY <1>0, <1>1 DEF OwnInv, OwnRunning, Running, OverlapOnlyAfterCrash
<1>2. ASSUME \A b \in Boxes : OwnRunning(b)' => OwnRunning(b),
             worker.at \notin {"wait", "react", "remove", "report"},
             worker'.at \notin {"react", "remove"}
      PROVE  OwnInv'
  BY <1>0, <1>2, OwnOverlap DEF OwnInv
<1>3. ASSUME box' = box PROVE \A b \in Boxes : OwnRunning(b)' => OwnRunning(b)
  BY <1>3 DEF OwnRunning, Running
<1>4. ASSUME \A b \in Boxes : ~OwnRunning(b)', worker' = IdleWorker \/ worker'.at = "gone"
      PROVE  OwnInv'
  BY <1>0, <1>4, IdleType DEF OwnInv, OwnRunning, OverlapOnlyAfterCrash
<1>5. ASSUME NEW i, Begin(i) PROVE worker'.at \in {"pull", "running"}
  BY <1>0, <1>5 DEF Begin, TypeOK, WorkerType
<1>6. ASSUME NEW c \in Boxes, NEW st, NEW reaction \in BOOLEAN, New(c, st, reaction),
             st = "created" \/ reaction
      PROVE  \A b \in Boxes : OwnRunning(b)' => OwnRunning(b)
  <2> SUFFICES ASSUME NEW b \in Boxes, OwnRunning(b)' PROVE OwnRunning(b)
    OBVIOUS
  <2>1. CASE b = c
    <3>1. box'[b] = [idx |-> worker.idx, st |-> st, reaction |-> reaction, own |-> TRUE]
      BY <1>0, <1>6, <2>1 DEF New, TypeOK
    <3> QED
      BY <1>6, <3>1 DEF OwnRunning, Running
  <2>2. CASE b # c
    BY <1>0, <1>6, <2>2 DEF New, TypeOK, OwnRunning, Running
  <2> QED
    BY <2>1, <2>2
<1>7. ASSUME GetContexts \/ GetActions \/ ReportRunning PROVE OwnInv'
  <2>1. box' = box
    BY <1>7 DEF GetContexts, GetActions, ReportRunning
  <2>2. worker.at \notin {"wait", "react", "remove", "report"}
    BY <1>7 DEF GetContexts, GetActions, ReportRunning
  <2>3. worker'.at \notin {"react", "remove"}
    <3>1. CASE GetContexts
      BY <3>1 DEF GetContexts, IdleWorker
    <3>2. CASE GetActions
      BY <1>5, <3>2, IdleType DEF GetActions
    <3>3. CASE ReportRunning
      BY <1>0, <2>2, <3>3 DEF ReportRunning, ReportFails, Goto, TypeOK, WorkerType
    <3> QED
      BY <1>7, <3>1, <3>2, <3>3
  <2> QED
    BY <1>2, <1>3, <2>1, <2>2, <2>3
<1>8. ASSUME ReportOutcome PROVE OwnInv'
  <2>1. box' = box /\ worker.at = "report"
    BY <1>8 DEF ReportOutcome
  <2>2. CASE worker' = worker
    BY <1>1, <2>1, <2>2
  <2>3. ASSUME Report(worker.idx, worker.out), worker'.at \in {"contexts", "pull", "running"}
        PROVE  OwnInv'
    <3>1. ASSUME worker.out \in {"FAILED", "TIMEOUT"} PROVE workflow'.st \in W!Final
      <4>1. worker.idx \in Actions /\ (Turn(worker.idx) \/ Reported)
        BY <2>1, ActionsAssumption DEF IInv, TurnInv, Busy, Steps
      <4> QED
        BY <1>0, <2>3, <3>1, <4>1, RecordTurn, RecordReported DEF Report, Reported, W!Final
    <3>2. \A b \in Boxes : OwnRunning(b)' => workflow'.st \in W!Final
      BY <1>0, <1>3, <2>1, <3>1 DEF OwnInv
    <3> QED
      BY <1>0, <1>3, <2>1, <2>3, <3>2, OwnOverlap DEF OwnInv
  <2> QED
    BY <1>5, <1>8, <2>2, <2>3, IdleType DEF ReportOutcome, ReportFails
<1>9. ASSUME PullImage PROVE OwnInv'
  <2>1. \/ worker' = [worker EXCEPT !.at = "create"]
        \/ worker' = [worker EXCEPT !.at = "report", !.out = "FAILED"]
        \/ worker' = [worker EXCEPT !.tries = worker.tries + 1]
    BY <1>9 DEF PullImage, Goto, End
  <2>2. worker'.at \in {"create", "report", "pull"}
    BY <1>0, <1>9, <2>1 DEF PullImage, TypeOK, WorkerType
  <2> QED
    BY <1>2, <1>3, <1>9, <2>2 DEF PullImage
<1>10. ASSUME CreateContainer PROVE OwnInv'
  <2>1. worker'.at \notin {"react", "remove"}
    BY <1>0, <1>10 DEF CreateContainer, End, TypeOK, WorkerType
  <2>2. \A b \in Boxes : OwnRunning(b)' => OwnRunning(b)
    BY <1>3, <1>6, <1>10, ChosenUnused DEF CreateContainer
  <2> QED
    BY <1>2, <1>10, <2>1, <2>2 DEF CreateContainer
<1>11. ASSUME StartContainer PROVE OwnInv'
  <2>1. CASE End("report", "FAILED") /\ box' = box
    <3>1. worker'.at \notin {"react", "remove"}
      BY <1>0, <2>1 DEF End, TypeOK, WorkerType
    <3> QED
      BY <1>2, <1>3, <1>11, <2>1, <3>1 DEF StartContainer
  <2>2. CASE Goto("wait") /\ box' = [box EXCEPT ![worker.id].st = "running"]
    <3>1. worker'.at = "wait" /\ worker'.id = worker.id /\ worker.id \in Boxes
      BY <1>0, <1>11, <2>2 DEF StartContainer, Goto, IdInv, TypeOK, WorkerType
    <3>2. \A b \in Boxes : b # worker.id => box'[b] = box[b]
      BY <1>0, <2>2, <3>1 DEF TypeOK
    <3>3. \A b \in Boxes : ~OwnRunning(b)
      <4>1. Turn(worker.idx) /\ worker.at = "start"
        BY <1>11 DEF StartContainer, IInv, TurnInv, Busy, Steps
      <4>2. workflow.st \notin W!Final
        BY <4>1 DEF Turn, W!Final
      <4> QED
        BY <4>1, <4>2 DEF OwnInv
    <3>4. \A b \in Boxes : OwnRunning(b)' => b = worker.id
      BY <3>2, <3>3 DEF OwnRunning, Running
    <3> QED
      BY <3>1, <3>4 DEF OwnInv, OverlapOnlyAfterCrash, OwnRunning
  <2> QED
    BY <1>11, <2>1, <2>2 DEF StartContainer
<1>12. ASSUME WaitForContainer PROVE OwnInv'
  <2>1. worker'.at \in {"remove", "react"} /\ worker'.id = worker.id /\ box' = box
        /\ worker.at = "wait"
    BY <1>0, <1>12 DEF WaitForContainer, End, TypeOK, WorkerType
  <2>2. worker'.out = "SUCCESS" => box[worker.id].st = "ok"
    <3>1. CASE End("remove", "FAILED")
      BY <1>0, <3>1 DEF End, TypeOK, WorkerType
    <3>2. ASSUME NEW o \in Outcomes(worker.id),
                 worker' = [worker EXCEPT !.out = o[1], !.reacted = Reaction(o[1], o[2]),
                              !.at = IF Reaction(o[1], o[2]) = "no" THEN "remove" ELSE "react"]
          PROVE  worker'.out = "SUCCESS" => box[worker.id].st = "ok"
      <4>1. worker'.out = o[1]
        BY <1>0, <3>2 DEF TypeOK, WorkerType
      <4> QED
        BY <4>1, OutcomeCases
    <3> QED
      BY <1>12, <3>1, <3>2 DEF WaitForContainer
  <2> QED
    BY <1>0, <1>3, <2>1, <2>2, OwnOverlap DEF OwnInv
<1>13. ASSUME ExecuteReaction PROVE OwnInv'
  <2> DEFINE c == CHOOSE c \in Unused : TRUE
  <2>1. /\ worker'.at = "remove" /\ worker'.id = worker.id /\ worker'.out = worker.out
        /\ worker.at = "react" /\ worker.id \in Boxes /\ box[worker.id].st # "free"
    BY <1>0, <1>13 DEF ExecuteReaction, Goto, IdInv, TypeOK, WorkerType
  <2>2. CASE box' = box
    BY <1>0, <1>3, <2>1, <2>2, OwnOverlap DEF OwnInv
  <2>3. ASSUME NEW st, Unused # {}, New(c, st, TRUE) PROVE OwnInv'
    <3>1. c \in Boxes /\ c # worker.id
      BY <2>1, <2>3, ChosenUnused
    <3> HIDE DEF c
    <3>2. box'[worker.id] = box[worker.id]
      BY <1>0, <2>1, <2>3, <3>1 DEF New, TypeOK
    <3>3. \A b \in Boxes : OwnRunning(b)' => OwnRunning(b)
      BY <1>6, <2>3, <3>1
    <3> QED
      BY <1>0, <2>1, <3>2, <3>3, OwnOverlap DEF OwnInv
  <2> QED
    BY <1>13, <2>2, <2>3 DEF ExecuteReaction
<1>14. ASSUME RemoveContainer PROVE OwnInv'
  <2>1. /\ worker'.at = "report" /\ worker'.out = worker.out /\ worker.at = "remove"
        /\ worker.id \in Boxes /\ worker.out \in {"SUCCESS", "FAILED", "TIMEOUT"}
    BY <1>0, <1>14 DEF RemoveContainer, Goto, IInv, IdInv, OutcomeInv, TypeOK, WorkerType
  <2> DEFINE killed == IF box[worker.id].st = "running" THEN "failed" ELSE box[worker.id].st
  <2>2. \A b \in Boxes : OwnRunning(b)' => OwnRunning(b)
    <3>1. CASE box' = box
      BY <1>3, <3>1
    <3>2. CASE box' = [box EXCEPT ![worker.id].st = killed]
      BY <1>0, <2>1, <3>2 DEF TypeOK, BoxType, OwnRunning, Running
    <3>3. CASE box' = [box EXCEPT ![worker.id] = NoBox]
      BY <1>0, <2>1, <3>3, NoBoxType DEF TypeOK, OwnRunning, Running
    <3> QED
      BY <1>14, <3>1, <3>2, <3>3 DEF RemoveContainer
  <2>3. ASSUME worker.out = "SUCCESS", NEW b \in Boxes, OwnRunning(b)
        PROVE  workflow.st \in W!Final
    BY <2>1, <2>3 DEF OwnInv, OwnRunning, Running
  <2>4. \A b \in Boxes : OwnRunning(b)' =>
          worker.out \in {"FAILED", "TIMEOUT"} \/ workflow'.st \in W!Final
    BY <1>0, <2>1, <2>2, <2>3
  <2> QED
    BY <1>0, <2>1, <2>2, <2>4, OwnOverlap DEF OwnInv
<1>15. ASSUME RebootWatch \/ PowerCycle PROVE OwnInv'
  <2>1. worker' = IdleWorker \/ worker'.at = "gone"
    BY <1>15 DEF RebootWatch, PowerCycle, Crashes, IdleWorker
  <2>2. \A b \in Boxes : ~OwnRunning(b)'
    BY <1>15, NoBoxType DEF RebootWatch, PowerCycle, OwnRunning, Running
  <2> QED
    BY <1>4, <2>1, <2>2
<1>16. ASSUME Crash PROVE OwnInv'
  BY <1>0, <1>4, <1>16 DEF Crash, Crashes, OwnRunning, TypeOK, BoxType
<1>17. ASSUME NEW c \in Boxes, Exit(c) PROVE OwnInv'
  <2>1. \A b \in Boxes : box'[b].st = "running" => box'[b] = box[b]
    BY <1>0, <1>17 DEF Exit, TypeOK, BoxType
  <2>2. \A b \in Boxes : OwnRunning(b)' => OwnRunning(b)
    BY <2>1 DEF OwnRunning, Running
  <2>3. worker' = worker
    BY <1>17 DEF Exit
  <2>4. ASSUME worker.at \in {"react", "remove"}, worker.out = "SUCCESS"
        PROVE  box'[worker.id].st # "running"
    <3>1. worker.id \in Boxes /\ box[worker.id].st # "running"
      BY <1>0, <2>4 DEF OwnInv, IdInv
    <3> QED
      BY <2>1, <3>1
  <2> QED
    BY <1>0, <2>2, <2>3, <2>4, OwnOverlap DEF OwnInv
<1> QED
  BY <1>1, <1>7, <1>8, <1>9, <1>10, <1>11, <1>12, <1>13, <1>14, <1>15, <1>16, <1>17
  DEF Next, WorkerStep, DeleteWorkflow, OtherWorker, vars

\* A failed call never makes two actions run at the same time (OverlapOnlyAfterCrash).
THEOREM OneActionAtATime == Spec => []OverlapOnlyAfterCrash
<1>1. Init => OwnInv
  BY IdleType, NoBoxType DEF Init, OwnInv, OwnRunning, Running, OverlapOnlyAfterCrash
<1>2. OwnInv => OverlapOnlyAfterCrash
  BY DEF OwnInv
<1> QED
  BY Inductive, OwnInvStep, <1>1, <1>2, PTL DEF Spec

=============================================================================
