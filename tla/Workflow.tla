------------------------------ MODULE Workflow ------------------------------
(***************************************************************************)
(* What the Tinkerbell server and the Onboarding Manager may rely on: the  *)
(* actions of a workflow are done one after another, and the current one   *)
(* and its state only ever tell what has really been done.  TinkWorker     *)
(* implements it, whatever fails.                                          *)
(***************************************************************************)
EXTENDS Naturals, TLAPS

CONSTANT N \* number of actions of the workflow

VARIABLES
  exists, \* the workflow has not been deleted
  cur,    \* its current action, 0 for none
  st,     \* the state of that action
  done    \* the actions that have been done

vars == <<exists, cur, st, done>>

Final == {"FAILED", "TIMEOUT"}

Init == exists = TRUE /\ cur = 0 /\ st = "PENDING" /\ done = {}

\* An action is done, perhaps once more, after all those before it.
Do(i) ==
  /\ 1..(i - 1) \subseteq done
  /\ done' = done \cup {i}
  /\ UNCHANGED <<exists, cur, st>>

\* The current action, or the next one when it was successful, has a new state.
Report ==
  /\ exists /\ st \notin Final
  /\ cur' = IF st \in {"PENDING", "SUCCESS"} THEN cur + 1 ELSE cur
  /\ cur' \in 1..N
  /\ st' \in {"RUNNING", "SUCCESS", "FAILED", "TIMEOUT"}
  /\ st' = "SUCCESS" => cur' \in done
  /\ UNCHANGED <<exists, done>>

Delete == exists /\ exists' = FALSE /\ UNCHANGED <<cur, st, done>>

Next == Report \/ Delete \/ \E i \in 1..N : Do(i)

Spec == Init /\ [][Next]_vars

-----------------------------------------------------------------------------
\* Nothing is left out: every action before the current one has been done, and so
\* has the current one if it is called successful.
SuccessIsReal ==
  1..(cur - 1) \subseteq done /\ (st = "SUCCESS" => cur \in done)

\* A failed or timed-out workflow stays so (workflow.proto:49, 55: "final state").
FailureIsFinal == [][st' # st => st \notin Final]_vars

\* What makes SuccessIsReal inductive: a workflow waits for its first action or
\* has turned to one.
TypeOK ==
  /\ cur \in 0..N /\ done \subseteq 1..N
  /\ st \in {"PENDING", "RUNNING", "SUCCESS"} \cup Final
  /\ st = "PENDING" <=> cur = 0
IInv == TypeOK /\ SuccessIsReal

LEMMA Inductive == ASSUME N \in Nat PROVE Spec => []IInv
<1>1. Init => IInv
  BY DEF Init, IInv, TypeOK, SuccessIsReal, Final
<1>2. ASSUME IInv, [Next]_vars PROVE IInv'
  <2>1. ASSUME Report PROVE IInv'
    <3>1. CASE st = "RUNNING"
      BY <1>2, <2>1, <3>1 DEF Report, IInv, TypeOK, SuccessIsReal, Final
    <3>2. CASE st \in {"PENDING", "SUCCESS"}
      <4>1. cur \in Nat /\ cur' = cur + 1 /\ done' = done /\ cur' - 1 = cur
        BY <1>2, <2>1, <3>2 DEF Report, IInv, TypeOK
      <4>2. 1..cur \subseteq done
        BY <1>2, <3>2, <4>1 DEF IInv, TypeOK, SuccessIsReal
      <4>3. TypeOK'
        BY <1>2, <2>1, <4>1 DEF Report, IInv, TypeOK, Final
      <4> QED
        BY <2>1, <4>1, <4>2, <4>3 DEF Report, IInv, SuccessIsReal
    <3> QED
      BY <1>2, <2>1, <3>1, <3>2 DEF IInv, TypeOK, Report
  <2>2. ASSUME Delete \/ UNCHANGED vars PROVE IInv'
    BY <1>2, <2>2 DEF Delete, vars, IInv, TypeOK, SuccessIsReal, Final
  <2>3. ASSUME NEW i \in 1..N, Do(i) PROVE IInv'
    BY <1>2, <2>3 DEF Do, IInv, TypeOK, SuccessIsReal, Final
  <2> QED
    BY <1>2, <2>1, <2>2, <2>3 DEF Next
<1> QED
  BY <1>1, <1>2, PTL DEF Spec

\* What the server takes for successful has really been done (SuccessIsReal).
THEOREM SuccessesAreReal == ASSUME N \in Nat PROVE Spec => []SuccessIsReal
<1>1. IInv => SuccessIsReal
  BY DEF IInv
<1> QED
  BY Inductive, <1>1, PTL

\* Nothing follows a failure (FailureIsFinal).
THEOREM FailuresAreFinal == Spec => FailureIsFinal
<1>1. [Next]_vars => [st' # st => st \notin Final]_vars
  BY DEF Next, Report, Delete, Do, vars
<1> QED
  BY <1>1, PTL DEF Spec, FailureIsFinal

=============================================================================
