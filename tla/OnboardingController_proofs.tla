---------------------- MODULE OnboardingController_proofs ----------------------
(***************************************************************************)
(* Theorems about OnboardingController, for any hosts and Instances, any   *)
(* number of changes, lost events, failing calls and restarts, and a       *)
(* channel of any capacity.                                                *)
(***************************************************************************)
EXTENDS OnboardingController, TLAPS

-----------------------------------------------------------------------------
(* The inductive invariant.                                                *)

\* Before the Inventory client exists, Start has not returned.
Starting == loop.at = "boot" => loop.starting

\* A host has one Instance at a time.
OneInstance ==
  \A i, j \in Instances :
    res[i].st = "yes" /\ res[j].st = "yes" /\ Owner[i] = Owner[j] => i = j

\* A version that was dealt with is not newer than one that is read, and this one
\* not newer than the resource; a reconciler works on its own kind.
Versions ==
  /\ \A r \in Resources : seen[r] <= res[r].ver /\ (res[r].st = "no" => res[r].ver = 0)
  /\ \A k \in Kinds : LET r == pass[k].id IN
       r # None => r \in Of(k) /\ seen[r] <= pass[k].ver /\ pass[k].ver <= res[r].ver

\* What the property allows for a version of r that was not dealt with.
Coming(r) == \/ InStream(r) \/ Signalled(r) \/ r \in queue
             \/ InPass(r) \/ WillBeListed(r) \/ r \in missed

IInv == TypeOK /\ Starting /\ OneInstance /\ Versions /\ NoChangeLost

-----------------------------------------------------------------------------
(* Queues, and types.                                                      *)

\* What is appended is last, and what was there stays where it was.
LEMMA Appended ==
  ASSUME NEW S, NEW s \in Seq(S), NEW x \in S
  PROVE  /\ Append(s, x) \in Seq(S) /\ Len(Append(s, x)) = Len(s) + 1
         /\ \A j \in 1..Len(s) : j \in 1..Len(Append(s, x)) /\ Append(s, x)[j] = s[j]
         /\ Len(s) + 1 \in 1..Len(Append(s, x)) /\ Append(s, x)[Len(s) + 1] = x
OBVIOUS

\* Without its head a queue keeps everything else.
LEMMA Taken ==
  ASSUME NEW S, NEW s \in Seq(S), s # <<>>
  PROVE  /\ Head(s) \in S /\ Tail(s) \in Seq(S) /\ Len(Tail(s)) <= Len(s)
         /\ \A j \in 1..Len(s) :
              s[j] = Head(s) \/ (j - 1 \in 1..Len(Tail(s)) /\ Tail(s)[j - 1] = s[j])
OBVIOUS

LEMMA ExitTypes ==
  ASSUME TypeOK, Exit, budget' \in [changes : Nat, troubles : Nat]
  PROVE  TypeOK'
<1>1. loop' \in LoopType
  BY DEF Exit, Booting, LoopType
<1>2. pass' \in [Kinds -> PassType]
  BY DEF Exit, NoPass, PassType
<1>3. watcher' \in Seq(Events) /\ internal' \in Seq(Instances) /\ Len(internal') <= BufSize
  BY BoundsAssumption DEF Exit
<1> QED
  BY <1>1, <1>2, <1>3 DEF Exit, TypeOK

LEMMA BudgetTypes == ASSUME TypeOK, Fault \/ NoFault
                     PROVE  budget' \in [changes : Nat, troubles : Nat]
BY DEF TypeOK, Fault, NoFault

LEMMA NotifyTypes ==
  ASSUME TypeOK, NEW r \in Resources, NEW kind \in EventKinds, Notify(r, kind)
  PROVE  /\ watcher' \in Seq(Events) /\ missed' \in SUBSET Resources
         /\ budget' \in [changes : Nat, troubles : Nat]
<1>1. [id |-> r, kind |-> kind] \in Events
  BY DEF Events
<1>2. watcher' \in Seq(Events)
  <2>1. watcher \in Seq(Events) /\ (watcher' = watcher \/ watcher' = Append(watcher, [id |-> r, kind |-> kind]))
    BY DEF Notify, TypeOK
  <2> QED
    BY <1>1, <2>1, Appended
<1>3. budget' \in [changes : Nat, troubles : Nat]
  <2>1. /\ budget.changes + 1 \in Nat /\ budget.troubles + 1 \in Nat
        /\ budget \in [changes : Nat, troubles : Nat]
    BY DEF TypeOK
  <2> QED
    BY <2>1 DEF Notify
<1> QED
  BY <1>2, <1>3 DEF Notify, TypeOK

LEMMA LoopTypes ==
  ASSUME loop \in LoopType,
         NEW at \in {"boot", "hosts", "instances", "idle", "fatal"}, NEW hs \in SUBSET Hosts
  PROVE  /\ [loop EXCEPT !.at = at] \in LoopType
         /\ [loop EXCEPT !.at = at, !.hosts = hs] \in LoopType
         /\ [loop EXCEPT !.at = at, !.starting = FALSE, !.hosts = hs] \in LoopType
BY DEF LoopType

\* A resource is written.
LEMMA WriteType ==
  ASSUME TypeOK, NEW r \in Resources, NEW x \in ResourceType
  PROVE  [res EXCEPT ![r] = x] \in [Resources -> ResourceType]
BY DEF TypeOK

LEMMA EnvironmentTypes == ASSUME TypeOK, Environment PROVE TypeOK'
<1>1. ASSUME NEW r \in Resources, Create(r) \/ Update(r) \/ Delete(r) PROVE TypeOK'
  <2>1. /\ [st |-> "yes", ver |-> 1] \in ResourceType
        /\ [res[r] EXCEPT !.ver = @ + 1] \in ResourceType
        /\ [res[r] EXCEPT !.st = "gone"] \in ResourceType
    BY DEF TypeOK, ResourceType
  <2>2. res' \in [Resources -> ResourceType]
    BY <1>1, <2>1, WriteType DEF Create, Update, Delete
  <2>3. PICK kind \in EventKinds : Notify(r, kind)
    BY <1>1 DEF Create, Update, Delete, EventKinds
  <2> QED
    BY <1>1, <2>2, <2>3, NotifyTypes DEF Create, Update, Delete, managerSide, TypeOK
<1>2. ASSUME NEW h \in Hosts, OnboardHost(h) PROVE TypeOK'
  <2>1. ASSUME NEW r \in Resources
        PROVE  res[r] \in ResourceType /\ [res[r] EXCEPT !.ver = @ + 1] \in ResourceType
    BY DEF TypeOK, ResourceType
  <2>2. res' \in [Resources -> ResourceType]
    BY <1>2, <2>1 DEF OnboardHost
  <2>3. Notify(h, "UPDATED") /\ h \in Resources /\ "UPDATED" \in EventKinds
    BY <1>2 DEF OnboardHost, Resources, EventKinds
  <2> QED
    BY <1>2, <2>2, <2>3, NotifyTypes DEF OnboardHost, managerSide, TypeOK
<1>3. ASSUME NEW h \in Hosts, CreateNodesAgain(h) PROVE TypeOK'
  BY <1>3 DEF CreateNodesAgain, managerSide, TypeOK
<1> QED
  BY <1>1, <1>2, <1>3 DEF Environment

LEMMA SignalTypes ==
  ASSUME TypeOK, NEW h \in Hosts, StartZeroTouch(h)
  PROVE  TypeOK'
<1> DEFINE is == {i \in Listed(Instances) : Owner[i] = h}
<1>1. is \subseteq Instances /\ is \subseteq Resources
  BY DEF Listed, Resources
<1>2. \/ missed' = missed \cup is /\ UNCHANGED internal
      \/ UNCHANGED <<internal, missed>>
      \/ \E i \in is : SendInternalEvent(i)
  BY DEF StartZeroTouch
<1>3. sb' \in SUBSET Hosts /\ (Fault \/ NoFault)
  BY DEF StartZeroTouch, TypeOK
<1>4. UNCHANGED <<res, watcher, loop, queue, pass, seen>>
  BY DEF StartZeroTouch
<1> HIDE DEF is
<1>5. /\ internal' \in Seq(Instances) /\ Len(internal') <= BufSize
      /\ missed' \in SUBSET Resources
  <2>1. ASSUME NEW i \in is, SendInternalEvent(i) 
        PROVE  /\ internal' \in Seq(Instances) /\ Len(internal') <= BufSize
               /\ missed' \in SUBSET Resources
    <3>1. internal \in Seq(Instances) /\ Len(internal) \in Nat /\ i \in Instances /\ i \in Resources
      BY <1>1 DEF TypeOK
    <3>2. CASE Len(internal) < BufSize
      <4>1. internal' = Append(internal, i) /\ missed' = missed
        BY <2>1, <3>2 DEF SendInternalEvent
      <4>2. internal' \in Seq(Instances) /\ Len(internal') = Len(internal) + 1
        BY <3>1, <4>1, Appended
      <4> QED
        BY <3>1, <3>2, <4>1, <4>2, BoundsAssumption DEF TypeOK
    <3>3. CASE ~(Len(internal) < BufSize)
      BY <2>1, <3>1, <3>3 DEF SendInternalEvent, TypeOK
    <3> QED
      BY <3>2, <3>3
  <2> QED
    BY <1>1, <1>2, <2>1 DEF TypeOK
<1> QED
  BY <1>3, <1>4, <1>5, BudgetTypes DEF StartZeroTouch, TypeOK

LEMMA ControllerTypes ==
  ASSUME TypeOK, Listing \/ Tick \/ Crash \/ HandleInventoryEvent \/ HandleInternalEvent
  PROVE  TypeOK'
<1>1. Fault \/ NoFault => budget' \in [changes : Nat, troubles : Nat]
  BY BudgetTypes
<1>2. CASE Fatal \/ Crash
  BY <1>1, <1>2, ExitTypes DEF Fatal, Crash
<1>3. CASE Boot
  <2>1. PICK skip \in Modes : loop' = [Booting EXCEPT !.at = "hosts", !.skip = skip]
    BY <1>3 DEF Boot
  <2>2. loop' \in LoopType
    BY <2>1, BoundsAssumption DEF Booting, LoopType
  <2> QED
    BY <1>3, <2>2 DEF Boot, TypeOK
<1>4. CASE Tick
  <2>1. loop' \in LoopType
    BY <1>4, LoopTypes DEF Tick, TypeOK
  <2> QED
    BY <1>4, <2>1 DEF Tick, TypeOK
<1>5. ASSUME Fault, ListingFails PROVE TypeOK'
  <2>1. CASE loop.starting
    BY <1>1, <1>5, <2>1, ExitTypes DEF ListingFails
  <2>2. CASE ~loop.starting
    <3>1. loop' \in LoopType
      BY <1>5, <2>2, LoopTypes DEF ListingFails, Idle, TypeOK
    <3> QED
      BY <1>1, <1>5, <2>2, <3>1 DEF ListingFails, TypeOK
  <2> QED
    BY <2>1, <2>2
<1>6. ASSUME FindHosts, ~(Fault /\ ListingFails) PROVE TypeOK'
  <2>1. Listed(Hosts) \subseteq Hosts
    BY DEF Listed
  <2>2. loop' \in LoopType
    <3>1. loop \in LoopType /\ loop' = [loop EXCEPT !.at = "instances", !.hosts = Listed(Hosts)]
      BY <1>6 DEF FindHosts, TypeOK
    <3> QED
      BY <2>1, <3>1, LoopTypes
  <2> QED
    BY <1>1, <1>6, <2>2 DEF FindHosts, TypeOK
<1>7. ASSUME FindInstances, ~(Fault /\ ListingFails) PROVE TypeOK'
  <2>1. loop' \in LoopType
    BY <1>7, LoopTypes DEF FindInstances, Idle, TypeOK
  <2>2. queue' \in SUBSET Resources /\ missed' \in SUBSET Resources
    BY <1>7 DEF FindInstances, Managed, TypeOK
  <2> QED
    BY <1>1, <1>7, <2>1, <2>2 DEF FindInstances, TypeOK
<1>8. CASE HandleInventoryEvent
  <2>1. watcher' \in Seq(Events)
    BY <1>8, Taken DEF HandleInventoryEvent, TypeOK
  <2>2. queue' \in SUBSET Resources
    BY <1>8 DEF HandleInventoryEvent, ReconcileResource, Managed, TypeOK
  <2> QED
    BY <1>8, <2>1, <2>2 DEF HandleInventoryEvent, TypeOK
<1>9. CASE HandleInternalEvent
  <2>1. internal' \in Seq(Instances) /\ Len(internal') <= BufSize
    <3>1. internal \in Seq(Instances) /\ internal # <<>> /\ Len(internal) <= BufSize /\ internal' = Tail(internal)
      BY <1>9 DEF HandleInternalEvent, TypeOK
    <3> QED
      BY <3>1, BoundsAssumption
  <2>2. queue' \in SUBSET Resources
    BY <1>9 DEF HandleInternalEvent, ReconcileResource, Managed, TypeOK
  <2> QED
    BY <1>9, <2>1, <2>2 DEF HandleInternalEvent, TypeOK
<1> QED
  BY <1>2, <1>3, <1>4, <1>5, <1>6, <1>7, <1>8, <1>9 DEF Listing, FindHosts, FindInstances

LEMMA KindIs == ASSUME NEW r \in Resources
                PROVE  Kind(r) \in Kinds /\ \A k \in Kinds : r \in Of(k) <=> Kind(r) = k
BY OwnerAssumption DEF Kind, Kinds, Of, Resources

LEMMA PassTypes == ASSUME TypeOK, NEW k \in Kinds, StartPass(k) \/ FinishPass(k) PROVE TypeOK'
<1>1. Of(k) \subseteq Resources
  BY DEF Of, Resources
<1>2. CASE StartPass(k)
  <2>1. PICK r \in queue \cap Of(k) :
          \/ /\ NoFault /\ queue' = queue \ {r} /\ UNCHANGED missed
             /\ pass' = IF res[r].st = "yes"
                        THEN [pass EXCEPT ![k] = [id |-> r, ver |-> res[r].ver]] ELSE pass
          \/ Fault /\ UNCHANGED <<queue, pass, missed>>
          \/ Fault /\ queue' = queue \ {r} /\ missed' = missed \cup {r} /\ UNCHANGED pass
    BY <1>2 DEF StartPass
  <2>2. [id |-> r, ver |-> res[r].ver] \in PassType
    BY <1>1 DEF TypeOK, ResourceType, PassType
  <2>3. pass' \in [Kinds -> PassType]
    BY <2>1, <2>2 DEF TypeOK
  <2>4. queue' \in SUBSET Resources /\ missed' \in SUBSET Resources
    BY <1>1, <2>1 DEF TypeOK
  <2> QED
    BY <1>2, <2>1, <2>3, <2>4, BudgetTypes DEF StartPass, TypeOK
<1>3. CASE FinishPass(k)
  <2> DEFINE r == pass[k].id
  <2>1. r \in Resources /\ pass[k].ver \in Nat /\ NoPass \in PassType
    BY <1>3 DEF FinishPass, TypeOK, PassType, NoPass
  <2>2. /\ pass' \in [Kinds -> PassType] /\ seen' \in [Resources -> Nat]
        /\ queue' \in SUBSET Resources /\ missed' \in SUBSET Resources
    BY <1>3, <2>1 DEF FinishPass, TypeOK
  <2> QED
    BY <1>3, <2>2, BudgetTypes DEF FinishPass, TypeOK
<1> QED
  BY <1>2, <1>3

LEMMA TypeOKStep == TypeOK /\ [Next]_vars => TypeOK'
<1>1. TypeOK /\ UNCHANGED vars => TypeOK'
  BY DEF TypeOK, vars
<1> QED
  BY <1>1, EnvironmentTypes, ControllerTypes, SignalTypes, PassTypes DEF Next

-----------------------------------------------------------------------------
(* The start, one Instance a host, and versions.                           *)

\* What the Inventory does to a resource.
LEMMA Writes ==
  ASSUME IInv, Environment, NEW r \in Resources
  PROVE  /\ res[r] \in ResourceType /\ res'[r] \in ResourceType
         /\ res[r].ver <= res'[r].ver
         /\ res'[r].st = "no" => res'[r] = res[r]
         /\ UNCHANGED managerSide
<1>1. res[r] \in ResourceType
  BY DEF IInv, TypeOK
<1>2. ASSUME NEW x \in Resources, Create(x) \/ Update(x) \/ Delete(x)
      PROVE  res[r].ver <= res'[r].ver /\ (res'[r].st = "no" => res'[r] = res[r])
  <2>1. r # x => res'[r] = res[r]
    BY <1>2 DEF IInv, TypeOK, Create, Update, Delete
  <2>2. CASE Create(x)
    BY <1>1, <2>1, <2>2 DEF Create, IInv, TypeOK, Versions, ResourceType
  <2>3. CASE Update(x)
    <3>1. res'[x] = [res[x] EXCEPT !.ver = @ + 1]
      BY <2>3 DEF Update, IInv, TypeOK
    <3> QED
      BY <1>1, <2>1, <2>3, <3>1 DEF Update, ResourceType
  <2>4. CASE Delete(x)
    <3>1. res'[x] = [res[x] EXCEPT !.st = "gone"]
      BY <2>4 DEF Delete, IInv, TypeOK
    <3> QED
      BY <1>1, <2>1, <3>1 DEF ResourceType
  <2> QED
    BY <1>2, <2>2, <2>3, <2>4
<1>3. ASSUME NEW h \in Hosts, OnboardHost(h)
      PROVE  res[r].ver <= res'[r].ver /\ (res'[r].st = "no" => res'[r] = res[r])
  <2>1. res'[r] = res[r] \/ (res'[r] = [res[r] EXCEPT !.ver = @ + 1] /\ res[r].st = "yes")
    BY <1>3 DEF OnboardHost, Listed
  <2> QED
    BY <1>1, <2>1 DEF ResourceType
<1>4. ASSUME NEW h \in Hosts, CreateNodesAgain(h) PROVE res' = res
  BY <1>4 DEF CreateNodesAgain
<1>5. res[r].ver <= res'[r].ver /\ (res'[r].st = "no" => res'[r] = res[r])
  BY <1>1, <1>2, <1>3, <1>4 DEF Environment, ResourceType
<1>6. UNCHANGED managerSide
  BY DEF Environment, Create, Update, Delete, OnboardHost, CreateNodesAgain
<1>7. res'[r] \in ResourceType
  BY EnvironmentTypes DEF IInv, TypeOK
<1> QED
  BY <1>1, <1>5, <1>6, <1>7

\* Only a created Instance is new.
LEMMA OneInstanceStep == IInv /\ [Next]_vars => OneInstance'
<1> SUFFICES ASSUME IInv, [Next]_vars PROVE OneInstance'
  OBVIOUS
<1>1. ASSUME \A i \in Instances : res'[i].st = "yes" => res[i].st = "yes" PROVE OneInstance'
  BY <1>1 DEF IInv, OneInstance
<1>2. ASSUME NEW r \in Resources, Create(r) PROVE OneInstance'
  <2>1. \A i \in Instances : i # r => res'[i] = res[i]
    BY <1>2 DEF Create, IInv, TypeOK, Resources
  <2> QED
    BY <1>2, <2>1 DEF Create, IInv, OneInstance
<1>3. ASSUME NEW r \in Resources, Update(r) \/ Delete(r) PROVE OneInstance'
  <2>1. /\ \A i \in Instances : i # r => res'[i] = res[i]
        /\ res[r].st = "yes"
    BY <1>3 DEF Update, Delete, IInv, TypeOK, Resources
  <2> QED
    BY <1>1, <2>1
<1>4. ASSUME NEW h \in Hosts, OnboardHost(h) PROVE OneInstance'
  <2>1. ASSUME NEW i \in Instances PROVE res'[i] = res[i] \/ res[i].st = "yes"
    BY <1>4 DEF OnboardHost, Resources, Listed
  <2> QED
    BY <1>1, <2>1
<1>5. UNCHANGED res => OneInstance'
  BY <1>1
<1> QED
  BY <1>2, <1>3, <1>4, <1>5
  DEF Next, vars, Environment, CreateNodesAgain, Listing, Boot, FindHosts, FindInstances, Fatal,
      ListingFails, Exit, Tick, Crash, HandleInventoryEvent, HandleInternalEvent, StartZeroTouch,
      StartPass, FinishPass

LEMMA StartingStep == IInv /\ [Next]_vars => Starting'
<1> SUFFICES ASSUME IInv, [Next]_vars PROVE Starting'
  OBVIOUS
<1>1. UNCHANGED loop => Starting'
  BY DEF IInv, Starting
<1>2. Exit => Starting'
  BY DEF Exit, Booting, Starting
<1>3. Idle => Starting'
  BY DEF Idle, IInv, TypeOK, LoopType, Starting
<1>4. ListingFails => Starting'
  BY <1>2, <1>3 DEF ListingFails
<1>5. Boot \/ Tick \/ FindHosts \/ FindInstances => Starting'
  BY <1>3, <1>4 DEF Boot, Booting, Tick, FindHosts, FindInstances, IInv, TypeOK, LoopType, Starting
<1> QED
  BY <1>1, <1>2, <1>5
  DEF Next, vars, Environment, CreateNodesAgain, OnboardHost, Create, Update, Delete, managerSide,
      Listing, Fatal, Crash, HandleInventoryEvent, HandleInternalEvent, StartZeroTouch,
      StartPass, FinishPass

LEMMA VersionsStep == IInv /\ [Next]_vars => Versions'
<1> SUFFICES ASSUME IInv, [Next]_vars PROVE Versions'
  OBVIOUS
<1>0. \A r \in Resources : seen[r] \in Nat /\ res[r] \in ResourceType /\ res[r].ver \in Nat
  BY DEF IInv, TypeOK, ResourceType
<1>1. CASE UNCHANGED <<res, seen, pass>>
  BY <1>1 DEF IInv, Versions
<1>2. CASE Environment
  <2>1. UNCHANGED <<seen, pass>>
    BY <1>2 DEF Environment, Create, Update, Delete, OnboardHost, CreateNodesAgain, managerSide
  <2>2. ASSUME NEW r \in Resources
        PROVE  seen[r] <= res'[r].ver /\ (res'[r].st = "no" => res'[r].ver = 0)
    <3>1. /\ res[r] \in ResourceType /\ res'[r] \in ResourceType
          /\ res[r].ver <= res'[r].ver /\ (res'[r].st = "no" => res'[r] = res[r])
      BY <1>2, Writes
    <3> QED
      BY <1>0, <3>1 DEF IInv, Versions, ResourceType
  <2>3. ASSUME NEW k \in Kinds, pass[k].id # None
        PROVE  pass[k].id \in Of(k) /\ pass[k].ver <= res'[pass[k].id].ver
    <3>1. /\ pass[k].id \in Of(k) /\ pass[k].ver <= res[pass[k].id].ver
          /\ pass[k].id \in Resources /\ pass[k].ver \in Nat
      BY <2>3 DEF IInv, Versions, TypeOK, PassType
    <3>2. res[pass[k].id].ver <= res'[pass[k].id].ver /\ res'[pass[k].id] \in ResourceType
      BY <1>2, <3>1, Writes
    <3> QED
      BY <1>0, <3>1, <3>2 DEF ResourceType
  <2> QED
    BY <2>1, <2>2, <2>3 DEF IInv, Versions
<1>3. ASSUME UNCHANGED <<res, seen>>, pass' = [k \in Kinds |-> NoPass] PROVE Versions'
  BY <1>3 DEF IInv, Versions, NoPass
<1>4. ASSUME NEW k \in Kinds, StartPass(k) PROVE Versions'
  <2>1. UNCHANGED <<res, seen>>
    BY <1>4 DEF StartPass
  <2>2. CASE UNCHANGED pass
    BY <1>1, <2>1, <2>2
  <2>3. CASE pass' # pass
    <3>1. PICK r \in Of(k) : pass' = [pass EXCEPT ![k] = [id |-> r, ver |-> res[r].ver]]
      BY <1>4, <2>3 DEF StartPass
    <3>2. r \in Resources
      BY DEF Of, Resources
    <3>3. /\ pass'[k].id = r /\ pass'[k].ver = res[r].ver
          /\ \A j \in Kinds : j # k => pass'[j] = pass[j]
      BY <3>1 DEF IInv, TypeOK
    <3> QED
      BY <1>0, <2>1, <3>1, <3>2, <3>3 DEF IInv, Versions
  <2> QED
    BY <2>2, <2>3
<1>5. ASSUME NEW k \in Kinds, FinishPass(k) PROVE Versions'
  <2> DEFINE r == pass[k].id
  <2>1. /\ UNCHANGED res /\ r # None /\ r \in Resources /\ r \in Of(k)
        /\ pass[k].ver \in Nat /\ pass[k].ver <= res[r].ver
        /\ pass' = [pass EXCEPT ![k] = NoPass]
        /\ seen' = seen \/ seen' = [seen EXCEPT ![r] = pass[k].ver]
    BY <1>5 DEF FinishPass, IInv, Versions, TypeOK, PassType
  <2>2. \A j \in Kinds : j # k /\ pass[j].id # None => pass[j].id # r
    BY <2>1, OwnerAssumption DEF IInv, Versions, Kinds, Of
  <2>3. /\ pass'[k].id = None /\ \A j \in Kinds : j # k => pass'[j] = pass[j]
        /\ \A x \in Resources : x # r => seen'[x] = seen[x]
        /\ seen'[r] = seen[r] \/ seen'[r] = pass[k].ver
    BY <2>1 DEF IInv, TypeOK, NoPass
  <2>4. \A x \in Resources : seen'[x] <= res[x].ver
    BY <1>0, <2>1, <2>3 DEF IInv, Versions
  <2>5. \A j \in Kinds : pass'[j].id # None => pass'[j] = pass[j] /\ seen'[pass[j].id] = seen[pass[j].id]
    BY <2>2, <2>3 DEF IInv, TypeOK, PassType
  <2> QED
    BY <2>1, <2>4, <2>5 DEF IInv, Versions
<1> QED
  BY <1>1, <1>2, <1>3, <1>4, <1>5
  DEF Next, vars, Listing, Boot, FindHosts, FindInstances, Fatal, ListingFails, Exit, Tick, Crash,
      HandleInventoryEvent, HandleInternalEvent, StartZeroTouch

-----------------------------------------------------------------------------
(* No change is lost.                                                      *)

LEMMA LostIs == NoChangeLost <=> \A r \in Managed : Unseen(r) => Coming(r)
BY DEF NoChangeLost, Coming

\* The stream only grows at its end, and what was missed stays missed.
LEMMA NotifyKeeps ==
  ASSUME IInv, NEW r \in Resources, NEW kind \in EventKinds, Notify(r, kind), UNCHANGED loop,
         NEW x \in Resources
  PROVE  /\ InStream(x) => InStream(x)'
         /\ x \in missed => x \in missed'
<1>1. [id |-> r, kind |-> kind] \in Events /\ watcher \in Seq(Events)
  BY DEF Events, IInv, TypeOK
<1>2. ASSUME NEW j \in 1..Len(watcher) PROVE j \in 1..Len(watcher') /\ watcher'[j] = watcher[j]
  <2>1. CASE UNCHANGED watcher
    BY <2>1
  <2>2. CASE watcher' = Append(watcher, [id |-> r, kind |-> kind])
    BY <1>1, <2>2, Appended
  <2> QED
    BY <2>1, <2>2 DEF Notify
<1> QED
  BY <1>2 DEF InStream, Filter, Controllers, Notify

\* A write that Start could not have seen is announced, or missed.
LEMMA NotifyTells ==
  ASSUME IInv, NEW r \in Managed, NEW kind \in {"CREATED", "UPDATED"}, Notify(r, kind), UNCHANGED loop
  PROVE  Coming(r)'
<1> DEFINE e == [id |-> r, kind |-> kind]
<1>1. e \in Events /\ watcher \in Seq(Events) /\ e.id = r /\ e.kind # "DELETED"
  BY DEF Events, EventKinds, Managed, IInv, TypeOK
<1>2. Filter(e)'
  BY <1>1 DEF Filter, Managed, Controllers
<1> HIDE DEF e
<1>3. CASE watcher' = Append(watcher, e)
  <2>1. Len(watcher) + 1 \in 1..Len(watcher') /\ watcher'[Len(watcher) + 1] = e
    BY <1>1, <1>3, Appended
  <2>2. InStream(r)'
    BY <1>1, <1>2, <2>1 DEF InStream
  <2> QED
    BY <2>2 DEF Coming
<1>4. CASE ~Subscribed
  BY <1>4 DEF Subscribed, IInv, Starting, WillBeListed, Coming
<1>5. CASE r \in missed'
  BY <1>5 DEF Coming
<1> QED
  BY <1>3, <1>4, <1>5 DEF Notify, e

\* What was written by the Inventory comes, or it came already.
LEMMA EnvironmentStep == ASSUME IInv, Environment PROVE NoChangeLost'
<1>1. UNCHANGED managerSide /\ UNCHANGED <<internal, loop, queue, pass, seen>>
  BY DEF Environment, Create, Update, Delete, OnboardHost, CreateNodesAgain, managerSide
<1>2. Managed' = Managed
  BY <1>1 DEF Managed, Controllers
<1>3. ASSUME NEW r \in Resources, NEW kind \in EventKinds, Notify(r, kind), sb \subseteq sb',
             NEW x \in Managed, res'[x] = res[x], Unseen(x)'
      PROVE  Coming(x)'
  <2>1. x \in Resources /\ Unseen(x) /\ Coming(x)
    BY <1>1, <1>3, LostIs DEF Unseen, Managed, IInv
  <2>2. (InStream(x) => InStream(x)') /\ (x \in missed => x \in missed')
    BY <1>1, <1>3, <2>1, NotifyKeeps
  <2>3. (Signalled(x) => Signalled(x)') /\ (InPass(x) => InPass(x)') /\ (WillBeListed(x) => WillBeListed(x)')
    BY <1>1, <1>3 DEF Signalled, InPass, WillBeListed
  <2> QED
    BY <1>1, <2>1, <2>2, <2>3 DEF Coming
<1>4. ASSUME NEW r \in Resources, Create(r) \/ Update(r) \/ Delete(r) PROVE NoChangeLost'
  <2>1. PICK kind \in EventKinds : Notify(r, kind)
    BY <1>4 DEF Create, Update, Delete, EventKinds
  <2>2. sb \subseteq sb'
    <3>1. UNCHANGED sb
      BY <1>4 DEF Create, Update, Delete
    <3> QED
      BY <3>1
  <2>3. ASSUME NEW x \in Managed, x # r, Unseen(x)' PROVE Coming(x)'
    <3>1. res'[x] = res[x]
      BY <1>4, <2>3 DEF Create, Update, Delete, IInv, TypeOK, Managed
    <3> QED
      BY <1>3, <2>1, <2>2, <2>3, <3>1
  <2>4. ASSUME r \in Managed, Unseen(r)' PROVE Coming(r)'
    <3>1. ~Delete(r)
      <4>1. Delete(r) => res'[r].st = "gone"
        BY DEF Delete, IInv, TypeOK, ResourceType
      <4> QED
        BY <2>4, <4>1 DEF Unseen
    <3>2. PICK news \in {"CREATED", "UPDATED"} : Notify(r, news)
      BY <1>4, <3>1 DEF Create, Update
    <3> QED
      BY <1>1, <2>4, <3>2, NotifyTells
  <2> QED
    BY <1>2, <2>3, <2>4 DEF NoChangeLost, Coming
<1>5. ASSUME NEW h \in Hosts, OnboardHost(h) PROVE NoChangeLost'
  <2>1. Notify(h, "UPDATED") /\ h \in Resources /\ "UPDATED" \in EventKinds /\ sb' = sb \cup {h}
    BY <1>5 DEF OnboardHost, Resources, EventKinds
  <2>2. ASSUME NEW x \in Managed, Unseen(x)' PROVE Coming(x)'
    <3>1. CASE x = h
      BY <1>1, <2>1, <3>1, NotifyTells
    <3>2. CASE x \in Instances /\ Owner[x] = h
      BY <2>1, <3>2 DEF Signalled, Coming
    <3>3. CASE res'[x] = res[x]
      BY <1>3, <2>1, <2>2, <3>3
    <3> QED
      BY <1>5, <3>1, <3>2, <3>3 DEF OnboardHost, Listed, Managed
  <2> QED
    BY <1>2, <2>2 DEF NoChangeLost, Coming
<1>6. ASSUME NEW h \in Hosts, CreateNodesAgain(h) PROVE NoChangeLost'
  <2>1. UNCHANGED <<res, watcher, internal, loop, queue, pass, seen, missed>> /\ sb \subseteq sb'
    BY <1>6 DEF CreateNodesAgain, managerSide
  <2> QED
    BY <1>2, <2>1 DEF NoChangeLost, IInv, Unseen, InStream, Filter, Controllers, Signalled, InPass, WillBeListed
<1> QED
  BY <1>4, <1>5, <1>6 DEF Environment

\* A host that is onboarded: zero touch looks for its Instance, and signals it.
LEMMA SignalStep == ASSUME IInv, NEW h \in Hosts, StartZeroTouch(h) PROVE NoChangeLost'
<1> DEFINE is == {i \in Listed(Instances) : Owner[i] = h}
<1>1. /\ sb' = sb \ {h} /\ UNCHANGED <<res, watcher, loop, queue, pass, seen>>
      /\ \/ missed' = missed \cup is /\ UNCHANGED internal
         \/ is = {} /\ UNCHANGED <<internal, missed>>
         \/ \E i \in is : SendInternalEvent(i)
  BY DEF StartZeroTouch
<1>2. Managed' = Managed
  BY <1>1 DEF Managed, Controllers
<1>3. ASSUME NEW i \in is, SendInternalEvent(i)
      PROVE  /\ missed \subseteq missed'
             /\ i \in missed' \/ \E j \in 1..Len(internal') : internal'[j] = i
             /\ \A j \in 1..Len(internal) : j \in 1..Len(internal') /\ internal'[j] = internal[j]
  <2>1. internal \in Seq(Instances) /\ i \in Instances
    BY DEF IInv, TypeOK, Listed
  <2>2. CASE internal' = Append(internal, i) /\ UNCHANGED missed
    BY <2>1, <2>2, Appended
  <2>3. CASE missed' = missed \cup {i} /\ UNCHANGED internal
    BY <2>3
  <2> QED
    BY <1>3, <2>2, <2>3 DEF SendInternalEvent
<1>4. /\ missed \subseteq missed'
      /\ \A j \in 1..Len(internal) : j \in 1..Len(internal') /\ internal'[j] = internal[j]
  BY <1>1, <1>3
\* A host has one Instance, so that the one which is signalled is the one that waits.
<1>5. ASSUME NEW x \in is PROVE x \in missed' \/ \E j \in 1..Len(internal') : internal'[j] = x
  <2>1. \A i \in is : i = x
    BY DEF IInv, OneInstance, Listed
  <2> QED
    BY <1>1, <1>3, <2>1
<1>6. ASSUME NEW x \in Managed, Unseen(x)' PROVE Coming(x)'
  <2>1. Unseen(x) /\ Coming(x)
    BY <1>1, <1>6, LostIs DEF Unseen, IInv
  <2>2. CASE Signalled(x)
    <3>1. CASE x \in is
      BY <1>5, <3>1 DEF Coming, Signalled
    <3>2. CASE x \notin is
      <4>1. Signalled(x)'
        <5>1. CASE \E j \in 1..Len(internal) : internal[j] = x
          BY <1>4, <5>1 DEF Signalled
        <5>2. CASE x \in Instances /\ Owner[x] \in sb
          BY <1>1, <2>1, <3>2, <5>2 DEF Signalled, Unseen, Listed
        <5> QED
          BY <2>2, <5>1, <5>2 DEF Signalled
      <4> QED
        BY <4>1 DEF Coming
    <3> QED
      BY <3>1, <3>2
  <2>3. CASE InStream(x) \/ x \in queue \/ InPass(x) \/ WillBeListed(x) \/ x \in missed
    BY <1>1, <1>4, <2>3 DEF Coming, InStream, Filter, Controllers, InPass, WillBeListed
  <2> QED
    BY <2>1, <2>2, <2>3 DEF Coming
<1> QED
  BY <1>2, <1>6 DEF NoChangeLost, Coming

\* The control loop takes an event, and gives its resource to the reconciler.
LEMMA HandleStep ==
  ASSUME IInv, HandleInventoryEvent \/ HandleInternalEvent
  PROVE  NoChangeLost'
<1>1. UNCHANGED <<res, sb, loop, pass, seen, missed>> /\ queue \subseteq queue'
  BY DEF HandleInventoryEvent, HandleInternalEvent, ReconcileResource
<1>2. Managed' = Managed
  BY <1>1 DEF Managed, Controllers
<1>3. ASSUME HandleInventoryEvent, NEW x \in Managed, InStream(x) PROVE x \in queue' \/ InStream(x)'
  <2>1. PICK j \in 1..Len(watcher) : watcher[j].id = x /\ Filter(watcher[j])
    BY <1>3 DEF InStream
  <2>2. watcher \in Seq(Events) /\ watcher # <<>> /\ watcher' = Tail(watcher)
    BY <1>3 DEF HandleInventoryEvent, IInv, TypeOK
  <2>3. CASE watcher[j] = Head(watcher)
    BY <1>3, <2>1, <2>3 DEF HandleInventoryEvent, ReconcileResource
  <2>4. CASE j - 1 \in 1..Len(watcher') /\ watcher'[j - 1] = watcher[j]
    BY <1>1, <2>1, <2>4 DEF InStream, Filter, Controllers
  <2> QED
    BY <2>2, <2>3, <2>4, Taken
<1>4. ASSUME HandleInternalEvent, NEW x \in Managed, Signalled(x) PROVE x \in queue' \/ Signalled(x)'
  <2>1. CASE x \in Instances /\ Owner[x] \in sb
    BY <1>1, <2>1 DEF Signalled
  <2>2. ASSUME NEW j \in 1..Len(internal), internal[j] = x PROVE x \in queue' \/ Signalled(x)'
    <3>1. internal \in Seq(Instances) /\ internal # <<>> /\ internal' = Tail(internal)
      BY <1>4 DEF HandleInternalEvent, IInv, TypeOK
    <3>2. CASE internal[j] = Head(internal)
      BY <1>4, <2>2, <3>2 DEF HandleInternalEvent, ReconcileResource
    <3>3. CASE j - 1 \in 1..Len(internal') /\ internal'[j - 1] = internal[j]
      BY <2>2, <3>3 DEF Signalled
    <3> QED
      BY <3>1, <3>2, <3>3, Taken
  <2> QED
    BY <1>4, <2>1, <2>2 DEF Signalled
<1>5. HandleInventoryEvent => UNCHANGED internal
  BY DEF HandleInventoryEvent
<1>6. HandleInternalEvent => UNCHANGED watcher
  BY DEF HandleInternalEvent
<1>7. ASSUME NEW x \in Managed, Unseen(x)' PROVE Coming(x)'
  <2>1. Unseen(x) /\ Coming(x)
    BY <1>1, <1>7, LostIs DEF Unseen, IInv
  <2>2. InStream(x) => x \in queue' \/ InStream(x)'
    BY <1>1, <1>3, <1>6 DEF InStream, Filter, Controllers
  <2>3. Signalled(x) => x \in queue' \/ Signalled(x)'
    BY <1>1, <1>4, <1>5 DEF Signalled
  <2>4. (InPass(x) => InPass(x)') /\ (WillBeListed(x) => WillBeListed(x)')
    BY <1>1 DEF InPass, WillBeListed
  <2> QED
    BY <1>1, <2>1, <2>2, <2>3, <2>4 DEF Coming
<1> QED
  BY <1>2, <1>7 DEF NoChangeLost, Coming

\* The process starts again and lists everything; a failed listing waits for the
\* next one, or ends the process.
LEMMA ListingStep == ASSUME IInv, Listing \/ Tick \/ Crash PROVE NoChangeLost'
<1>1. ASSUME loop'.starting, loop'.at \in {"boot", "hosts", "fatal"} PROVE NoChangeLost'
  BY <1>1 DEF NoChangeLost, WillBeListed
<1>2. CASE Exit
  BY <1>1, <1>2 DEF Exit, Booting
<1>3. CASE Boot
  <2>1. PICK skip \in Modes : loop' = [Booting EXCEPT !.at = "hosts", !.skip = skip]
    BY <1>3 DEF Boot
  <2> QED
    BY <1>1, <2>1 DEF Booting
\* Outside the start the control loop owes nothing to a listing.
<1>4. ASSUME UNCHANGED <<res, watcher, internal, sb, queue, pass, seen, missed>>,
             loop'.skip = loop.skip, \A x \in Resources : Unseen(x) /\ WillBeListed(x) => WillBeListed(x)'
      PROVE  NoChangeLost'
  <2>1. Managed' = Managed
    BY <1>4 DEF Managed, Controllers
  <2>2. ASSUME NEW x \in Managed, Unseen(x)' PROVE Coming(x)'
    <3>1. Unseen(x) /\ Coming(x) /\ x \in Resources
      BY <1>4, <2>2, LostIs DEF Unseen, IInv, Managed
    <3>2. (InStream(x) => InStream(x)') /\ (Signalled(x) => Signalled(x)') /\ (InPass(x) => InPass(x)')
      BY <1>4 DEF InStream, Filter, Controllers, Signalled, InPass
    <3> QED
      BY <1>4, <3>1, <3>2 DEF Coming
  <2> QED
    BY <2>1, <2>2 DEF NoChangeLost, Coming
<1>5. loop \in LoopType
  BY DEF IInv, TypeOK
<1>6. CASE Tick
  <2>1. loop'.skip = loop.skip /\ loop'.starting = loop.starting /\ loop'.at = "hosts"
    BY <1>5, <1>6 DEF Tick, LoopType
  <2>2. UNCHANGED <<res, watcher, internal, sb, queue, pass, seen, missed>>
    BY <1>6 DEF Tick
  <2> QED
    BY <1>4, <2>1, <2>2 DEF WillBeListed
<1>7. CASE ListingFails
  <2>1. CASE loop.starting
    BY <1>2, <1>7, <2>1 DEF ListingFails
  <2>2. CASE ~loop.starting
    <3>1. loop'.skip = loop.skip /\ UNCHANGED <<res, watcher, internal, sb, queue, pass, seen, missed>>
      BY <1>5, <1>7, <2>2 DEF ListingFails, Idle, LoopType
    <3> QED
      BY <1>4, <2>2, <3>1 DEF WillBeListed
  <2> QED
    BY <2>1, <2>2
<1>8. ASSUME FindHosts, ~ListingFails PROVE NoChangeLost'
  <2>1. /\ loop' = [loop EXCEPT !.at = "instances", !.hosts = Listed(Hosts)] /\ loop.at = "hosts"
        /\ UNCHANGED <<res, watcher, internal, sb, queue, pass, seen, missed>>
    BY <1>8 DEF FindHosts
  <2>2. /\ loop'.skip = loop.skip /\ loop'.starting = loop.starting /\ loop'.hosts = Listed(Hosts)
    <3> DEFINE hs == Listed(Hosts)
    <3>1. loop' = [loop EXCEPT !.at = "instances", !.hosts = hs]
      BY <2>1
    <3> HIDE DEF hs
    <3>2. loop'.skip = loop.skip /\ loop'.starting = loop.starting /\ loop'.hosts = hs
      BY <1>5, <3>1 DEF LoopType
    <3> QED
      BY <3>2 DEF hs
  <2>3. ASSUME NEW x \in Resources, Unseen(x), WillBeListed(x) PROVE WillBeListed(x)'
    BY <2>2, <2>3 DEF Unseen, WillBeListed, Listed, Resources
  <2> QED
    BY <1>4, <2>1, <2>2, <2>3
\* What was there when it was looked for is handed to its reconciler.
<1>9. ASSUME FindInstances, ~ListingFails PROVE NoChangeLost'
  <2>1. /\ queue' = queue \cup (Found \cap Managed) /\ missed' = missed \ (Found \cap Managed)
        /\ UNCHANGED <<res, watcher, internal, sb, pass, seen>>
        /\ loop.at = "instances"
    BY <1>9 DEF FindInstances
  <2>2. loop'.skip = loop.skip
    BY <1>5, <1>9 DEF FindInstances, Idle, LoopType
  <2>3. Managed' = Managed
    BY <2>2 DEF Managed, Controllers
  <2>4. ASSUME NEW x \in Managed, Unseen(x)' PROVE Coming(x)'
    <3>1. Unseen(x) /\ Coming(x)
      BY <2>1, <2>4, LostIs DEF Unseen, IInv
    <3>2. (InStream(x) => InStream(x)') /\ (Signalled(x) => Signalled(x)') /\ (InPass(x) => InPass(x)')
      BY <2>1, <2>2 DEF InStream, Filter, Controllers, Signalled, InPass
    <3>3. WillBeListed(x) => x \in queue'
      BY <2>1, <3>1 DEF WillBeListed, Unseen, Found, Listed
    <3>4. x \in missed => x \in queue' \/ x \in missed'
      BY <2>1
    <3> QED
      BY <2>1, <3>1, <3>2, <3>3, <3>4 DEF Coming
  <2> QED
    BY <2>3, <2>4 DEF NoChangeLost, Coming
<1> QED
  BY <1>2, <1>3, <1>6, <1>7, <1>8, <1>9 DEF Listing, Fatal, Crash, FindHosts, FindInstances

\* A pass deals with the version that it read, and keeps what was written since.
LEMMA PassStep ==
  ASSUME IInv, NEW k \in Kinds, StartPass(k) \/ FinishPass(k)
  PROVE  NoChangeLost'
<1>1. UNCHANGED <<res, watcher, internal, sb, loop>>
  BY DEF StartPass, FinishPass
<1>2. Managed' = Managed
  BY <1>1 DEF Managed, Controllers
<1>3. ASSUME NEW x \in Managed, Unseen(x)', Unseen(x),
             x \in queue => x \in queue' \/ x \in missed' \/ InPass(x)',
             x \in missed => x \in missed', InPass(x) => InPass(x)' \/ x \in queue' \/ x \in missed'
      PROVE  Coming(x)'
  <2>1. Coming(x)
    BY <1>3, LostIs DEF IInv
  <2>2. /\ (InStream(x) => InStream(x)') /\ (Signalled(x) => Signalled(x)')
        /\ (WillBeListed(x) => WillBeListed(x)')
    BY <1>1 DEF InStream, Filter, Controllers, Signalled, WillBeListed
  <2> QED
    BY <1>3, <2>1, <2>2 DEF Coming
<1>4. CASE StartPass(k)
  <2>1. PICK r \in queue \cap Of(k) :
          \/ /\ queue' = queue \ {r} /\ UNCHANGED missed
             /\ pass' = IF res[r].st = "yes"
                        THEN [pass EXCEPT ![k] = [id |-> r, ver |-> res[r].ver]] ELSE pass
          \/ UNCHANGED <<queue, pass, missed>>
          \/ queue' = queue \ {r} /\ missed' = missed \cup {r} /\ UNCHANGED pass
    BY <1>4 DEF StartPass
  <2>2. seen' = seen /\ pass[k].id = None /\ r \in Resources /\ Kind(r) = k
    BY <1>4, KindIs DEF StartPass, IInv, TypeOK
  <2>3. ASSUME NEW x \in Managed, Unseen(x)' PROVE Coming(x)'
    <3>1. Unseen(x) /\ x \in Resources /\ Kind(x) \in Kinds
      BY <1>1, <2>2, <2>3, KindIs DEF Unseen, Managed
    <3>2. x \in missed => x \in missed'
      BY <2>1
    <3>3. InPass(x) => InPass(x)'
      <4>1. InPass(x) => Kind(x) # k
        BY <2>2, <3>1, BoundsAssumption DEF InPass
      <4>2. Kind(x) # k => pass'[Kind(x)] = pass[Kind(x)]
        BY <2>1, <3>1 DEF IInv, TypeOK
      <4> QED
        BY <1>1, <4>1, <4>2 DEF InPass
    <3>4. x = r => x \in queue' \/ x \in missed' \/ InPass(x)'
      <4>1. ASSUME pass' = [pass EXCEPT ![k] = [id |-> r, ver |-> res[r].ver]] PROVE InPass(r)'
        BY <1>1, <2>2, <4>1 DEF InPass, IInv, TypeOK
      <4> QED
        BY <2>1, <3>1, <4>1 DEF Unseen
    <3>5. x # r /\ x \in queue => x \in queue'
      BY <2>1
    <3> QED
      BY <1>3, <2>3, <3>1, <3>2, <3>3, <3>4, <3>5
  <2> QED
    BY <1>2, <2>3 DEF NoChangeLost, Coming
<1>5. CASE FinishPass(k)
  <2> DEFINE r == pass[k].id
  <2>1. /\ r # None /\ pass' = [pass EXCEPT ![k] = NoPass]
        /\ \/ /\ seen' = [seen EXCEPT ![r] = pass[k].ver] /\ UNCHANGED queue
              /\ missed' = IF res[r].ver = pass[k].ver THEN missed \ {r} ELSE missed
           \/ queue' = queue \cup {r} /\ UNCHANGED <<seen, missed>>
           \/ missed' = missed \cup {r} /\ UNCHANGED <<seen, queue>>
    BY <1>5 DEF FinishPass
  <2>2. /\ r \in Resources /\ Kind(r) = k /\ pass[k].ver \in Nat
        /\ seen[r] <= pass[k].ver /\ pass[k].ver <= res[r].ver
        /\ seen[r] \in Nat /\ res[r].ver \in Nat
    <3>1. r \in Of(k) /\ r \in Resources
      BY <2>1 DEF IInv, TypeOK, Versions, PassType
    <3> QED
      BY <2>1, <3>1, KindIs DEF IInv, TypeOK, Versions, PassType, ResourceType
  <2>3. ASSUME NEW x \in Managed, Unseen(x)' PROVE Coming(x)'
    <3>1. x \in Resources /\ Kind(x) \in Kinds
      BY KindIs DEF Managed
    <3>2. CASE x = r
      <4>1. CASE seen' = [seen EXCEPT ![r] = pass[k].ver] /\ UNCHANGED queue
                 /\ missed' = IF res[r].ver = pass[k].ver THEN missed \ {r} ELSE missed
        <5>1. seen'[x] = pass[k].ver
          BY <2>2, <3>2, <4>1 DEF IInv, TypeOK
        <5>2. pass[k].ver # res[r].ver
          BY <1>1, <2>3, <3>2, <5>1 DEF Unseen
        <5>3. Unseen(x) /\ ~InPass(x) /\ missed' = missed
          BY <1>1, <2>2, <2>3, <3>2, <4>1, <5>2 DEF Unseen, InPass
        <5> QED
          BY <1>3, <2>3, <4>1, <5>3
      <4>2. CASE x \in queue' \/ x \in missed'
        BY <4>2 DEF Coming
      <4> QED
        BY <2>1, <3>2, <4>1, <4>2
    <3>3. CASE x # r
      <4>1. /\ seen'[x] = seen[x] /\ (x \in missed => x \in missed') /\ (x \in queue => x \in queue')
        <5>1. seen'[x] = seen[x]
          BY <2>1, <2>2, <3>1, <3>3 DEF IInv, TypeOK
        <5>2. (x \in missed => x \in missed') /\ (x \in queue => x \in queue')
          BY <2>1, <3>3
        <5> QED
          BY <5>1, <5>2
      <4>2. Unseen(x)
        BY <1>1, <2>3, <4>1 DEF Unseen
      <4>3. InPass(x) => InPass(x)'
        <5>1. InPass(x) => Kind(x) # k
          BY <3>3 DEF InPass
        <5>2. Kind(x) # k => pass'[Kind(x)] = pass[Kind(x)]
          BY <2>1, <3>1 DEF IInv, TypeOK
        <5> QED
          BY <1>1, <5>1, <5>2 DEF InPass
      <4> QED
        BY <1>3, <2>3, <4>1, <4>2, <4>3
    <3> QED
      BY <3>2, <3>3
  <2> QED
    BY <1>2, <2>3 DEF NoChangeLost, Coming
<1> QED
  BY <1>4, <1>5

\* The invariant holds in every reachable state.
THEOREM Inductive == Spec => []IInv
<1>1. Init => IInv
  <2> SUFFICES ASSUME Init PROVE IInv
    OBVIOUS
  <2>1. Booting \in LoopType /\ NoPass \in PassType
    BY DEF Booting, LoopType, NoPass, PassType
  <2>2. ASSUME NEW r \in Resources
        PROVE  /\ res[r] \in ResourceType /\ seen[r] = 0
               /\ res[r].st = "no" => res[r].ver = 0
               /\ r \in Instances => res[r].st = "no"
    BY OwnerAssumption DEF Init, ResourceType
  <2>3. res \in [Resources -> ResourceType] /\ seen \in [Resources -> Nat]
    BY DEF Init, ResourceType
  <2>4. TypeOK
    BY <2>1, <2>3, BoundsAssumption DEF Init, TypeOK
  <2>5. OneInstance /\ Versions
    <3>1. \A k \in Kinds : pass[k].id = None
      BY DEF Init, NoPass
    <3>2. \A r \in Resources : seen[r] <= res[r].ver
      BY <2>2 DEF ResourceType
    <3>3. OneInstance
      BY <2>2 DEF OneInstance, Resources
    <3> QED
      BY <2>2, <3>1, <3>2, <3>3 DEF Versions
  <2> QED
    BY <2>4, <2>5 DEF Init, IInv, Booting, Starting, NoChangeLost, WillBeListed
<1>2. IInv /\ [Next]_vars => IInv'
  <2> SUFFICES ASSUME IInv, [Next]_vars PROVE IInv'
    OBVIOUS
  <2>1. TypeOK' /\ Starting' /\ OneInstance' /\ Versions'
    BY TypeOKStep, StartingStep, OneInstanceStep, VersionsStep DEF IInv
  <2>2. CASE UNCHANGED vars
    BY <2>1, <2>2 DEF vars, IInv, NoChangeLost, Managed, Controllers, Unseen, InStream, Filter,
                      Signalled, InPass, WillBeListed
  <2> QED
    BY <2>1, <2>2, EnvironmentStep, SignalStep, HandleStep, ListingStep, PassStep DEF Next, IInv
<1> QED
  BY <1>1, <1>2, PTL DEF Spec

-----------------------------------------------------------------------------
(* The results.                                                            *)

\* The channel of internal events never holds more than it was made for
\* (SendInternalEvent drops instead of blocking), a reconciler works on one
\* resource, and what it works on exists.
THEOREM TypesHold == Spec => []TypeOK
<1>1. IInv => TypeOK
  BY DEF IInv
<1> QED
  BY Inductive, <1>1, PTL

\* Whatever the Inventory, devices, failures and restarts do: a change that the
\* reconciler has not dealt with is in a queue, in the running pass or before a
\* listing, or it is one of those that the code leaves to the next tick.
THEOREM ChangesAreKept == Spec => []NoChangeLost
<1>1. IInv => NoChangeLost
  BY DEF IInv
<1> QED
  BY Inductive, <1>1, PTL

\* What a reconciler has dealt with is never newer than the resource, and no pass
\* goes back to an older version than the last one.
THEOREM PassesGoForward == Spec => []Versions
<1>1. IInv => Versions
  BY DEF IInv
<1> QED
  BY Inductive, <1>1, PTL

=============================================================================
