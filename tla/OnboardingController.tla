------------------------ MODULE OnboardingController ------------------------
(***************************************************************************)
(* How the Onboarding Manager learns that a host or an Instance needs a    *)
(* pass of its reconciler: the events of the Inventory, the internal       *)
(* events of the southbound API, and the listing of everything at the      *)
(* start and at every tick.  The Inventory changes at any moment, events   *)
(* are lost, calls fail and the manager restarts with empty queues.  What  *)
(* a pass does is in InstanceReconciler and HostReconciler; here it reads  *)
(* one version of its resource and ends.                                   *)
(***************************************************************************)
EXTENDS Naturals, Sequences, FiniteSets

CONSTANTS
  Hosts,        \* hosts and Instances that ever exist
  Instances,
  Owner,        \* the host of an Instance
  Existing,     \* hosts that may be in the Inventory when the manager starts first
  Modes,        \* the values of skipOSProvisioning the configuration can take
  BufSize,      \* capacity of the channel of internal events
  MaxChanges,   \* bound: changes of the Inventory
  MaxTroubles,  \* bound: events not delivered, failing calls, restarts in total
  None

Resources == Hosts \cup Instances

ASSUME OwnerAssumption ==
  /\ Hosts \cap Instances = {} /\ Owner \in [Instances -> Hosts]
  /\ Existing \subseteq Hosts
ASSUME BoundsAssumption ==
  /\ Modes \in (SUBSET BOOLEAN) \ {{}} /\ None \notin Resources
  /\ {BufSize, MaxChanges, MaxTroubles} \subseteq Nat

VARIABLES
  res,       \* Inventory: the version of each resource
  watcher,   \* events on their way to the control loop
  internal,  \* InternalWatcher
  sb,        \* hosts for which a southbound call is about to start zero touch
  loop,      \* what the control loop is at
  queue,     \* resources that wait in the queue of their reconciler
  pass,      \* the running pass of each reconciler
  seen,      \* history: the version that the last pass has dealt with
  missed,    \* history: a change that only a listing can make up for
  budget     \* changes and troubles so far

vars == <<res, watcher, internal, sb, loop, queue, pass, seen, missed, budget>>

EventKinds == {"CREATED", "UPDATED", "DELETED"}
Events == [id : Resources, kind : EventKinds]

\* ver counts what a reconciler has to know about: the writes of the resource,
\* and for an Instance the onboarding of its host.
ResourceType == [st : {"no", "yes", "gone"}, ver : Nat]
\* starting: Start has not returned; skip: skipOSProvisioning when it was called.
LoopType == [at : {"boot", "hosts", "instances", "idle", "fatal"}, starting : BOOLEAN,
             skip : BOOLEAN, hosts : SUBSET Hosts]
Kinds == {"HOST", "INSTANCE"}
PassType == [id : Resources \cup {None}, ver : Nat]
NoPass == [id |-> None, ver |-> 0]
Booting == [at |-> "boot", starting |-> TRUE, skip |-> FALSE, hosts |-> {}]

TypeOK ==
  /\ res \in [Resources -> ResourceType] /\ seen \in [Resources -> Nat]
  /\ watcher \in Seq(Events)
  /\ internal \in Seq(Instances) /\ Len(internal) <= BufSize
  /\ sb \in SUBSET Hosts /\ queue \in SUBSET Resources /\ missed \in SUBSET Resources
  /\ loop \in LoopType /\ pass \in [Kinds -> PassType]
  /\ budget \in [changes : Nat, troubles : Nat]

Kind(r) == IF r \in Hosts THEN "HOST" ELSE "INSTANCE"
Of(k) == IF k = "HOST" THEN Hosts ELSE Instances
Listed(rs) == {r \in rs : res[r].st = "yes"}

\* New creates the Instance reconciler only if the OS is provisioned.
Controllers == IF loop.skip THEN {"HOST"} ELSE Kinds
Managed == {r \in Resources : Kind(r) \in Controllers}

Init ==
  /\ \E present \in SUBSET Existing :
       res = [r \in Resources |-> IF r \in present THEN [st |-> "yes", ver |-> 1]
                                 ELSE [st |-> "no", ver |-> 0]]
  /\ seen = [r \in Resources |-> 0]
  /\ watcher = <<>> /\ internal = <<>> /\ sb = {} /\ queue = {} /\ missed = {}
  /\ loop = Booting /\ pass = [k \in Kinds |-> NoPass]
  /\ budget = [changes |-> 0, troubles |-> 0]

NoFault == UNCHANGED budget
Fault == /\ budget.troubles < MaxTroubles
         /\ budget' = [budget EXCEPT !.troubles = @ + 1]

-----------------------------------------------------------------------------
(* The Inventory.                                                          *)

\* The stream of events is opened after the first listing.
SubscribedMutant == ~loop.starting

\* The Inventory client is started before the controller (main).
Subscribed == loop.at # "boot"

\* An event of r is delivered, or lost on the way.
Notify(r, kind) ==
  \/ /\ Subscribed /\ watcher' = Append(watcher, [id |-> r, kind |-> kind])
     /\ UNCHANGED missed
     /\ budget' = [budget EXCEPT !.changes = @ + 1]
  \/ /\ ~Subscribed /\ UNCHANGED <<watcher, missed>>
     /\ budget' = [budget EXCEPT !.changes = @ + 1]
  \/ /\ Subscribed /\ budget.troubles < MaxTroubles /\ UNCHANGED watcher
     /\ missed' = missed \cup {r}
     /\ budget' = [budget EXCEPT !.changes = @ + 1, !.troubles = @ + 1]

MayChange == budget.changes < MaxChanges
managerSide == <<internal, loop, queue, pass, seen>>

\* An Instance is created for a host that exists and has none (startZeroTouch
\* takes "the" Instance of a host), and a host is removed only after its Instance.
Create(r) ==
  /\ MayChange /\ res[r].st = "no"
  /\ r \in Instances => /\ res[Owner[r]].st = "yes"
                        /\ \A i \in Instances : Owner[i] = Owner[r] => res[i].st # "yes"
  /\ res' = [res EXCEPT ![r] = [st |-> "yes", ver |-> 1]]
  /\ Notify(r, "CREATED") /\ UNCHANGED <<managerSide, sb>>
Update(r) ==
  /\ MayChange /\ res[r].st = "yes"
  /\ res' = [res EXCEPT ![r].ver = @ + 1]
  /\ Notify(r, "UPDATED") /\ UNCHANGED <<managerSide, sb>>
Delete(r) ==
  /\ MayChange /\ res[r].st = "yes"
  /\ \A i \in Instances : r \in Hosts /\ Owner[i] = r => res[i].st # "yes"
  /\ res' = [res EXCEPT ![r].st = "gone"]
  /\ Notify(r, "DELETED") /\ UNCHANGED <<managerSide, sb>>

-----------------------------------------------------------------------------
(* The southbound API; it is started after the controller.                 *)

Serving == ~loop.starting

\* A device is onboarded: the host is written, and its Instance, if there is one,
\* can be provisioned from now on.  No Inventory event is about the Instance.
OnboardHost(h) ==
  /\ Serving /\ MayChange /\ res[h].st = "yes"
  /\ res' = [r \in Resources |->
               IF r = h \/ (r \in Listed(Instances) /\ Owner[r] = h)
               THEN [res[r] EXCEPT !.ver = @ + 1] ELSE res[r]]
  /\ sb' = sb \cup {h}
  /\ Notify(h, "UPDATED") /\ UNCHANGED managerSide

\* A device calls CreateNodes for a host that is onboarded already.
CreateNodesAgain(h) ==
  /\ Serving /\ res[h].st = "yes" /\ sb' = sb \cup {h}
  /\ UNCHANGED <<res, watcher, managerSide, missed, budget>>

\* The channel grows as needed.
SendInternalEventMutant(i) ==
  internal' = Append(internal, i) /\ UNCHANGED missed

\* SendInternalEvent: an event for which there is no room is dropped.
SendInternalEvent(i) ==
  IF Len(internal) < BufSize THEN internal' = Append(internal, i) /\ UNCHANGED missed
  ELSE missed' = missed \cup {i} /\ UNCHANGED internal

\* startZeroTouch looks for the Instance of the host, which is not yet RUNNING;
\* it reads the configuration as it is now, not as it was at the start.
StartZeroTouch(h) ==
  /\ h \in sb /\ sb' = sb \ {h}
  /\ LET is == {i \in Listed(Instances) : Owner[i] = h} IN
     \/ TRUE \in Modes /\ NoFault /\ missed' = missed \cup is /\ UNCHANGED internal
     \/ FALSE \in Modes /\ Fault /\ missed' = missed \cup is /\ UNCHANGED internal
     \/ FALSE \in Modes /\ NoFault /\ is = {} /\ UNCHANGED <<internal, missed>>
     \/ FALSE \in Modes /\ NoFault /\ \E i \in is : SendInternalEvent(i)
  /\ UNCHANGED <<res, watcher, loop, queue, pass, seen>>

-----------------------------------------------------------------------------
(* The controller.                                                         *)

\* filterEvent.
Filter(e) ==
  Kind(e.id) \in Controllers /\ (e.id \in Hosts => e.kind # "DELETED")

\* reconcileResource; without a controller for its kind it is an error.
ReconcileResource(r) == queue' = queue \cup ({r} \cap Managed)

HandleInventoryEvent ==
  /\ loop.at = "idle" /\ watcher # <<>> /\ watcher' = Tail(watcher)
  /\ IF Filter(Head(watcher)) THEN ReconcileResource(Head(watcher).id)
     ELSE UNCHANGED queue
  /\ UNCHANGED <<res, internal, sb, loop, pass, seen, missed, budget>>

HandleInternalEvent ==
  /\ loop.at = "idle" /\ internal # <<>> /\ internal' = Tail(internal)
  /\ ReconcileResource(Head(internal))
  /\ UNCHANGED <<res, watcher, sb, loop, pass, seen, missed, budget>>

\* The process starts: main creates the Inventory client, then the controller,
\* in the mode that the configuration has at this moment.
Boot ==
  /\ loop.at = "boot"
  /\ \E skip \in Modes : loop' = [Booting EXCEPT !.at = "hosts", !.skip = skip]
  /\ UNCHANGED <<res, watcher, internal, sb, queue, pass, seen, missed, budget>>

Tick ==
  /\ loop.at = "idle" /\ loop' = [loop EXCEPT !.at = "hosts"]
  /\ UNCHANGED <<res, watcher, internal, sb, queue, pass, seen, missed, budget>>

\* The process ends, with all that was in its memory.
Exit ==
  /\ loop' = Booting /\ watcher' = <<>> /\ internal' = <<>> /\ sb' = {}
  /\ queue' = {} /\ pass' = [k \in Kinds |-> NoPass]
  /\ UNCHANGED <<res, seen, missed>>
Idle == loop' = [loop EXCEPT !.at = "idle", !.starting = FALSE, !.hosts = {}]

\* An error of reconcileAll is fatal at the start and only logged later.
ListingFails ==
  IF loop.starting THEN Exit
  ELSE Idle /\ UNCHANGED <<res, watcher, internal, sb, queue, pass, seen, missed>>

\* reconcileAll, FindAllResources: the hosts, ...
FindHosts ==
  /\ loop.at = "hosts"
  /\ \/ Fault /\ ListingFails
     \/ /\ NoFault /\ loop' = [loop EXCEPT !.at = "instances", !.hosts = Listed(Hosts)]
        /\ UNCHANGED <<res, watcher, internal, sb, queue, pass, seen, missed>>

\* Only the hosts are listed.
FoundMutant == loop.hosts

\* ... then the Instances.
Found == loop.hosts \cup Listed(Instances)

\* The loop over what was found: hosts are first, and the first resource without
\* a controller ends it with an error.
FindInstances ==
  /\ loop.at = "instances"
  /\ \/ Fault /\ ListingFails
     \/ /\ NoFault
        /\ queue' = queue \cup (Found \cap Managed)
        /\ missed' = missed \ (Found \cap Managed)
        /\ IF loop.starting /\ Found \ Managed # {}
           THEN loop' = [loop EXCEPT !.at = "fatal"] ELSE Idle
        /\ UNCHANGED <<res, watcher, internal, sb, pass, seen>>

\* Start returned an error to main; the reconcilers run until the process exits.
Fatal == loop.at = "fatal" /\ Exit /\ NoFault

Crash ==
  /\ loop.at # "boot" /\ Fault /\ Exit

-----------------------------------------------------------------------------
(* The reconcilers: one pass at a time for each of them.                   *)

\* A pass begins with reading its resource.  One that is gone is acknowledged;
\* an error is retried or acknowledged, by HandleInventoryError.
StartPass(k) ==
  /\ pass[k].id = None
  /\ \E r \in queue \cap Of(k) :
     \/ /\ NoFault /\ queue' = queue \ {r} /\ UNCHANGED missed
        /\ pass' = IF res[r].st = "yes"
                   THEN [pass EXCEPT ![k] = [id |-> r, ver |-> res[r].ver]] ELSE pass
     \/ /\ Fault /\ UNCHANGED <<queue, pass, missed>>
     \/ /\ Fault /\ queue' = queue \ {r} /\ missed' = missed \cup {r} /\ UNCHANGED pass
  /\ UNCHANGED <<res, watcher, internal, sb, loop, seen>>

\* A pass ends: done, to be repeated, or given up with an error.
FinishPass(k) ==
  /\ pass[k].id # None /\ pass' = [pass EXCEPT ![k] = NoPass]
  /\ LET r == pass[k].id IN
     \/ /\ NoFault /\ seen' = [seen EXCEPT ![r] = pass[k].ver]
        /\ missed' = IF res[r].ver = pass[k].ver THEN missed \ {r} ELSE missed
        /\ UNCHANGED queue
     \/ Fault /\ queue' = queue \cup {r} /\ UNCHANGED <<seen, missed>>
     \/ Fault /\ missed' = missed \cup {r} /\ UNCHANGED <<seen, queue>>
  /\ UNCHANGED <<res, watcher, internal, sb, loop>>

-----------------------------------------------------------------------------
Environment ==
  \/ \E r \in Resources : Create(r) \/ Update(r) \/ Delete(r)
  \/ \E h \in Hosts : OnboardHost(h) \/ CreateNodesAgain(h)

Listing == Boot \/ FindHosts \/ FindInstances \/ Fatal

Next ==
  \/ Environment \/ Listing \/ Tick \/ Crash
  \/ HandleInventoryEvent \/ HandleInternalEvent
  \/ \E h \in Hosts : StartZeroTouch(h)
  \/ \E k \in Kinds : StartPass(k) \/ FinishPass(k)

Spec == Init /\ [][Next]_vars

\* The ticker and the reconcilers go on; select takes each ready case in the end.
Fairness ==
  /\ WF_vars(Listing) /\ WF_vars(Tick)
  /\ WF_vars(HandleInventoryEvent) /\ WF_vars(HandleInternalEvent)
  /\ \A h \in Hosts : WF_vars(StartZeroTouch(h))
  /\ \A k \in Kinds : WF_vars(StartPass(k)) /\ WF_vars(FinishPass(k))
FairSpec == Spec /\ Fairness

-----------------------------------------------------------------------------
(* Properties.                                                             *)

Unseen(r) == res[r].st = "yes" /\ seen[r] # res[r].ver

\* What will bring a change of r to its reconciler without a tick.
InStream(r) == \E j \in 1..Len(watcher) : watcher[j].id = r /\ Filter(watcher[j])
Signalled(r) == \/ \E j \in 1..Len(internal) : internal[j] = r
                \/ r \in Instances /\ Owner[r] \in sb
InPass(r) == pass[Kind(r)] = [id |-> r, ver |-> res[r].ver]
WillBeListed(r) ==
  /\ loop.starting
  /\ loop.at \in {"boot", "hosts", "fatal"} \/ r \in Instances \cup loop.hosts

\* No change is lost on the way from the Inventory or the southbound API to the
\* reconciler, except where the code says that the next listing makes up for it
\* (controller.go: controlLoop, reconcileAll, Start; main: startup order).
NoChangeLost ==
  \A r \in Managed :
    Unseen(r) => \/ InStream(r) \/ Signalled(r) \/ r \in queue
                 \/ InPass(r) \/ WillBeListed(r) \/ r \in missed

\* Every change is dealt with, whatever event is lost or call fails: what the
\* events do not bring to the reconciler, the ticker does (controller.go: 32).
\* Instances wait while skipOSProvisioning is set, and so do hosts if there is an
\* Instance then.
ChangesHandled ==
  \A r \in Resources :
    Unseen(r) ~> \/ ~Unseen(r)
                 \/ loop.skip /\ (r \in Instances \/ Listed(Instances) # {})

=============================================================================
