----------------------- MODULE HostReconciler_proofs -----------------------
(***************************************************************************)
(* Safety of the Host reconciler for every set of parts and any number of  *)
(* faults and crashes.                                                     *)
(***************************************************************************)
EXTENDS HostReconciler, TLAPS

\* From the first call of a deletion that found no Instance to the last one.
Deleting == {"detail", "revoke", "nics", "ips", "devices", "setDeleted"}

\* A pass works on a host that exists; one that deletes it works on a host
\* the user wants deleted, which is final, and which gets no Instance.
PassInv ==
  /\ pass.at # "idle" => Exists
  /\ pass.at \in Deleting \cup {"waiting"} => host.des = "DELETED"
  /\ pass.at \in Deleting => ~host.instance
  /\ ~Exists => host.des = "DELETED"
  /\ SkipOSProvisioning => ~host.instance

\* What the pass has not deleted yet is on its lists.
PartsInv ==
  /\ pass.at \in Deleting =>
       /\ parts \cap Nics \subseteq pass.nics
       /\ parts \cap Devices \subseteq pass.devices
  /\ pass.at = "ips" => /\ pass.nics # {}
                        /\ ListIPAddresses(NextNic) \subseteq pass.ips
  /\ pass.at \in {"devices", "setDeleted"} => pass.nics = {}
  /\ pass.at = "setDeleted" => pass.devices = {}

\* The host is untrusted or removed, or the pass at work is past the
\* revocation, or will skip it because it read an untrusted host.
RevocationDone ==
  \/ host.cur \in {"UNTRUSTED", "ABSENT"}
  \/ pass.at = "detail" /\ pass.cur = "UNTRUSTED"
  \/ pass.at \in {"nics", "ips", "devices", "setDeleted", "setUntrusted"}

\* From then on only a credential created again may exist.
CredsInv == RevocationDone => creds \in {"revoked", "again"}

IInv == /\ TypeOK /\ PassInv /\ PartsInv /\ CredsInv
        /\ NoPartsLeft /\ IpHasNic /\ InstanceHasHost

-----------------------------------------------------------------------------

\* The initial states satisfy the invariant.
LEMMA InitIInv == Init => IInv
  <1> SUFFICES ASSUME Init PROVE IInv
    OBVIOUS
  <1> USE DEF Init
  <1>1. PICK v \in BOOLEAN, d \in {"REGISTERED", "ONBOARDED"} :
          host = [cur |-> "REGISTERED", des |-> d, instance |-> FALSE,
                  vendor |-> v, detail |-> "other"]
    OBVIOUS
  <1>2. TypeOK
    BY <1>1 DEF TypeOK, HostType, CurrentStates, DesiredStates, CredStates,
      PassType, Steps, NoPass, CallerType, NoCaller
  <1>3. PassInv
    BY <1>1 DEF PassInv, NoPass, Exists, Deleting
  <1>4. PartsInv
    BY DEF PartsInv, NoPass, Deleting
  <1>5. CredsInv
    BY <1>1 DEF CredsInv, RevocationDone, NoPass
  <1>6. NoPartsLeft /\ IpHasNic /\ InstanceHasHost
    BY <1>1 DEF NoPartsLeft, IpHasNic, InstanceHasHost, Exists
  <1> QED
    BY <1>2, <1>3, <1>4, <1>5, <1>6 DEF IInv

\* The NIC at hand is one of those left.
LEMMA NextNicLeft ==
  ASSUME TypeOK, pass.nics # {} PROVE NextNic \in pass.nics
  BY DEF TypeOK, PassType, NextNic

\* What a step does to the faults, to the pass and to the queue.
LEMMA FaultTypes ==
  ASSUME TypeOK, InvFault \/ ExtFault \/ NoFault
  PROVE  faults' \in [inv : Nat, ext : Nat, crash : Nat]
  BY DEF TypeOK, InvFault, ExtFault, NoFault

LEMMA PassTypes ==
  ASSUME TypeOK
  PROVE  /\ \A s \in Steps : Goto(s) => pass' \in PassType /\ queued' \in BOOLEAN
         /\ \A d : Return(d) => pass' \in PassType /\ queued' \in BOOLEAN
         /\ HandleInventoryError => pass' \in PassType /\ queued' \in BOOLEAN
  <1>1. NoPass \in PassType
    BY DEF NoPass, PassType, Steps, CurrentStates
  <1>2. ASSUME NEW s \in Steps, Goto(s) PROVE pass' \in PassType /\ queued' \in BOOLEAN
    BY <1>2 DEF Goto, TypeOK, PassType
  <1>3. ASSUME NEW d, Return(d) PROVE pass' \in PassType /\ queued' \in BOOLEAN
    BY <1>3, <1>1 DEF Return, TypeOK
  <1> QED
    BY <1>2, <1>3 DEF HandleInventoryError

\* The writes to the host, by the fields they change.
LEMMA HostTypes ==
  ASSUME NEW hs \in HostType
  PROVE  /\ \A c \in CurrentStates : [hs EXCEPT !.cur = c] \in HostType
         /\ \A d \in DesiredStates : [hs EXCEPT !.des = d] \in HostType
         /\ \A i \in BOOLEAN : [hs EXCEPT !.instance = i] \in HostType
         /\ \A t \in {"other", "waiting", "deleting"} :
              /\ [hs EXCEPT !.detail = t] \in HostType
              /\ \A c \in CurrentStates : [hs EXCEPT !.cur = c, !.detail = t] \in HostType
  BY DEF HostType

\* Every step of a pass keeps the types.
LEMMA PassStepTypes ==
  ASSUME TypeOK, PassStep PROVE TypeOK'
  <1> USE PassTypes, FaultTypes DEF Steps
  <1>0. host \in HostType /\ pass \in PassType
    BY DEF TypeOK
  <1>1. ASSUME NEW d \in {"waiting", "deleting"}, SetHostStatusDetail(d)
        PROVE  host' \in HostType
    BY <1>0, <1>1, HostTypes DEF SetHostStatusDetail
  <1>2. CASE WaitForInstance
    BY <1>1, <1>2 DEF WaitForInstance, SetHostStatusDetail, TypeOK, otherVars
  <1>3. CASE AnnounceDeletion
    BY <1>1, <1>3 DEF AnnounceDeletion, SetHostStatusDetail, TypeOK, otherVars
  <1>4. CASE Revoke
    BY <1>4 DEF Revoke, RevokeHostCredentials, RevokeFails, TypeOK, otherVars, CredStates
  <1>5. CASE NextHostNic
    <2>1. [pass EXCEPT !.at = "ips", !.ips = ListIPAddresses(NextNic)] \in PassType
      BY <1>0 DEF PassType, ListIPAddresses
    <2>2. pass' \in PassType /\ queued' \in BOOLEAN
      BY <1>5, <2>1 DEF NextHostNic, TypeOK
    <2> QED BY <1>5, <2>2 DEF NextHostNic, TypeOK, otherVars, invVars
  <1>6. CASE DeleteIP
    <2>1. \A a : [pass EXCEPT !.ips = @ \ {a}] \in PassType
      BY <1>0 DEF PassType
    <2>2. pass' \in PassType /\ queued' \in BOOLEAN
      BY <1>6, <2>1 DEF DeleteIP, RemoveFails, TypeOK
    <2> QED BY <1>6, <2>2 DEF DeleteIP, Remove, RemoveFails, TypeOK, otherVars
  <1>7. CASE DeleteNic
    <2>1. [pass EXCEPT !.at = "nics", !.nics = @ \ {NextNic}] \in PassType
      BY <1>0 DEF PassType
    <2>2. pass' \in PassType /\ queued' \in BOOLEAN
      BY <1>7, <2>1 DEF DeleteNic, RemoveFails, TypeOK
    <2> QED BY <1>7, <2>2 DEF DeleteNic, Remove, RemoveFails, TypeOK, otherVars
  <1>8. CASE DeleteDevice
    <2>1. \A d : [pass EXCEPT !.devices = @ \ {d}] \in PassType
      BY <1>0 DEF PassType
    <2>2. pass' \in PassType /\ queued' \in BOOLEAN
      BY <1>8, <2>1 DEF DeleteDevice, RemoveFails, TypeOK
    <2> QED BY <1>8, <2>2 DEF DeleteDevice, Remove, RemoveFails, TypeOK, otherVars
  <1>9. CASE DeleteHostResource
    <2>1. host' \in HostType
      BY <1>0, <1>9, HostTypes DEF DeleteHostResource, CurrentStates
    <2> QED BY <1>9, <2>1 DEF DeleteHostResource, TypeOK, otherVars
  <1>10. CASE Invalidate
    BY <1>10 DEF Invalidate, RevokeHostCredentials, RevokeFails, TypeOK, otherVars, CredStates
  <1>11. CASE UpdateHostStateAndRuntimeStatus
    <2>1. host' \in HostType
      BY <1>0, <1>11, HostTypes DEF UpdateHostStateAndRuntimeStatus, CurrentStates
    <2> QED BY <1>11, <2>1 DEF UpdateHostStateAndRuntimeStatus, TypeOK, otherVars
  <1> QED
    BY <1>2, <1>3, <1>4, <1>5, <1>6, <1>7, <1>8, <1>9, <1>10, <1>11 DEF PassStep

\* Every step of a neighbour keeps the types.
LEMMA EnvironmentTypes ==
  ASSUME TypeOK, Environment PROVE TypeOK'
  <1> USE FaultTypes
  <1>0. host \in HostType /\ caller \in CallerType /\ NoCaller \in CallerType
    BY DEF TypeOK, NoCaller, CallerType
  <1>1. CASE StreamRequest
    <2>1. \/ caller' = [at |-> "write", cur |-> "REGISTERED"]
          \/ caller' = [at |-> "secret", cur |-> "ONBOARDED"]
      BY <1>1 DEF StreamRequest
    <2>2. caller' \in CallerType
      BY <2>1 DEF CallerType
    <2> QED BY <1>1, <2>2 DEF StreamRequest, unchangedPass, TypeOK, invVars
  <1>2. CASE StreamSecret
    <2>1. caller' \in CallerType
      BY <1>0, <1>2 DEF StreamSecret, CallerType
    <2> QED BY <1>2, <2>1 DEF StreamSecret, FetchClientSecret, TypeOK, CredStates
  <1>3. CASE StreamWrite
    <2>1. caller.cur \in CurrentStates /\ host.detail \in {"other", "waiting", "deleting"}
      BY <1>0 DEF CallerType, CurrentStates, HostType
    <2>2. [host EXCEPT !.cur = caller.cur, !.detail = IF caller.cur = "ONBOARDED"
                                      THEN "other" ELSE @] \in HostType
      BY <1>0, <2>1 DEF HostType
    <2>3. host' \in HostType
      BY <1>0, <1>3, <2>2 DEF StreamWrite
    <2> QED BY <1>0, <1>3, <2>3 DEF StreamWrite, TypeOK
  <1>4. CASE InstanceGet
    BY <1>4 DEF InstanceGet, unchangedPass, TypeOK, invVars
  <1>5. CASE InstanceCreds
    BY <1>5 DEF InstanceCreds, FetchClientSecret, TypeOK, CredStates
  <1>6. CASE CreateInstance \/ RemoveInstance
    <2>1. host' \in HostType
      BY <1>0, <1>6, HostTypes DEF CreateInstance, RemoveInstance
    <2> QED BY <1>6, <2>1 DEF CreateInstance, RemoveInstance, unchangedPass, TypeOK, otherVars
  <1>7. CASE SetDesiredState
    <2>1. host' \in HostType
      BY <1>0, <1>7, HostTypes DEF SetDesiredState, DesiredStates
    <2> QED BY <1>7, <2>1 DEF SetDesiredState, unchangedPass, TypeOK, otherVars
  <1>8. CASE HrmAddPart
    BY <1>8 DEF HrmAddPart, unchangedPass, TypeOK, otherVars
  <1> QED
    BY <1>1, <1>2, <1>3, <1>4, <1>5, <1>6, <1>7, <1>8 DEF Environment, CallerStep

LEMMA TypeStep == TypeOK /\ [Next]_vars => TypeOK'
  <1> SUFFICES ASSUME TypeOK, [Next]_vars PROVE TypeOK'
    OBVIOUS
  <1>1. CASE Get
    <2>1. Reconcile(host) # "Ack" =>
            [at |-> Reconcile(host), cur |-> host.cur, nics |-> parts \cap Nics,
             devices |-> parts \cap Devices, ips |-> {}] \in PassType
      BY DEF TypeOK, Reconcile, DeleteHost, PassType, Steps, HostType
    <2>2. pass' \in PassType
      BY <1>1, <2>1 DEF Get, TypeOK
    <2> QED BY <1>1, <2>2, FaultTypes DEF Get, TypeOK, invVars, otherVars
  <1>2. CASE Enqueue
    BY <1>2 DEF Enqueue, TypeOK, invVars, otherVars
  <1>3. CASE Crash
    <2>1. NoPass \in PassType /\ NoCaller \in CallerType /\ Exists \in BOOLEAN
      BY DEF NoPass, PassType, Steps, CurrentStates, NoCaller, CallerType, Exists
    <2>2. faults' \in [inv : Nat, ext : Nat, crash : Nat]
      BY <1>3 DEF Crash, TypeOK
    <2> QED BY <1>3, <2>1, <2>2 DEF Crash, TypeOK, invVars
  <1>4. CASE UNCHANGED vars
    BY <1>4 DEF vars, TypeOK
  <1> QED
    BY <1>1, <1>2, <1>3, <1>4, PassStepTypes, EnvironmentTypes DEF Next

-----------------------------------------------------------------------------

\* The host while a pass is at work: who changes what.
LEMMA PassInvStep == IInv /\ [Next]_vars => PassInv'
  <1> SUFFICES ASSUME IInv, [Next]_vars PROVE PassInv'
    OBVIOUS
  <1>0. TypeOK /\ PassInv /\ host \in HostType /\ pass \in PassType
    BY DEF IInv, TypeOK
  <1> USE <1>0 DEF PassInv, Deleting, Exists, HostType, PassType
  <1>1. CASE Get
    <2>1. CASE pass' = pass
      BY <1>1, <2>1 DEF Get, invVars
    <2>2. CASE pass' # pass
      <3>1. /\ Exists /\ Reconcile(host) # "Ack" /\ host' = host
            /\ pass'.at = Reconcile(host)
        BY <1>1, <2>2 DEF Get, invVars
      <3> QED BY <3>1 DEF Reconcile, DeleteHost
    <2> QED BY <2>1, <2>2
  <1>2. CASE WaitForInstance \/ AnnounceDeletion
    <2>1. /\ host'.cur = host.cur /\ host'.des = host.des
          /\ host'.instance = host.instance
      BY <1>2 DEF WaitForInstance, AnnounceDeletion, SetHostStatusDetail
    <2>2. pass'.at \in {"idle", "nics", "revoke"}
      BY <1>2 DEF WaitForInstance, AnnounceDeletion, Return, Goto, NoPass
    <2>3. WaitForInstance => pass'.at = "idle"
      BY DEF WaitForInstance, Return, NoPass
    <2>4. AnnounceDeletion => pass.at = "detail"
      BY DEF AnnounceDeletion
    <2> QED BY <1>2, <2>1, <2>2, <2>3, <2>4
  <1>3. CASE Revoke \/ NextHostNic \/ DeleteIP \/ DeleteNic \/ DeleteDevice
    <2>1. host' = host
      BY <1>3 DEF Revoke, NextHostNic, DeleteIP, DeleteNic, DeleteDevice, invVars
    <2>2. pass.at \in Deleting /\ pass'.at \in Deleting \cup {"idle"}
      <3> USE DEF HandleInventoryError, Return, Goto, NoPass, RemoveFails
      <3>1. CASE Revoke
        BY <3>1 DEF Revoke
      <3>2. CASE NextHostNic
        <4>1. pass' = [pass EXCEPT !.at = "ips", !.ips = ListIPAddresses(NextNic)]
                => pass'.at = "ips"
          OBVIOUS
        <4> QED BY <3>2, <4>1 DEF NextHostNic
      <3>3. CASE DeleteIP
        BY <3>3 DEF DeleteIP
      <3>4. CASE DeleteNic
        <4>1. pass' = [pass EXCEPT !.at = "nics", !.nics = @ \ {NextNic}]
                => pass'.at = "nics"
          OBVIOUS
        <4> QED BY <3>4, <4>1 DEF DeleteNic
      <3>5. CASE DeleteDevice
        BY <3>5 DEF DeleteDevice
      <3> QED BY <1>3, <3>1, <3>2, <3>3, <3>4, <3>5
    <2>3. Exists /\ host.des = "DELETED" /\ ~host.instance
      BY <2>2
    <2> QED BY <2>1, <2>3
  <1>4. CASE DeleteHostResource
    BY <1>4 DEF DeleteHostResource, HandleInventoryError, Return, NoPass
  <1>5. CASE Invalidate
    BY <1>5 DEF Invalidate, HandleInventoryError, Return, Goto, NoPass
  <1>6. CASE UpdateHostStateAndRuntimeStatus
    <2>1. pass'.at = "idle" /\ Exists
      BY <1>6 DEF UpdateHostStateAndRuntimeStatus, HandleInventoryError, Return, NoPass
    <2>2. /\ host'.cur \in {host.cur, "UNTRUSTED"} /\ host'.des = host.des
          /\ host'.instance = host.instance
      BY <1>6 DEF UpdateHostStateAndRuntimeStatus
    <2> QED BY <2>1, <2>2
  <1>7. CASE Enqueue
    BY <1>7 DEF Enqueue, invVars
  <1>8. CASE Crash
    BY <1>8 DEF Crash, invVars, NoPass
  <1>9. CASE StreamRequest \/ InstanceGet \/ InstanceCreds \/ StreamSecret \/ HrmAddPart
    <2>1. host' = host /\ pass' = pass
      BY <1>9 DEF StreamRequest, InstanceGet, InstanceCreds, StreamSecret, HrmAddPart,
        unchangedPass, invVars
    <2> QED BY <2>1
  <1>10. CASE StreamWrite
    <2>1. caller.cur \in {"REGISTERED", "ONBOARDED"} /\ pass' = pass
      BY <1>10 DEF StreamWrite, TypeOK, CallerType
    <2>2. \/ host' = host
          \/ /\ Exists /\ host'.cur # "ABSENT" /\ host'.des = host.des
             /\ host'.instance = host.instance
      BY <1>10, <2>1 DEF StreamWrite
    <2> QED BY <2>1, <2>2
  <1>11. CASE CreateInstance \/ RemoveInstance \/ SetDesiredState
    BY <1>11 DEF CreateInstance, RemoveInstance, SetDesiredState, unchangedPass
  <1>12. CASE UNCHANGED vars
    BY <1>12 DEF vars
  <1> QED
    BY <1>1, <1>2, <1>3, <1>4, <1>5, <1>6, <1>7, <1>8, <1>9, <1>10, <1>11, <1>12
    DEF Next, PassStep, Environment, CallerStep

\* The parts left are on the lists of the pass that deletes them: HRM adds
\* none to a host that is to be deleted.
LEMMA PartsInvStep ==
  IInv /\ [Next]_vars => PartsInv' /\ NoPartsLeft' /\ IpHasNic'
  <1> SUFFICES ASSUME IInv, [Next]_vars PROVE PartsInv' /\ NoPartsLeft' /\ IpHasNic'
    OBVIOUS
  <1>0. /\ PassInv /\ PartsInv /\ NoPartsLeft /\ IpHasNic
        /\ pass \in PassType /\ parts \subseteq Parts /\ pass.nics \subseteq Nics
    BY DEF IInv, TypeOK, PassType
  <1> USE <1>0 DEF Deleting
  <1>1. ASSUME parts' = parts, pass' = pass, Exists' = Exists
        PROVE  PartsInv' /\ NoPartsLeft' /\ IpHasNic'
    BY <1>1 DEF PartsInv, NoPartsLeft, IpHasNic, ListIPAddresses, NextNic
  <1>2. ASSUME parts' = parts, pass'.at \in {"idle", "waiting", "invalidate", "setUntrusted"},
               Exists' = Exists
        PROVE  PartsInv' /\ NoPartsLeft' /\ IpHasNic'
    BY <1>2 DEF PartsInv, NoPartsLeft, IpHasNic
  <1>3. CASE Get
    <2>1. CASE pass' = pass
      BY <1>1, <1>3, <2>1 DEF Get, invVars, Exists
    <2>2. CASE pass' # pass
      <3>1. /\ host' = host /\ parts' = parts
            /\ pass' = [at |-> Reconcile(host), cur |-> host.cur,
                        nics |-> parts \cap Nics,
                        devices |-> parts \cap Devices, ips |-> {}]
        BY <1>3, <2>2 DEF Get, invVars
      <3>2. Reconcile(host) \in {"Ack", "waiting", "detail", "invalidate"}
        BY DEF Reconcile, DeleteHost
      <3>3. Exists' = Exists
        BY <3>1 DEF Exists
      <3> QED BY <3>1, <3>2, <3>3 DEF PartsInv, NoPartsLeft, IpHasNic
    <2> QED BY <2>1, <2>2
  <1>4. CASE WaitForInstance \/ AnnounceDeletion
    <2>1. parts' = parts /\ Exists' = Exists
      BY <1>4 DEF WaitForInstance, AnnounceDeletion, SetHostStatusDetail, Exists, TypeOK,
        IInv, HostType
    <2>2. CASE WaitForInstance
      BY <1>2, <2>1, <2>2 DEF WaitForInstance, Return, NoPass
    <2>3. CASE AnnounceDeletion
      <3>1. /\ pass.at = "detail" /\ pass'.at \in {"nics", "revoke"}
            /\ pass'.nics = pass.nics /\ pass'.devices = pass.devices
        BY <2>3 DEF AnnounceDeletion, Goto, PassType
      <3> QED BY <2>1, <3>1 DEF PartsInv, NoPartsLeft, IpHasNic
    <2> QED BY <1>4, <2>2, <2>3
  <1>5. CASE Revoke
    <2>1. parts' = parts /\ Exists' = Exists
      BY <1>5 DEF Revoke, Exists
    <2>2. /\ pass.at = "revoke" /\ pass'.at \in {"nics", "idle"}
          /\ pass'.at = "nics" => pass'.nics = pass.nics /\ pass'.devices = pass.devices
      BY <1>5 DEF Revoke, Goto, HandleInventoryError, Return, NoPass, PassType
    <2> QED BY <2>1, <2>2 DEF PartsInv, NoPartsLeft, IpHasNic
  <1>6. CASE NextHostNic
    <2>1. parts' = parts /\ Exists' = Exists /\ pass.at = "nics"
      BY <1>6 DEF NextHostNic, invVars, Exists
    <2>0. pass' = [pass EXCEPT !.at = "ips", !.ips = ListIPAddresses(NextNic)] =>
            /\ pass'.at = "ips" /\ pass'.nics = pass.nics
            /\ pass'.devices = pass.devices /\ pass'.ips = ListIPAddresses(NextNic)
      BY DEF PassType
    <2>2. \/ /\ pass.nics = {} /\ pass'.at = "devices" /\ pass'.nics = pass.nics
             /\ pass'.devices = pass.devices
          \/ /\ pass.nics # {} /\ pass'.at = "ips" /\ pass'.nics = pass.nics
             /\ pass'.devices = pass.devices /\ pass'.ips = ListIPAddresses(NextNic)
          \/ pass'.at = "idle"
      BY <1>6, <2>0 DEF NextHostNic, Goto, HandleInventoryError, Return, NoPass, PassType
    <2> QED BY <2>1, <2>2 DEF PartsInv, NoPartsLeft, IpHasNic, ListIPAddresses, NextNic
  <1>7. CASE DeleteIP
    <2>1. PICK a \in pass.ips :
            /\ parts' \in {parts, parts \ {a}}
            /\ \/ /\ parts' = parts \ {a}
                  /\ pass' = [pass EXCEPT !.ips = @ \ {a}]
               \/ pass'.at = "idle"
      BY <1>7 DEF DeleteIP, Remove, RemoveFails, HandleInventoryError, Return, NoPass
    <2>2. /\ pass.at = "ips" /\ a \in Ips /\ Exists' = Exists
      BY <1>7 DEF DeleteIP, PassType, Exists
    <2>3. IpHasNic'
      BY <2>1, <2>2, DisjointAssumption, NicOfAssumption DEF IpHasNic
    <2>4. NoPartsLeft'
      BY <2>1, <2>2 DEF NoPartsLeft
    <2>5. ASSUME pass'.at = "idle" PROVE PartsInv'
      BY <2>5 DEF PartsInv
    <2>6. ASSUME pass'.at # "idle" PROVE PartsInv'
      <3>1. /\ parts' = parts \ {a} /\ pass'.at = "ips" /\ pass'.nics = pass.nics
            /\ pass'.devices = pass.devices /\ pass'.ips = pass.ips \ {a}
        BY <2>1, <2>2, <2>6 DEF PassType
      <3> QED BY <2>2, <3>1 DEF PartsInv, ListIPAddresses, NextNic
    <2> QED BY <2>3, <2>4, <2>5, <2>6
  <1>8. CASE DeleteNic
    <2>0. /\ pass.at = "ips" /\ pass.ips = {} /\ Exists' = Exists
      BY <1>8 DEF DeleteNic, Exists
    <2>1. /\ parts' \in {parts, parts \ {NextNic}}
          /\ \/ /\ parts' = parts \ {NextNic}
                /\ pass' = [pass EXCEPT !.at = "nics", !.nics = @ \ {NextNic}]
             \/ pass'.at = "idle"
      BY <1>8 DEF DeleteNic, Remove, RemoveFails, HandleInventoryError, Return, NoPass
    <2>2. \A a \in parts \cap Ips : NicOf[a] # NextNic
      BY <2>0 DEF PartsInv, ListIPAddresses
    <2>3. IpHasNic'
      BY <2>1, <2>2 DEF IpHasNic
    <2>4. NoPartsLeft'
      BY <2>0, <2>1 DEF NoPartsLeft
    <2>5. ASSUME pass'.at = "idle" PROVE PartsInv'
      BY <2>5 DEF PartsInv
    <2>6. ASSUME pass'.at # "idle" PROVE PartsInv'
      <3>1. /\ parts' = parts \ {NextNic} /\ pass'.at = "nics"
            /\ pass'.nics = pass.nics \ {NextNic} /\ pass'.devices = pass.devices
        BY <2>1, <2>6 DEF PassType
      <3> QED BY <2>0, <3>1 DEF PartsInv
    <2> QED BY <2>3, <2>4, <2>5, <2>6
  <1>9. CASE DeleteDevice
    <2>0. pass.at = "devices" /\ pass.nics = {} /\ Exists' = Exists
      BY <1>9 DEF DeleteDevice, Exists, PartsInv
    <2>1. CASE parts' = parts /\ pass.devices = {} /\ Goto("setDeleted")
      <3>1. /\ pass'.at = "setDeleted" /\ pass'.nics = {} /\ pass'.devices = {}
        BY <2>0, <2>1 DEF Goto, PassType
      <3> QED BY <2>0, <2>1, <3>1 DEF PartsInv, NoPartsLeft, IpHasNic
    <2>2. CASE \E d \in pass.devices :
                 /\ parts' \in {parts, parts \ {d}}
                 /\ \/ /\ parts' = parts \ {d}
                       /\ pass' = [pass EXCEPT !.devices = @ \ {d}]
                    \/ pass'.at = "idle"
      <3>1. PICK d \in pass.devices :
                 /\ parts' \in {parts, parts \ {d}}
                 /\ \/ /\ parts' = parts \ {d}
                       /\ pass' = [pass EXCEPT !.devices = @ \ {d}]
                    \/ pass'.at = "idle"
        BY <2>2
      <3>2. d \in Devices
        BY DEF PassType
      <3>3. IpHasNic' /\ NoPartsLeft'
        BY <2>0, <3>1, <3>2, DisjointAssumption, NicOfAssumption DEF IpHasNic, NoPartsLeft
      <3>4. ASSUME pass'.at = "idle" PROVE PartsInv'
        BY <3>4 DEF PartsInv
      <3>5. ASSUME pass'.at # "idle" PROVE PartsInv'
        <4>1. /\ parts' = parts \ {d} /\ pass'.at = "devices" /\ pass'.nics = pass.nics
              /\ pass'.devices = pass.devices \ {d}
          BY <2>0, <3>1, <3>5 DEF PassType
        <4> QED BY <2>0, <4>1 DEF PartsInv
      <3> QED BY <3>3, <3>4, <3>5
    <2> QED
      BY <1>9, <2>1, <2>2 DEF DeleteDevice, Remove, RemoveFails, HandleInventoryError,
        Return, NoPass
  <1>10. CASE DeleteHostResource
    <2>1. /\ pass.at = "setDeleted" /\ parts' = parts /\ pass'.at = "idle"
      BY <1>10 DEF DeleteHostResource, HandleInventoryError, Return, NoPass
    <2>2. parts \cap Nics = {} /\ parts \cap Devices = {}
      BY <2>1 DEF PartsInv
    <2>3. parts \cap Ips = {}
      BY <2>2, NicOfAssumption DEF IpHasNic
    <2>4. parts = {}
      BY <2>2, <2>3 DEF Parts
    <2> QED BY <2>1, <2>4 DEF PartsInv, NoPartsLeft, IpHasNic
  <1>11. CASE Invalidate
    <2>1. parts' = parts /\ Exists' = Exists /\ pass'.at \in {"idle", "setUntrusted"}
      BY <1>11 DEF Invalidate, Exists, HandleInventoryError, Return, NoPass, Goto, PassType
    <2> QED BY <1>2, <2>1
  <1>12. CASE UpdateHostStateAndRuntimeStatus
    <2>1. parts' = parts /\ pass'.at = "idle" /\ pass.at # "idle"
      BY <1>12 DEF UpdateHostStateAndRuntimeStatus, HandleInventoryError, Return, NoPass
    <2>2. Exists' = Exists
      BY <1>12, <2>1 DEF UpdateHostStateAndRuntimeStatus, PassInv, Exists, IInv, TypeOK,
        HostType
    <2> QED BY <1>2, <2>1, <2>2
  <1>13. CASE Enqueue \/ StreamRequest \/ StreamSecret \/ InstanceGet \/ InstanceCreds
    BY <1>1, <1>13 DEF Enqueue, StreamRequest, StreamSecret, InstanceGet, InstanceCreds,
      unchangedPass, invVars, Exists
  <1>14. CASE Crash
    BY <1>2, <1>14 DEF Crash, invVars, Exists, NoPass
  <1>15. CASE StreamWrite
    <2>1. caller.cur \in {"REGISTERED", "ONBOARDED"} /\ host \in HostType
      BY DEF IInv, TypeOK, CallerType
    <2>2. Exists' = Exists
      BY <1>15, <2>1 DEF StreamWrite, Exists, HostType
    <2> QED BY <1>1, <1>15, <2>2 DEF StreamWrite
  <1>16. CASE CreateInstance \/ RemoveInstance \/ SetDesiredState
    <2>1. host \in HostType
      BY DEF IInv, TypeOK
    <2>2. Exists' = Exists
      BY <1>16, <2>1 DEF CreateInstance, RemoveInstance, SetDesiredState, Exists, HostType
    <2> QED
      BY <1>1, <1>16, <2>2 DEF CreateInstance, RemoveInstance, SetDesiredState, unchangedPass
  <1>17. CASE HrmAddPart
    <2>1. /\ Exists /\ host.des # "DELETED" /\ pass' = pass /\ Exists' = Exists
      BY <1>17 DEF HrmAddPart, Exists, unchangedPass
    <2>2. pass.at \notin Deleting
      BY <2>1 DEF PassInv
    <2>3. PICK p \in Parts \ parts :
            (p \in Ips => NicOf[p] \in parts) /\ parts' = parts \cup {p}
      BY <1>17 DEF HrmAddPart
    <2>4. IpHasNic'
      BY <2>3 DEF IpHasNic
    <2> QED BY <2>1, <2>2, <2>4 DEF PartsInv, NoPartsLeft
  <1>18. CASE UNCHANGED vars
    BY <1>1, <1>18 DEF vars, Exists
  <1> QED
    BY <1>3, <1>4, <1>5, <1>6, <1>7, <1>8, <1>9, <1>10, <1>11, <1>12, <1>13, <1>14,
       <1>15, <1>16, <1>17, <1>18 DEF Next, PassStep, Environment, CallerStep

\* The host is removed by a pass that found no Instance.
LEMMA InstanceHasHostStep == IInv /\ [Next]_vars => InstanceHasHost'
  <1> SUFFICES ASSUME IInv, [Next]_vars PROVE InstanceHasHost'
    OBVIOUS
  <1>0. /\ TypeOK /\ PassInv /\ InstanceHasHost /\ host \in HostType
    BY DEF IInv, TypeOK
  <1> USE <1>0 DEF InstanceHasHost, Exists
  <1>1. CASE host' = host
    BY <1>1
  <1>2. CASE WaitForInstance \/ AnnounceDeletion
    BY <1>2 DEF WaitForInstance, AnnounceDeletion, SetHostStatusDetail, HostType
  <1>3. CASE DeleteHostResource
    BY <1>3 DEF DeleteHostResource, PassInv, Deleting, HostType
  <1>4. CASE UpdateHostStateAndRuntimeStatus
    BY <1>4 DEF UpdateHostStateAndRuntimeStatus, HostType
  <1>5. CASE StreamWrite
    <2>1. caller.cur # "ABSENT"
      BY DEF TypeOK, CallerType
    <2>2. host' = host \/ host'.cur = caller.cur
      BY <1>5 DEF StreamWrite, HostType
    <2> QED BY <2>1, <2>2
  <1>6. CASE CreateInstance \/ RemoveInstance \/ SetDesiredState
    BY <1>6 DEF CreateInstance, RemoveInstance, SetDesiredState, HostType
  <1> QED
    BY <1>1, <1>2, <1>3, <1>4, <1>5, <1>6
    DEF Next, PassStep, Environment, CallerStep, Get, Revoke, NextHostNic, DeleteIP,
      DeleteNic, DeleteDevice, Invalidate, Enqueue, Crash, StreamRequest, StreamSecret,
      InstanceGet, InstanceCreds, HrmAddPart, invVars, vars

\* Getting or creating credentials does not undo the revocation ...
LEMMA FetchKeepsRevoked ==
  ASSUME creds \in {"revoked", "again"}, FetchClientSecret \/ UNCHANGED creds
  PROVE  creds' \in {"revoked", "again"}
  BY DEF FetchClientSecret

\* ... which every pass that removes or invalidates the host has behind it.
LEMMA CredsInvStep == IInv /\ [Next]_vars => CredsInv'
  <1> SUFFICES ASSUME IInv, [Next]_vars PROVE CredsInv'
    OBVIOUS
  <1>0. TypeOK /\ PassInv /\ CredsInv /\ host \in HostType /\ pass \in PassType
    BY DEF IInv, TypeOK
  <1> USE <1>0 DEF Exists, RevocationDone
  <1>1. ASSUME creds' = creds \/ creds' = "revoked" \/ FetchClientSecret,
               RevocationDone' => creds' = "revoked" \/ RevocationDone
        PROVE  CredsInv'
    BY <1>1, FetchKeepsRevoked DEF CredsInv
  <1>2. CASE Get
    <2>1. CASE pass' = pass
      BY <1>1, <1>2, <2>1 DEF Get, invVars
    <2>2. CASE pass' # pass
      <3>1. /\ host' = host /\ creds' = creds /\ pass'.at = Reconcile(host)
            /\ pass'.cur = host.cur
        BY <1>2, <2>2 DEF Get, invVars
      <3>2. Reconcile(host) \in {"Ack", "waiting", "detail", "invalidate"}
        BY DEF Reconcile, DeleteHost
      <3> QED BY <1>1, <3>1, <3>2
    <2> QED BY <2>1, <2>2
  <1>3. CASE WaitForInstance \/ AnnounceDeletion
    <2>1. /\ creds' = creds /\ host'.cur = host.cur
      BY <1>3 DEF WaitForInstance, AnnounceDeletion, SetHostStatusDetail, HostType
    <2>2. WaitForInstance => pass'.at = "idle"
      BY DEF WaitForInstance, Return, NoPass
    <2>3. AnnounceDeletion =>
            /\ pass.at = "detail" /\ pass'.cur = pass.cur
            /\ pass'.at = IF pass.cur = "UNTRUSTED" THEN "nics" ELSE "revoke"
      BY DEF AnnounceDeletion, Goto, PassType
    <2> QED BY <1>1, <1>3, <2>1, <2>2, <2>3
  <1>4. CASE Revoke \/ Invalidate
    <2>1. /\ host' = host
          /\ creds' = creds \/ creds' = "revoked"
          /\ pass'.at = "idle" \/ creds' = "revoked"
      BY <1>4 DEF Revoke, Invalidate, RevokeFails, RevokeHostCredentials,
        HandleInventoryError, Return, NoPass
    <2> QED BY <1>1, <2>1
  <1>5. CASE NextHostNic \/ DeleteIP \/ DeleteNic \/ DeleteDevice
    <2>1. /\ host' = host /\ creds' = creds
          /\ pass.at \in {"nics", "ips", "devices"}
      BY <1>5 DEF NextHostNic, DeleteIP, DeleteNic, DeleteDevice, invVars
    <2> QED BY <1>1, <2>1
  <1>6. CASE DeleteHostResource \/ UpdateHostStateAndRuntimeStatus
    <2>1. creds' = creds /\ pass.at \in {"setDeleted", "setUntrusted"}
      BY <1>6 DEF DeleteHostResource, UpdateHostStateAndRuntimeStatus
    <2> QED BY <1>1, <2>1
  <1>7. CASE Enqueue \/ StreamRequest \/ InstanceGet \/ HrmAddPart
    BY <1>1, <1>7 DEF Enqueue, StreamRequest, InstanceGet, HrmAddPart, unchangedPass, invVars
  <1>8. CASE Crash
    BY <1>1, <1>8 DEF Crash, invVars, NoPass
  <1>9. CASE StreamSecret \/ InstanceCreds
    BY <1>1, <1>9 DEF StreamSecret, InstanceCreds
  <1>10. CASE StreamWrite
    <2>1. caller.cur \in {"REGISTERED", "ONBOARDED"} /\ pass' = pass /\ creds' = creds
      BY <1>10 DEF StreamWrite, TypeOK, CallerType
    <2>2. host' = host \/ host'.cur = caller.cur
      BY <1>10 DEF StreamWrite, HostType
    <2> QED BY <1>1, <2>1, <2>2
  <1>11. CASE CreateInstance \/ RemoveInstance \/ SetDesiredState
    <2>1. creds' = creds /\ pass' = pass /\ host'.cur = host.cur
      BY <1>11 DEF CreateInstance, RemoveInstance, SetDesiredState, unchangedPass, HostType
    <2> QED BY <1>1, <2>1
  <1>12. CASE UNCHANGED vars
    BY <1>1, <1>12 DEF vars
  <1> QED
    BY <1>2, <1>3, <1>4, <1>5, <1>6, <1>7, <1>8, <1>9, <1>10, <1>11, <1>12
    DEF Next, PassStep, Environment, CallerStep

-----------------------------------------------------------------------------

\* The inductive invariant.  An Instance is assigned only to a host that
\* exists because a removed host is to be deleted, and gets none.
THEOREM HostInductive == Spec => []IInv
  <1>1. IInv /\ [Next]_vars => IInv'
    <2> SUFFICES ASSUME IInv, [Next]_vars PROVE IInv'
      OBVIOUS
    <2>1. TypeOK' /\ PassInv' /\ PartsInv' /\ CredsInv' /\ NoPartsLeft' /\ IpHasNic'
      BY TypeStep, PassInvStep, PartsInvStep, CredsInvStep DEF IInv
    <2>2. InstanceHasHost'
      BY InstanceHasHostStep
    <2> QED BY <2>1, <2>2 DEF IInv
  <1> QED
    BY InitIInv, <1>1, PTL DEF Spec

\* Every reachable state has the declared types.
THEOREM HostTypeCorrect == Spec => []TypeOK
  <1>1. IInv => TypeOK
    BY DEF IInv
  <1> QED BY HostInductive, <1>1, PTL

\* Whatever parts a host has and whatever fails, none outlives it.
THEOREM NothingLeft == Spec => []NoPartsLeft
  <1>1. IInv => NoPartsLeft
    BY DEF IInv
  <1> QED BY HostInductive, <1>1, PTL

\* An address never outlives its NIC.
THEOREM AddressesFirst == Spec => []IpHasNic
  <1>1. IInv => IpHasNic
    BY DEF IInv
  <1> QED BY HostInductive, <1>1, PTL

\* A host is removed after a revocation of its credentials.
THEOREM CredentialsRevoked == Spec => []RemovedMeansRevoked
  <1>1. IInv => RemovedMeansRevoked
    BY DEF IInv, CredsInv, RevocationDone, RemovedMeansRevoked, Exists
  <1> QED BY HostInductive, <1>1, PTL

\* A host is removed after its Instance.
THEOREM InstanceFirst == Spec => []InstanceHasHost
  <1>1. IInv => InstanceHasHost
    BY DEF IInv
  <1> QED BY HostInductive, <1>1, PTL

=============================================================================
