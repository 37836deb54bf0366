-------------------------- MODULE HostReconciler --------------------------
(***************************************************************************)
(* The Host reconciler of the Onboarding Manager on one host: deletion and *)
(* invalidation, a step per call, next to the callers that touch the same  *)
(* host at the same time: the stream handler of the southbound API, the    *)
(* Instance reconciler (which creates credentials), HRM and the user.      *)
(***************************************************************************)
EXTENDS Naturals, FiniteSets

CONSTANTS
  Nics, Ips, Devices,   \* parts a host may have; Devices: storages, USBs, GPUs
  NicOf,                \* the NIC of each IP address
  SkipOSProvisioning,   \* the vPro mode, in which no Instance is created
  MaxInvFaults,         \* bound: how many Inventory calls fail
  MaxExtFaults,         \* bound: how many Keycloak calls fail
  MaxCrashes            \* bound: how often the manager crashes

ASSUME NicOfAssumption == NicOf \in [Ips -> Nics]
ASSUME DisjointAssumption ==
  Nics \cap Ips = {} /\ Nics \cap Devices = {} /\ Ips \cap Devices = {}
ASSUME ModeAssumption == SkipOSProvisioning \in BOOLEAN
ASSUME BoundsAssumption ==
  MaxInvFaults \in Nat /\ MaxExtFaults \in Nat /\ MaxCrashes \in Nat

VARIABLES
  host,     \* Inventory: the Host resource
  parts,    \* Inventory: NICs, IP addresses and devices of the host
  creds,    \* Keycloak: the client of the host
  queued,   \* the host waits in the reconciler's queue
  pass,     \* the running pass of the Host reconciler, and what it has read
  caller,   \* the stream handler at work on the host
  instPass, \* a pass of the Instance reconciler is about to create credentials
  faults    \* how many faults of each kind have happened

invVars == <<host, parts, creds>>
otherVars == <<caller, instPass>>
vars == <<host, parts, creds, queued, pass, caller, instPass, faults>>

Parts == Nics \cup Ips \cup Devices
CurrentStates == {"REGISTERED", "ONBOARDED", "UNTRUSTED", "ABSENT"}
DesiredStates == {"REGISTERED", "ONBOARDED", "UNTRUSTED", "DELETED"}

\* detail: the onboarding status, by what the reconciler writes into it;
\* instance: an Instance is assigned; vendor: the host has a Provider.
HostType == [cur : CurrentStates, des : DesiredStates, instance : BOOLEAN,
             vendor : BOOLEAN, detail : {"other", "waiting", "deleting"}]

\* "again": created once more after a revocation.
CredStates == {"none", "valid", "revoked", "again"}

\* at: the next call; cur: the current state the pass read; nics, devices:
\* the eager-loaded parts left to delete; nic, ips: the NIC at hand and its
\* listed addresses.
Steps == {"idle", "waiting", "detail", "revoke", "nics", "ips", "devices",
          "setDeleted", "invalidate", "setUntrusted"}
PassType == [at : Steps, cur : CurrentStates, nics : SUBSET Nics,
             devices : SUBSET Devices, ips : SUBSET Ips]

CallerType == [at : {"idle", "secret", "write"}, cur : {"REGISTERED", "ONBOARDED"}]

NoPass == [at |-> "idle", cur |-> "ABSENT", nics |-> {}, devices |-> {}, ips |-> {}]
NoCaller == [at |-> "idle", cur |-> "REGISTERED"]

TypeOK ==
  /\ host \in HostType /\ parts \in SUBSET Parts /\ creds \in CredStates
  /\ queued \in BOOLEAN /\ pass \in PassType /\ caller \in CallerType
  /\ instPass \in BOOLEAN
  /\ faults \in [inv : Nat, ext : Nat, crash : Nat]

Exists == host.cur # "ABSENT"

Init ==
  /\ \E v \in BOOLEAN, d \in {"REGISTERED", "ONBOARDED"} :
       host = [cur |-> "REGISTERED", des |-> d, instance |-> FALSE,
               vendor |-> v, detail |-> "other"]
  /\ parts = {} /\ creds = "none"
  /\ queued = FALSE /\ pass = NoPass /\ caller = NoCaller /\ instPass = FALSE
  /\ faults = [inv |-> 0, ext |-> 0, crash |-> 0]

-----------------------------------------------------------------------------
(* Faults, directives and the end of a pass.                               *)

InvFault == /\ faults.inv < MaxInvFaults
            /\ faults' = [faults EXCEPT !.inv = @ + 1]
ExtFault == /\ faults.ext < MaxExtFaults
            /\ faults' = [faults EXCEPT !.ext = @ + 1]
NoFault == UNCHANGED faults

Goto(step) == pass' = [pass EXCEPT !.at = step] /\ UNCHANGED queued

\* The end of a pass: Retry puts the request back in the queue.
Return(dir) == /\ pass' = NoPass
               /\ queued' = (queued \/ dir = "Retry")

\* Some errors of a call are acknowledged (NotFound, Unauthenticated, an error
\* that is no gRPC status), the others are retried.
HandleInventoryError == \E dir \in {"Ack", "Retry"} : Return(dir)

-----------------------------------------------------------------------------
(* The decision on what the pass read.                                     *)

\* The Instance of a host is not looked at before the host is deleted.
DeleteHostMutant(hs) == "detail"

\* deleteHost, up to its first call.
DeleteHost(hs) ==
  IF hs.instance /\ ~SkipOSProvisioning THEN "waiting" ELSE "detail"

\* Without a directive for the other desired states.
ReconcileNoDefaultMutant(hs) ==
  IF hs.vendor \/ hs.cur = hs.des THEN "Ack"
  ELSE IF hs.des = "DELETED" THEN DeleteHost(hs)
  ELSE IF hs.des = "UNTRUSTED" THEN "invalidate" ELSE "None"

\* An untrusted host counts as finished, whatever the user wants.
ReconcileUntrustedMutant(hs) ==
  IF hs.vendor \/ hs.cur = hs.des \/ hs.cur = "UNTRUSTED" THEN "Ack"
  ELSE IF hs.des = "DELETED" THEN DeleteHost(hs)
  ELSE IF hs.des = "UNTRUSTED" THEN "invalidate" ELSE "Ack"

\* Only an onboarded host is invalidated.
ReconcileOnboardedMutant(hs) ==
  IF hs.vendor \/ hs.cur = hs.des THEN "Ack"
  ELSE IF hs.des = "DELETED" THEN DeleteHost(hs)
  ELSE IF hs.des = "UNTRUSTED" /\ hs.cur = "ONBOARDED" THEN "invalidate" ELSE "Ack"

\* "Ack" ends the pass, anything else is its next call.
Reconcile(hs) ==
  IF hs.vendor \/ hs.cur = hs.des THEN "Ack"
  ELSE IF hs.des = "DELETED" THEN DeleteHost(hs)
  ELSE IF hs.des = "UNTRUSTED" THEN "invalidate" ELSE "Ack"

\* The pass takes the request off the queue and reads the host, with its
\* Instance, NICs and devices (eager-loaded).
Get ==
  /\ queued /\ pass.at = "idle"
  /\ \/ InvFault /\ \E retry \in BOOLEAN : queued' = retry /\ UNCHANGED pass
     \/ /\ NoFault
        /\ queued' = FALSE
        /\ IF ~Exists \/ Reconcile(host) = "Ack" THEN UNCHANGED pass
           ELSE pass' = [at |-> Reconcile(host), cur |-> host.cur,
                         nics |-> parts \cap Nics,
                         devices |-> parts \cap Devices, ips |-> {}]
  /\ UNCHANGED <<invVars, otherVars>>

-----------------------------------------------------------------------------
(* Deletion.                                                               *)

\* SetHostStatusDetail: an error is only logged.
SetHostStatusDetail(d) ==
  /\ \/ NoFault /\ Exists /\ host' = [host EXCEPT !.detail = d]
     \/ NoFault /\ ~Exists /\ UNCHANGED host
     \/ InvFault /\ UNCHANGED host
  /\ UNCHANGED <<parts, creds, otherVars>>

\* checkIfInstanceIsAssociated: wait for the Instance to be deleted first.
WaitForInstance ==
  /\ pass.at = "waiting"
  /\ SetHostStatusDetail("waiting")
  /\ Return("Retry")

AnnounceDeletion ==
  /\ pass.at = "detail"
  /\ SetHostStatusDetail("deleting")
  /\ Goto(IF pass.cur = "UNTRUSTED" THEN "nics" ELSE "revoke")

\* A call that fails may have revoked the credentials all the same.
RevokeHostCredentials == creds' = "revoked"
RevokeFails == ExtFault /\ (RevokeHostCredentials \/ UNCHANGED creds)

\* The deletion goes on although the credentials could not be revoked.
RevokeMutant ==
  /\ pass.at = "revoke"
  /\ (NoFault /\ RevokeHostCredentials) \/ RevokeFails
  /\ Goto("nics")
  /\ UNCHANGED <<host, parts, otherVars>>

Revoke ==
  /\ pass.at = "revoke"
  /\ \/ NoFault /\ RevokeHostCredentials /\ Goto("nics")
     \/ RevokeFails /\ HandleInventoryError
  /\ UNCHANGED <<host, parts, otherVars>>

\* DeleteResource and DeleteIPAddress: a part that is gone is no error, and
\* a call that fails may have deleted the part.
Remove(p) == parts' = parts \ {p}
RemoveFails(p) == /\ InvFault
                  /\ Remove(p) \/ UNCHANGED parts
                  /\ HandleInventoryError

\* The addresses are left to the Inventory.
ListIPAddressesMutant(n) == {}

\* The first NIC left in the list; the addresses of it that exist.
ListIPAddresses(n) == {a \in parts \cap Ips : NicOf[a] = n}
NextNic == CHOOSE n \in Nics : n \in pass.nics

\* deleteHostNicByHost: list the addresses of the next NIC, or go on.
NextHostNic ==
  /\ pass.at = "nics"
  /\ \/ pass.nics = {} /\ NoFault /\ Goto("devices")
     \/ /\ pass.nics # {} /\ NoFault
        /\ pass' = [pass EXCEPT !.at = "ips", !.ips = ListIPAddresses(NextNic)]
        /\ UNCHANGED queued
     \/ pass.nics # {} /\ InvFault /\ HandleInventoryError
  /\ UNCHANGED <<invVars, otherVars>>

\* deleteIPsByHostNic, one address at a time, and then the NIC.
DeleteIP ==
  /\ pass.at = "ips"
  /\ \E a \in pass.ips :
       \/ /\ NoFault /\ Remove(a)
          /\ pass' = [pass EXCEPT !.ips = @ \ {a}]
          /\ UNCHANGED queued
       \/ RemoveFails(a)
  /\ UNCHANGED <<host, creds, otherVars>>

DeleteNic ==
  /\ pass.at = "ips" /\ pass.ips = {}
  /\ \/ /\ NoFault /\ Remove(NextNic)
        /\ pass' = [pass EXCEPT !.at = "nics", !.nics = @ \ {NextNic}]
        /\ UNCHANGED queued
     \/ RemoveFails(NextNic)
  /\ UNCHANGED <<host, creds, otherVars>>

\* A device that could not be deleted is skipped.
DeleteDeviceMutant ==
  /\ pass.at = "devices"
  /\ \/ pass.devices = {} /\ NoFault /\ Goto("setDeleted") /\ UNCHANGED parts
     \/ \E d \in pass.devices :
          /\ (NoFault /\ Remove(d)) \/ (InvFault /\ (Remove(d) \/ UNCHANGED parts))
          /\ pass' = [pass EXCEPT !.devices = @ \ {d}]
          /\ UNCHANGED queued
  /\ UNCHANGED <<host, creds, otherVars>>

\* The storages, the USBs and the GPUs, one at a time.
DeleteDevice ==
  /\ pass.at = "devices"
  /\ \/ pass.devices = {} /\ NoFault /\ Goto("setDeleted") /\ UNCHANGED parts
     \/ \E d \in pass.devices :
          \/ /\ NoFault /\ Remove(d)
             /\ pass' = [pass EXCEPT !.devices = @ \ {d}]
             /\ UNCHANGED queued
          \/ RemoveFails(d)
  /\ UNCHANGED <<host, creds, otherVars>>

\* DeleteHostResource: the Inventory removes a resource whose current and
\* desired state are DELETED.
DeleteHostResource ==
  /\ pass.at = "setDeleted"
  /\ \/ NoFault /\ host' = [host EXCEPT !.cur = "ABSENT"] /\ Return("Ack")
     \/ InvFault /\ UNCHANGED host /\ HandleInventoryError
  /\ UNCHANGED <<parts, creds, otherVars>>

-----------------------------------------------------------------------------
(* invalidateHost.                                                         *)

Invalidate ==
  /\ pass.at = "invalidate"
  /\ \/ NoFault /\ RevokeHostCredentials /\ Goto("setUntrusted")
     \/ RevokeFails /\ HandleInventoryError
  /\ UNCHANGED <<host, parts, otherVars>>

UpdateHostStateAndRuntimeStatus ==
  /\ pass.at = "setUntrusted"
  /\ \/ /\ NoFault
        /\ host' = [host EXCEPT !.cur = "UNTRUSTED", !.detail = "other"]
        /\ Return("Ack")
     \/ InvFault /\ UNCHANGED host /\ HandleInventoryError
  /\ UNCHANGED <<parts, creds, otherVars>>

-----------------------------------------------------------------------------
(* The controller: events, the ticker, and a crash of the manager, which    *)
(* also ends the stream handler and the Instance pass.                      *)

Enqueue ==
  /\ ~queued /\ Exists
  /\ queued' = TRUE
  /\ UNCHANGED <<invVars, pass, otherVars, faults>>

Crash ==
  /\ faults.crash < MaxCrashes
  /\ faults' = [faults EXCEPT !.crash = @ + 1]
  /\ pass' = NoPass /\ caller' = NoCaller /\ instPass' = FALSE
  /\ queued' = Exists
  /\ UNCHANGED invVars

-----------------------------------------------------------------------------
(* The neighbours.                                                         *)

unchangedPass == UNCHANGED <<queued, pass, faults>>

\* FetchClientSecret and createENCredentialsIfNotExists: get or create.
FetchClientSecret ==
  creds' = CASE creds = "none" -> "valid" [] creds = "revoked" -> "again"
             [] OTHER -> creds

\* OnboardNodeStream reads the host and acts on its desired state ...
StreamRequest ==
  /\ caller.at = "idle" /\ Exists /\ host.cur # "ONBOARDED"
  /\ \/ host.des = "REGISTERED" /\ caller' = [at |-> "write", cur |-> "REGISTERED"]
     \/ host.des = "ONBOARDED" /\ caller' = [at |-> "secret", cur |-> "ONBOARDED"]
  /\ UNCHANGED <<invVars, instPass>> /\ unchangedPass

\* ... gets the secret from Keycloak (an error closes the stream) ...
StreamSecret ==
  /\ caller.at = "secret"
  /\ \/ /\ NoFault /\ FetchClientSecret
        /\ caller' = [caller EXCEPT !.at = "write"]
     \/ /\ ExtFault /\ (FetchClientSecret \/ UNCHANGED creds)
        /\ caller' = NoCaller
  /\ UNCHANGED <<host, parts, instPass, queued, pass>>

\* ... and, once the node has the response, writes the current state; the
\* response may fail to be sent and the write may fail.
StreamWrite ==
  /\ caller.at = "write"
  /\ \/ /\ NoFault /\ Exists
        /\ host' = [host EXCEPT !.cur = caller.cur,
                      !.detail = IF caller.cur = "ONBOARDED" THEN "other" ELSE @]
     \/ NoFault /\ UNCHANGED host
     \/ InvFault /\ UNCHANGED host
  /\ caller' = NoCaller
  /\ UNCHANGED <<parts, creds, instPass, queued, pass>>

\* A pass of the Instance reconciler on an onboarded, trusted host ...
InstanceGet ==
  /\ ~instPass /\ host.instance /\ host.cur = "ONBOARDED" /\ host.des # "UNTRUSTED"
  /\ instPass' = TRUE
  /\ UNCHANGED <<invVars, caller>> /\ unchangedPass

\* ... creates the credentials, some calls later, or fails before.
InstanceCreds ==
  /\ instPass /\ instPass' = FALSE
  /\ \/ NoFault /\ FetchClientSecret
     \/ ExtFault /\ (FetchClientSecret \/ UNCHANGED creds)
  /\ UNCHANGED <<host, parts, caller, queued, pass>>

\* The user creates an Instance; a pass of its reconciler removes it.
CreateInstance ==
  /\ ~SkipOSProvisioning /\ Exists /\ ~host.instance
  /\ host.des \in {"REGISTERED", "ONBOARDED"}
  /\ host' = [host EXCEPT !.instance = TRUE]
  /\ UNCHANGED <<parts, creds, otherVars>> /\ unchangedPass
RemoveInstance ==
  /\ host.instance /\ ~instPass
  /\ host' = [host EXCEPT !.instance = FALSE]
  /\ UNCHANGED <<parts, creds, otherVars>> /\ unchangedPass

\* The user moves the desired state; DELETED is final.
SetDesiredState ==
  /\ Exists
  /\ \E d \in {"ONBOARDED", "UNTRUSTED", "DELETED"} :
       /\ host.des # "DELETED"
       /\ d = "ONBOARDED" => host.des = "REGISTERED"
       /\ host.des # d
       /\ host' = [host EXCEPT !.des = d]
  /\ UNCHANGED <<parts, creds, otherVars>> /\ unchangedPass

\* HRM reports a part of an onboarded host that is to stay so.
HrmAddPart ==
  /\ host.cur = "ONBOARDED" /\ host.des = "ONBOARDED"
  /\ \E p \in Parts \ parts :
       /\ p \in Ips => NicOf[p] \in parts
       /\ parts' = parts \cup {p}
  /\ UNCHANGED <<host, creds, otherVars>> /\ unchangedPass

-----------------------------------------------------------------------------
(* The specification.                                                      *)

PassStep ==
  \/ WaitForInstance \/ AnnounceDeletion \/ Revoke
  \/ NextHostNic \/ DeleteIP \/ DeleteNic \/ DeleteDevice \/ DeleteHostResource
  \/ Invalidate \/ UpdateHostStateAndRuntimeStatus

CallerStep == StreamSecret \/ StreamWrite

Environment ==
  \/ StreamRequest \/ CallerStep \/ InstanceGet \/ InstanceCreds
  \/ CreateInstance \/ RemoveInstance \/ SetDesiredState \/ HrmAddPart

Next == Get \/ PassStep \/ Enqueue \/ Crash \/ Environment

Spec == Init /\ [][Next]_vars

\* The reconciler goroutine runs, the ticker enqueues the host again and
\* again, a handler goroutine that has started goes on.
Fairness == /\ WF_vars(Get) /\ WF_vars(PassStep) /\ WF_vars(Enqueue)
            /\ WF_vars(CallerStep)
FairSpec == Spec /\ Fairness

-----------------------------------------------------------------------------
(* Properties.                                                             *)

\* A removed host leaves no NIC, address or device behind, whatever call
\* failed and wherever the manager crashed (host.go, deleteHost).
NoPartsLeft == ~Exists => parts = {}

\* A NIC is removed after its addresses (host.go, deleteHostNicByHost:
\* "Firstly the IPAddresses due to the strong relation with nic").
IpHasNic == \A a \in parts \cap Ips : NicOf[a] \in parts

\* The credentials a host had are revoked before it is removed: only one
\* created after a revocation, by a caller that read the host earlier, is
\* left (host.go, deleteHost and invalidateHost).
RemovedMeansRevoked == ~Exists => creds # "valid"

\* No host is removed while an Instance is assigned to it (host.go,
\* checkIfInstanceIsAssociated).
InstanceHasHost == host.instance => Exists

\* A deleted host without an Instance disappears, from whatever state.
HostDeletionCompletes ==
  host.des = "DELETED" /\ ~host.instance /\ ~host.vendor ~> ~Exists

\* A deauthorized host becomes untrusted and stays so, although a handler
\* that read it before writes ONBOARDED or REGISTERED over it.
DeauthorizationSticks ==
  host.des = "UNTRUSTED" /\ ~host.vendor ~>
    [](host.cur = "UNTRUSTED" \/ host.des = "DELETED")

=============================================================================
