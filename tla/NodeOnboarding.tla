--------------------------- MODULE NodeOnboarding ---------------------------
(***************************************************************************)
(* The southbound API of the Onboarding Manager and its client, the device *)
(* discovery of HookOS: a device polls over a stream until its registered  *)
(* host is approved, and falls back to the interactive CreateNodes when it *)
(* is not found.  A handler goroutine takes a step per Inventory or        *)
(* Keycloak call; handlers of several devices, and the handler a device    *)
(* left behind by a reboot, interleave with each other and with the user.  *)
(***************************************************************************)
EXTENDS Naturals, FiniteSets

CONSTANTS
  Devices,         \* edge nodes; a device stands for its UUID and its serial
  ValidSerials,    \* the devices whose serial number passes the validation
  Hosts,           \* Host resources of Inventory
  UserHosts,       \* the ones the user registers; CreateNodes makes the others
  Handlers,        \* goroutines of the gRPC servers
  AutoProvision,   \* the provider config asks for zero-touch provisioning
  MaxFaults,       \* bound: how many calls to Inventory or Keycloak fail
  MaxReboots,      \* bound: how many reboots of devices
  None

\* What is reported for a serial number that is not valid.
NotAvailable == "N/A"

ASSUME SerialsAssumption == ValidSerials \subseteq Devices /\ UserHosts \subseteq Hosts
ASSUME ModeAssumption == AutoProvision \in BOOLEAN
ASSUME NoneAssumption ==
  /\ None \notin Devices /\ None \notin Hosts /\ None \notin Handlers
  /\ NotAvailable \notin Devices \cup {None}
ASSUME BoundsAssumption == MaxFaults \in Nat /\ MaxReboots \in Nat

VARIABLES
  host,     \* Inventory: the Host resources
  instance, \* Inventory: the hosts with an Instance
  clients,  \* Keycloak: the UUIDs with a client
  handler,  \* the goroutines: next call and what has been read
  dev,      \* the devices
  budget    \* faults and reboots so far

vars == <<host, instance, clients, handler, dev, budget>>

SerialOf(d) == IF d \in ValidSerials THEN d ELSE NotAvailable
MaxTries == 3

\* reg: the registration status, by its indicator.
HostType ==
  [uuid : Devices \cup {None}, sn : Devices \cup {None, NotAvailable},
   cur : {"ABSENT", "UNSPECIFIED", "REGISTERED", "ONBOARDED"},
   des : {"UNSPECIFIED", "REGISTERED", "ONBOARDED", "UNTRUSTED"},
   reg : {"unknown", "done", "error"}]
NoHost == [uuid |-> None, sn |-> None, cur |-> "ABSENT",
           des |-> "UNSPECIFIED", reg |-> "unknown"]

StreamSteps == {"recv", "uuid", "serial", "setUuid", "setError", "writeReg",
                "secret", "writeOnb"}
NodesSteps == {"lookup", "update", "create"}
Steps == {"free", "zeroTouch", "newInstance"} \cup StreamSteps \cup NodesSteps

\* io: runs CreateNodes; rid, rec: the host at hand and the copy of it that was
\* read; byUuid: the lookup by UUID found it.
HandlerType == [at : Steps, io : BOOLEAN, dev : Devices \cup {None},
                rid : Hosts \cup {None}, rec : HostType, byUuid : BOOLEAN]
FreeHandler == [at |-> "free", io |-> FALSE, dev |-> None, rid |-> None,
                rec |-> NoHost, byUuid |-> FALSE]

\* conn: the goroutine at the other end; secret: the UUID whose client secret
\* the device has; tries: attempts at CreateNodes.
DevType == [at : {"off", "sent", "backoff", "onboarded", "fallback", "calling",
                  "done", "failed"},
            conn : Handlers \cup {None}, secret : Devices \cup {None},
            tries : 0..MaxTries]
OffDev == [at |-> "off", conn |-> None, secret |-> None, tries |-> 0]

TypeOK ==
  /\ host \in [Hosts -> HostType] /\ instance \in SUBSET Hosts
  /\ clients \in SUBSET Devices /\ handler \in [Handlers -> HandlerType]
  /\ dev \in [Devices -> DevType]
  /\ budget \in [faults : Nat, reboots : Nat]

Init ==
  /\ host = [r \in Hosts |-> NoHost] /\ instance = {} /\ clients = {}
  /\ handler = [k \in Handlers |-> FreeHandler]
  /\ dev = [d \in Devices |-> OffDev]
  /\ budget = [faults |-> 0, reboots |-> 0]

Exists(r) == host[r].cur # "ABSENT"
\* The device is still at the other end of handler k.
Linked(k) == handler[k].dev # None /\ dev[handler[k].dev].conn = k

-----------------------------------------------------------------------------
(* What the steps of a handler have in common.                             *)

Fault == /\ budget.faults < MaxFaults
         /\ budget' = [budget EXCEPT !.faults = @ + 1]
NoFault == UNCHANGED budget

Become(k, h) == handler' = [handler EXCEPT ![k] = h]
Goto(k, step) == handler' = [handler EXCEPT ![k].at = step]
\* The handler goes on with the copy rec of host r.
Holding(k, step, r, rec) ==
  [handler[k] EXCEPT !.at = step, !.rid = r, !.rec = rec]
\* The handler of a stream waits for the next message.
Waiting(k) == [FreeHandler EXCEPT !.at = "recv", !.dev = handler[k].dev]

\* What the device makes of an answer, if it is still there to get it.
Deliver(k, at, secret) ==
  dev' = IF Linked(k)
         THEN [dev EXCEPT ![handler[k].dev] =
                 [@ EXCEPT !.at = at, !.secret = secret,
                           !.conn = IF at = "backoff" THEN k ELSE None]]
         ELSE dev

\* The handler of a stream returns.  The client gives up on any error status
\* but NotFound, and on a stream that ends without an answer.
Fail(k) == Become(k, FreeHandler) /\ Deliver(k, "failed", None)

\* Sending on a stream the device has left may succeed or fail.
SendThen(k, at, secret, next) ==
  /\ Deliver(k, at, secret)
  /\ \/ Become(k, next)
     \/ ~Linked(k) /\ Become(k, FreeHandler)

\* The handler waits for the next message without an answer to this one.
NotFoundSilentMutant(k) == Become(k, Waiting(k)) /\ UNCHANGED dev

\* "Device not found" leaves the stream open, but the client falls back.
NotFound(k) == SendThen(k, "fallback", None, Waiting(k))

\* A write that fails may have been applied.
FailedWrite(r, new) ==
  /\ Fault
  /\ host' \in {host, [host EXCEPT ![r] = new]}
Write(r, new) == NoFault /\ host' = [host EXCEPT ![r] = new]

\* The hosts a lookup finds.
ByUuid(u) == {r \in Hosts : Exists(r) /\ host[r].uuid = u}
BySerial(s) == {r \in Hosts : Exists(r) /\ host[r].sn = s}

-----------------------------------------------------------------------------
(* OnboardNodeStream.                                                      *)

\* Only a host nobody has polled for yet is served.
DecideOnceMutant(k, r, rec) ==
  IF rec.cur # "UNSPECIFIED" \/ rec.reg = "error" THEN Fail(k)
  ELSE CASE rec.des = "REGISTERED" ->
              SendThen(k, "backoff", None, Holding(k, "writeReg", r, rec))
         [] rec.des = "ONBOARDED" ->
              Become(k, Holding(k, "secret", r, rec)) /\ UNCHANGED dev
         [] OTHER -> Fail(k)

\* What follows getHostResource: the answer depends on the copy that was read.
Decide(k, r, rec) ==
  IF rec.cur = "ONBOARDED" \/ rec.reg = "error" THEN Fail(k)
  ELSE CASE rec.des = "REGISTERED" ->
              SendThen(k, "backoff", None, Holding(k, "writeReg", r, rec))
         [] rec.des = "ONBOARDED" ->
              Become(k, Holding(k, "secret", r, rec)) /\ UNCHANGED dev
         [] OTHER -> Fail(k)

\* The lookup by UUID; a host without a serial number needs no second lookup.
LookupUuid(k) ==
  /\ handler[k].at = "uuid"
  /\ \/ Fault /\ Fail(k)
     \/ /\ NoFault
        /\ LET found == ByUuid(handler[k].dev) IN
           \/ Cardinality(found) > 1 /\ Fail(k)
           \/ found = {} /\ Goto(k, "serial") /\ UNCHANGED dev
           \/ \E r \in Hosts :
                /\ found = {r}
                /\ IF host[r].sn = None THEN Decide(k, r, host[r])
                   ELSE /\ Become(k, [Holding(k, "serial", r, host[r])
                                        EXCEPT !.byUuid = TRUE])
                        /\ UNCHANGED dev
  /\ UNCHANGED <<host, instance, clients>>

\* A match of the serial number alone is enough.
MatchSerialAloneMutant(k, r) ==
  LET h == handler[k] IN
  IF host[r].uuid = None
  THEN /\ Become(k, Holding(k, "setUuid", r, [host[r] EXCEPT !.uuid = h.dev]))
       /\ UNCHANGED dev
  ELSE Decide(k, r, host[r])

\* The serial number decides whose UUID the host has.
MatchSerialRenamesMutant(k, r) ==
  /\ Become(k, Holding(k, "setUuid", r, [host[r] EXCEPT !.uuid = handler[k].dev]))
  /\ UNCHANGED dev

\* The end of getHostResource when the serial number found host r.
MatchSerial(k, r) ==
  LET h == handler[k]
      rid == IF h.byUuid THEN h.rid ELSE r
      rec == IF h.byUuid THEN h.rec ELSE host[r] IN
  IF rec.uuid = None
  THEN /\ Become(k, Holding(k, "setUuid", rid, [rec EXCEPT !.uuid = h.dev]))
       /\ UNCHANGED dev
  ELSE IF ~h.byUuid
  THEN Become(k, Holding(k, "setError", rid, rec)) /\ UNCHANGED dev
  ELSE IF rid # r THEN Fail(k) ELSE Decide(k, rid, rec)

\* The lookup by serial number.
LookupSerial(k) ==
  /\ handler[k].at = "serial"
  /\ \/ Fault /\ Fail(k)
     \/ /\ NoFault
        /\ LET found == BySerial(SerialOf(handler[k].dev)) IN
           \/ Cardinality(found) > 1 /\ Fail(k)
           \/ /\ found = {}
              /\ IF handler[k].byUuid THEN Goto(k, "setError") /\ UNCHANGED dev
                 ELSE NotFound(k)
           \/ \E r \in Hosts : found = {r} /\ MatchSerial(k, r)
  /\ UNCHANGED <<host, instance, clients>>

\* UpdateHostResource: every field it names is written from the copy.
SetUuid(k) ==
  /\ handler[k].at = "setUuid"
  /\ LET rid == handler[k].rid
         rec == handler[k].rec
         new == [host[rid] EXCEPT !.uuid = rec.uuid, !.sn = rec.sn, !.cur = rec.cur] IN
     \/ FailedWrite(rid, new) /\ Fail(k)
     \/ Write(rid, new) /\ Decide(k, rid, rec)
  /\ UNCHANGED <<instance, clients>>

\* UpdateHostRegState after a mismatch, with the current state of the copy.
SetError(k) ==
  /\ handler[k].at = "setError"
  /\ LET rid == handler[k].rid
         new == [host[rid] EXCEPT !.cur = handler[k].rec.cur, !.reg = "error"] IN
     \/ FailedWrite(rid, new) /\ Fail(k)
     \/ Write(rid, new) /\ NotFound(k)
  /\ UNCHANGED <<instance, clients>>

\* UpdateHostRegState of handleRegisteredState, after the answer.
WriteRegistered(k) ==
  /\ handler[k].at = "writeReg"
  /\ LET rid == handler[k].rid
         new == [host[rid] EXCEPT !.cur = "REGISTERED", !.reg = "done"] IN
     \/ FailedWrite(rid, new) /\ Fail(k)
     \/ Write(rid, new) /\ Become(k, Waiting(k)) /\ UNCHANGED dev
  /\ UNCHANGED <<instance, clients>>

\* FetchClientSecret, and the answer with the credentials.
FetchSecret(k) ==
  /\ handler[k].at = "secret"
  /\ LET uuid == handler[k].rec.uuid IN
     \/ Fault /\ clients' \in {clients, clients \cup {uuid}} /\ Fail(k)
     \/ /\ NoFault /\ clients' = clients \cup {uuid}
        /\ SendThen(k, "onboarded", uuid, [handler[k] EXCEPT !.at = "writeOnb"])
  /\ UNCHANGED <<host, instance>>

\* UpdateHostCurrentStateNOnboardStatus; on success zero touch is started.
WriteOnboarded(k) ==
  /\ handler[k].at = "writeOnb"
  /\ LET rid == handler[k].rid
         new == [host[rid] EXCEPT !.cur = "ONBOARDED"] IN
     \/ FailedWrite(rid, new) /\ Fail(k)
     \/ Write(rid, new) /\ Goto(k, "zeroTouch") /\ UNCHANGED dev
  /\ UNCHANGED <<instance, clients>>

\* The stream of a device that has gone ends.
StreamClosed(k) ==
  /\ handler[k].at = "recv" /\ ~Linked(k)
  /\ Become(k, FreeHandler)
  /\ UNCHANGED <<host, instance, clients, dev, budget>>

-----------------------------------------------------------------------------
(* CreateNodes and zero touch.                                             *)

\* The client retries for ever.
ReturnForeverMutant(k, ok) ==
  /\ Become(k, FreeHandler)
  /\ dev' = IF handler[k].io /\ Linked(k)
            THEN [dev EXCEPT ![handler[k].dev] =
                    [@ EXCEPT !.conn = None,
                              !.at = IF ok /\ handler[k].byUuid THEN "done"
                                     ELSE "fallback"]]
            ELSE dev

\* The call returns.  The client counts an answer without a project ID, which
\* is what the creation of a host is answered with, as a failed attempt.
Return(k, ok) ==
  /\ Become(k, FreeHandler)
  /\ LET d == handler[k].dev
         done == ok /\ handler[k].byUuid IN
     dev' = IF handler[k].io /\ Linked(k)
            THEN [dev EXCEPT ![d] =
                    [@ EXCEPT !.conn = None,
                              !.at = IF done THEN "done"
                                     ELSE IF dev[d].tries = MaxTries THEN "failed"
                                     ELSE "fallback"]]
            ELSE dev

\* GetHostResourceByUUID of CreateNodes: a host with the reported serial number
\* is left as it is.
LookupNode(k) ==
  /\ handler[k].at = "lookup"
  /\ \/ Fault /\ Return(k, FALSE)
     \/ /\ NoFault
        /\ LET found == ByUuid(handler[k].dev)
               Found(r, step) == [Holding(k, step, r, host[r]) EXCEPT !.byUuid = TRUE] IN
           \/ Cardinality(found) > 1 /\ Return(k, FALSE)
           \/ found = {} /\ Goto(k, "create") /\ UNCHANGED dev
           \/ \E r \in Hosts :
                /\ found = {r}
                /\ Become(k, Found(r, IF host[r].sn = SerialOf(handler[k].dev)
                                      THEN "zeroTouch" ELSE "update"))
                /\ UNCHANGED dev
  /\ UNCHANGED <<host, instance, clients>>

\* UpdateHostResourceStatus: the reported serial number replaces the other one.
UpdateNode(k) ==
  /\ handler[k].at = "update"
  /\ LET rid == handler[k].rid
         new == [host[rid] EXCEPT !.sn = SerialOf(handler[k].dev),
                                  !.cur = "ONBOARDED", !.reg = "unknown"] IN
     \/ FailedWrite(rid, new) /\ Return(k, FALSE)
     \/ Write(rid, new) /\ Goto(k, "zeroTouch") /\ UNCHANGED dev
  /\ UNCHANGED <<instance, clients>>

\* CreateHostResource; Inventory may refuse a second host with the UUID.
CreateNode(k) ==
  /\ handler[k].at = "create"
  /\ LET d == handler[k].dev
         new == [NoHost EXCEPT !.uuid = d, !.sn = SerialOf(d), !.cur = "ONBOARDED"]
         unused == {r \in Hosts \ UserHosts : ~Exists(r)} IN
     \/ /\ unused = {} \/ ByUuid(d) # {}
        /\ NoFault /\ UNCHANGED host /\ Return(k, FALSE)
     \/ \E r \in unused :
          \/ FailedWrite(r, new) /\ Return(k, FALSE)
          \/ /\ Write(r, new)
             /\ Become(k, Holding(k, "zeroTouch", r, new)) /\ UNCHANGED dev
  /\ UNCHANGED <<instance, clients>>

\* startZeroTouch: the host is read again; with an Instance the Instance
\* reconciler is notified, without provider configuration nothing is done.
StartZeroTouch(k) ==
  /\ handler[k].at = "zeroTouch"
  /\ \/ Fault /\ \E ok \in BOOLEAN : Return(k, ok)
     \/ /\ NoFault
        /\ IF handler[k].rid \in instance \/ ~AutoProvision THEN Return(k, TRUE)
           ELSE Goto(k, "newInstance") /\ UNCHANGED dev
  /\ UNCHANGED <<host, instance, clients>>

\* checkNCreateInstance; Inventory may refuse a second Instance.
CreateInstance(k) ==
  /\ handler[k].at = "newInstance"
  /\ LET created == instance \cup {handler[k].rid} IN
     \/ Fault /\ instance' \in {instance, created} /\ Return(k, FALSE)
     \/ /\ NoFault /\ instance' = created
        /\ \/ Return(k, TRUE)
           \/ handler[k].rid \in instance /\ Return(k, FALSE)
  /\ UNCHANGED <<host, clients>>

-----------------------------------------------------------------------------
(* The device.                                                             *)

Request(d, k, step, io) ==
  Become(k, [FreeHandler EXCEPT !.at = step, !.io = io, !.dev = d])

\* The client opens the stream and sends its first request.
OpenStream(d) ==
  /\ dev[d].at = "off"
  /\ \E k \in Handlers :
       /\ handler[k].at = "free" /\ Request(d, k, "uuid", FALSE)
       /\ dev' = [dev EXCEPT ![d] = [@ EXCEPT !.at = "sent", !.conn = k]]
  /\ UNCHANGED <<host, instance, clients, budget>>

\* After the backoff the client sends its request again.
Poll(d) ==
  /\ dev[d].at = "backoff" /\ handler[dev[d].conn].at = "recv"
  /\ Goto(dev[d].conn, "uuid")
  /\ dev' = [dev EXCEPT ![d].at = "sent"]
  /\ UNCHANGED <<host, instance, clients, budget>>

\* client-auth.sh succeeded, CreateNodes is called.
CallCreateNodes(d) ==
  /\ dev[d].at = "fallback"
  /\ \E k \in Handlers :
       /\ handler[k].at = "free" /\ Request(d, k, "lookup", TRUE)
       /\ dev' = [dev EXCEPT ![d] = [@ EXCEPT !.at = "calling", !.conn = k,
                                              !.tries = dev[d].tries + 1]]
  /\ UNCHANGED <<host, instance, clients, budget>>

\* client-auth.sh failed.
AuthFails(d) ==
  /\ dev[d].at = "fallback" /\ dev[d].tries = 0
  /\ dev' = [dev EXCEPT ![d].at = "failed"]
  /\ UNCHANGED <<host, instance, clients, handler, budget>>

\* The goroutine at the other end, if any, goes on.
Reboot(d) ==
  /\ dev[d].at # "off" /\ budget.reboots < MaxReboots
  /\ budget' = [budget EXCEPT !.reboots = @ + 1]
  /\ dev' = [dev EXCEPT ![d] = OffDev]
  /\ UNCHANGED <<host, instance, clients, handler>>

-----------------------------------------------------------------------------
(* The user.                                                               *)

\* A host is registered with a UUID, a serial number or both.
Register(r) ==
  /\ r \in UserHosts /\ ~Exists(r)
  /\ \E u, s \in Devices \cup {None}, des \in {"REGISTERED", "ONBOARDED"} :
       /\ ~(u = None /\ s = None)
       /\ host' = [host EXCEPT ![r] = [uuid |-> u, sn |-> s, cur |-> "UNSPECIFIED",
                                       des |-> des, reg |-> "unknown"]]
  /\ UNCHANGED <<instance, clients, handler, dev, budget>>

SetDesiredState(r) ==
  /\ r \in UserHosts /\ Exists(r)
  /\ \E des \in {"ONBOARDED", "UNTRUSTED"} :
       /\ des = "ONBOARDED" => host[r].des = "REGISTERED"
       /\ des = "UNTRUSTED" => host[r].des # "UNTRUSTED"
       /\ host' = [host EXCEPT ![r].des = des]
  /\ UNCHANGED <<instance, clients, handler, dev, budget>>

-----------------------------------------------------------------------------
HandlerStep(k) ==
  \/ LookupUuid(k) \/ LookupSerial(k) \/ SetUuid(k) \/ SetError(k)
  \/ WriteRegistered(k) \/ FetchSecret(k) \/ WriteOnboarded(k) \/ StreamClosed(k)
  \/ LookupNode(k) \/ UpdateNode(k) \/ CreateNode(k)
  \/ StartZeroTouch(k) \/ CreateInstance(k)

ClientStep(d) == Poll(d) \/ CallCreateNodes(d)

Next ==
  \/ \E k \in Handlers : HandlerStep(k)
  \/ \E d \in Devices : OpenStream(d) \/ ClientStep(d) \/ AuthFails(d) \/ Reboot(d)
  \/ \E r \in Hosts : Register(r) \/ SetDesiredState(r)

Spec == Init /\ [][Next]_vars
FairSpec == /\ Spec
            /\ \A k \in Handlers : WF_vars(HandlerStep(k))
            /\ \A d \in Devices : WF_vars(Poll(d))

-----------------------------------------------------------------------------
(* Properties.                                                             *)

\* Host r can be the one registered for device d.
Fits(r, d) == host[r].uuid = d /\ host[r].sn \in {None, SerialOf(d)}

\* A device has no secret but the one of its own UUID, and only when a host that
\* fits it was approved: what a handler read may be old when it fetches the
\* secret, and other handlers fill in UUIDs in between (getHostResource,
\* handleOnboardedState).
AuthorizedCredentials ==
  \A d \in Devices : dev[d].secret # None =>
    /\ dev[d].secret = d
    /\ \E r \in Hosts : Fits(r, d) /\ host[r].des \in {"ONBOARDED", "UNTRUSTED"}

\* The UUID of a host, once known, never changes, although a handler fills it in
\* from a copy it read earlier (UpdateHostResource in getHostResource).
UuidNeverChanges ==
  [][\A r \in Hosts : host[r].uuid # None => host'[r].uuid = host[r].uuid]_vars

\* Every request of a device is answered or its call ends, whatever fails on the
\* way: the client waits for an answer without a timeout.
EveryRequestEnds ==
  \A d \in Devices :
    dev[d].at \in {"sent", "calling"} ~> dev[d].at \notin {"sent", "calling"}

\* A device that waits for the approval of its host is onboarded once the host
\* is approved, and Inventory says so; unless the user takes the approval back or
\* a call to Inventory or Keycloak fails.
ApprovedDeviceOnboards ==
  \A d \in Devices, r \in Hosts :
    dev[d].at = "backoff" /\ ByUuid(d) = {r} /\ Fits(r, d) /\ host[r].des = "ONBOARDED"
      ~> \/ dev[d].at = "onboarded" /\ host[r].cur = "ONBOARDED"
         \/ host[r].des # "ONBOARDED" \/ ByUuid(d) # {r} \/ budget.faults > 0

=============================================================================
