------------------------- MODULE NodeOnboarding_proofs -------------------------
(***************************************************************************)
(* Theorems about NodeOnboarding, for any devices, hosts and handlers, any *)
(* registrations, faults and reboots.                                      *)
(***************************************************************************)
EXTENDS NodeOnboarding, TLAPS

-----------------------------------------------------------------------------
(* The inductive invariant.                                                *)

Approved == {"ONBOARDED", "UNTRUSTED"}

\* A host that is not there has no UUID and is not approved; one without a UUID was registered by its
\* serial number, which is a real one.
HostInv ==
  \A r \in Hosts : /\ ~Exists(r) => host[r].uuid = None /\ host[r].des \notin Approved
                   /\ host[r].sn = NotAvailable => host[r].uuid # None

\* The steps of a handler that holds a host.
HoldSteps == {"setUuid", "setError", "writeReg", "secret", "writeOnb",
              "zeroTouch", "newInstance", "update"}

\* The copy that handler k holds says no more than host r is now, or was.
Copied(k, r) ==
  /\ handler[k].rec.uuid = handler[k].dev /\ handler[k].rec.cur # "ABSENT"
  /\ handler[k].rec.des = "ONBOARDED" => host[r].des \in Approved

HandlerOK(k) ==
  LET h == handler[k] IN
  /\ h.at # "free" => h.dev \in Devices
  /\ h.at \in StreamSteps => ~h.io
  /\ h.at \in NodesSteps => h.io
  /\ h.at \in {"recv", "uuid"} => ~h.byUuid
  /\ h.at \in HoldSteps => h.rid \in Hosts /\ Exists(h.rid)
  /\ h.at = "serial" /\ h.byUuid =>
       h.rid \in Hosts /\ host[h.rid].uuid = h.dev /\ Copied(k, h.rid)
  /\ h.at = "setUuid" =>
       /\ h.dev \in ValidSerials /\ h.rec.sn = h.dev /\ Copied(k, h.rid)
       /\ host[h.rid].uuid = h.dev \/ (host[h.rid].uuid = None /\ host[h.rid].sn = h.dev)
  /\ h.at = "setError" => h.rec.cur # "ABSENT"
  /\ h.at = "secret" =>
       h.rec.uuid = h.dev /\ Fits(h.rid, h.dev) /\ host[h.rid].des \in Approved
  /\ h.at = "update" => host[h.rid].uuid = h.dev

\* A device that waits is known to the handler it waits for; a stream is what it
\* begins with, so that the attempts at CreateNodes are counted from zero.
DeviceOK(d) ==
  LET k == dev[d].conn IN
  /\ k # None =>
       /\ handler[k].dev = d /\ handler[k].at # "free"
       /\ ~handler[k].io => /\ dev[d].tries = 0
                            /\ handler[k].at \notin {"writeOnb", "zeroTouch", "newInstance"}
  /\ dev[d].at = "backoff" => k # None
  /\ dev[d].at = "fallback" => dev[d].tries < MaxTries
  /\ dev[d].at = "off" => dev[d].tries = 0

IInv ==
  /\ TypeOK /\ HostInv /\ AuthorizedCredentials
  /\ \A k \in Handlers : HandlerOK(k)
  /\ \A d \in Devices : DeviceOK(d)

-----------------------------------------------------------------------------
(* What the steps of a handler have in common.                             *)

LEMMA FreeType == FreeHandler \in HandlerType /\ OffDev \in DevType /\ NoHost \in HostType
BY DEF FreeHandler, HandlerType, Steps, OffDev, DevType, MaxTries, NoHost, HostType

\* The fields of a handler that holds a host.
LEMMA HoldingIs ==
  ASSUME TypeOK, NEW k \in Handlers, NEW step \in Steps, NEW r \in Hosts, NEW rec \in HostType,
         NEW h, h = Holding(k, step, r, rec)
  PROVE  /\ h \in HandlerType
         /\ h.at = step /\ h.rid = r /\ h.rec = rec
         /\ h.dev = handler[k].dev /\ h.io = handler[k].io /\ h.byUuid = handler[k].byUuid
BY DEF Holding, TypeOK, HandlerType

LEMMA FoundIs ==
  ASSUME NEW h \in HandlerType, NEW g, g = [h EXCEPT !.byUuid = TRUE]
  PROVE  /\ g \in HandlerType /\ g.byUuid
         /\ g.at = h.at /\ g.rid = h.rid /\ g.rec = h.rec /\ g.dev = h.dev /\ g.io = h.io
BY DEF HandlerType

LEMMA WaitingIs ==
  ASSUME TypeOK, NEW k \in Handlers
  PROVE  /\ Waiting(k) \in HandlerType /\ Waiting(k).at = "recv"
         /\ Waiting(k).dev = handler[k].dev /\ ~Waiting(k).io /\ ~Waiting(k).byUuid
<1>1. handler[k].dev \in Devices \cup {None} /\ "recv" \in Steps
  BY DEF TypeOK, HandlerType, Steps, StreamSteps
<1> QED
  BY <1>1, FreeType DEF Waiting, FreeHandler, HandlerType

LEMMA BecomeIs ==
  ASSUME TypeOK, NEW k \in Handlers, NEW h \in HandlerType, Become(k, h)
  PROVE  /\ handler' \in [Handlers -> HandlerType] /\ handler'[k] = h
         /\ \A j \in Handlers : j # k => handler'[j] = handler[j]
BY DEF TypeOK, Become

LEMMA GotoIs ==
  ASSUME TypeOK, NEW k \in Handlers, NEW step \in Steps, Goto(k, step)
  PROVE  /\ handler' \in [Handlers -> HandlerType] /\ handler'[k] = [handler[k] EXCEPT !.at = step]
         /\ handler'[k].at = step /\ handler'[k].dev = handler[k].dev
         /\ handler'[k].io = handler[k].io /\ handler'[k].rid = handler[k].rid
         /\ handler'[k].rec = handler[k].rec /\ handler'[k].byUuid = handler[k].byUuid
         /\ \A j \in Handlers : j # k => handler'[j] = handler[j]
<1>1. handler' = [handler EXCEPT ![k] = [handler[k] EXCEPT !.at = step]]
  BY DEF Goto
<1>2. [handler[k] EXCEPT !.at = step] \in HandlerType
  BY DEF TypeOK, HandlerType
<1>3. handler' \in [Handlers -> HandlerType] /\ handler'[k] = [handler[k] EXCEPT !.at = step]
  BY <1>1, <1>2 DEF TypeOK
<1>4. \A j \in Handlers : j # k => handler'[j] = handler[j]
  BY <1>1 DEF TypeOK
<1> QED
  BY <1>3, <1>4 DEF TypeOK, HandlerType

DevSteps == {"off", "sent", "backoff", "onboarded", "fallback", "calling", "done", "failed"}

\* The answer reaches the device that waits for it, and no other.
LEMMA DeliverIs ==
  ASSUME TypeOK, NEW k \in Handlers, NEW at \in DevSteps, NEW secret \in Devices \cup {None},
         Deliver(k, at, secret)
  PROVE  /\ dev' \in [Devices -> DevType]
         /\ \A d \in Devices :
              \/ dev'[d] = dev[d] /\ ~(d = handler[k].dev /\ dev[d].conn = k)
              \/ /\ d = handler[k].dev /\ dev[d].conn = k
                 /\ dev'[d].at = at /\ dev'[d].secret = secret /\ dev'[d].tries = dev[d].tries
                 /\ dev'[d].conn = IF at = "backoff" THEN k ELSE None
<1> DEFINE d == handler[k].dev
           c == IF at = "backoff" THEN k ELSE None
<1>1. CASE ~Linked(k)
  <2>1. dev' = dev
    BY <1>1 DEF Deliver
  <2> QED
    BY <1>1, <2>1, NoneAssumption DEF Linked, TypeOK
<1>2. CASE Linked(k)
  <2>1. d \in Devices /\ dev[d].conn = k /\ c \in Handlers \cup {None} /\ dev[d] \in DevType
    BY <1>2 DEF Linked, TypeOK, HandlerType
  <2>2. dev' = [dev EXCEPT ![d] = [dev[d] EXCEPT !.at = at, !.secret = secret, !.conn = c]]
    BY <1>2 DEF Deliver
  <2> HIDE DEF c
  <2> DEFINE new == [dev[d] EXCEPT !.at = at, !.secret = secret, !.conn = c]
  <2>3. /\ new \in DevType /\ new.at = at /\ new.secret = secret /\ new.tries = dev[d].tries
        /\ new.conn = c
    BY <2>1 DEF DevType, DevSteps
  <2> HIDE DEF new
  <2>4. dev' = [dev EXCEPT ![d] = new]
    BY <2>2 DEF new
  <2>5. dev' \in [Devices -> DevType] /\ dev'[d] = new /\ \A x \in Devices : x # d => dev'[x] = dev[x]
    BY <2>1, <2>3, <2>4 DEF TypeOK
  <2> QED
    BY <2>1, <2>3, <2>5 DEF c
<1> QED
  BY <1>1, <1>2

LEMMA ReturnIs ==
  ASSUME TypeOK, NEW k \in Handlers, NEW ok \in BOOLEAN, Return(k, ok)
  PROVE  /\ handler' \in [Handlers -> HandlerType] /\ handler'[k] = FreeHandler
         /\ \A j \in Handlers : j # k => handler'[j] = handler[j]
         /\ dev' \in [Devices -> DevType]
         /\ \A d \in Devices :
              \/ dev'[d] = dev[d] /\ ~(handler[k].io /\ d = handler[k].dev /\ dev[d].conn = k)
              \/ /\ d = handler[k].dev /\ dev[d].conn = k
                 /\ dev'[d].at \in {"done", "failed", "fallback"} /\ dev'[d].conn = None
                 /\ dev'[d].secret = dev[d].secret /\ dev'[d].tries = dev[d].tries
                 /\ dev'[d].at = "fallback" => dev[d].tries # MaxTries
<1> DEFINE d == handler[k].dev
           at == IF ok /\ handler[k].byUuid THEN "done"
                 ELSE IF dev[d].tries = MaxTries THEN "failed" ELSE "fallback"
<1>1. /\ handler' \in [Handlers -> HandlerType] /\ handler'[k] = FreeHandler
      /\ \A j \in Handlers : j # k => handler'[j] = handler[j]
  BY BecomeIs, FreeType DEF Return
<1>2. CASE ~(handler[k].io /\ Linked(k))
  <2>1. dev' = dev
    BY <1>2 DEF Return
  <2> QED
    BY <1>1, <1>2, <2>1, NoneAssumption DEF Linked, TypeOK
<1>3. CASE handler[k].io /\ Linked(k)
  <2>1. d \in Devices /\ dev[d].conn = k /\ dev[d] \in DevType
    BY <1>3 DEF Linked, TypeOK, HandlerType
  <2>2. dev' = [dev EXCEPT ![d] = [dev[d] EXCEPT !.conn = None, !.at = at]]
    BY <1>3 DEF Return
  <2>3. at \in {"done", "failed", "fallback"} /\ (at = "fallback" => dev[d].tries # MaxTries)
    OBVIOUS
  <2> HIDE DEF at
  <2> DEFINE new == [dev[d] EXCEPT !.conn = None, !.at = at]
  <2>4. /\ new \in DevType /\ new.at = at /\ new.secret = dev[d].secret
        /\ new.tries = dev[d].tries /\ new.conn = None
    BY <2>1, <2>3 DEF DevType
  <2> HIDE DEF new
  <2>5. dev' = [dev EXCEPT ![d] = new]
    BY <2>2 DEF new
  <2>6. dev' \in [Devices -> DevType] /\ dev'[d] = new /\ \A x \in Devices : x # d => dev'[x] = dev[x]
    BY <2>1, <2>4, <2>5 DEF TypeOK
  <2> QED
    BY <1>1, <2>1, <2>3, <2>4, <2>6
<1> QED
  BY <1>2, <1>3

Silent == {"writeOnb", "zeroTouch", "newInstance"}

\* A step of handler k that leaves what the invariant says of handlers and devices.
StepOK(k) ==
  /\ handler' \in [Handlers -> HandlerType] /\ dev' \in [Devices -> DevType]
  /\ \A j \in Handlers : j # k => handler'[j] = handler[j]
  /\ HandlerOK(k)' /\ \A d \in Devices : DeviceOK(d)'
Keeps == \A d \in Devices : dev'[d].secret \in {None, dev[d].secret}

\* A device that waits for handler k goes on waiting for it, or has its answer;
\* the others are where they were.
LEMMA DevicesStep ==
  ASSUME IInv, NEW k \in Handlers, \A j \in Handlers : j # k => handler'[j] = handler[j],
         \A d \in Devices :
           \/ dev'[d] = dev[d] /\ dev[d].conn # k
           \/ /\ dev'[d] = dev[d] /\ handler'[k].dev = d /\ handler'[k].at # "free"
              /\ ~handler'[k].io => ~handler[k].io /\ handler'[k].at \notin Silent
           \/ /\ dev'[d].conn = None
              /\ \/ dev'[d].at \in {"onboarded", "done", "failed"}
                 \/ dev'[d].at = "fallback" /\ dev'[d].tries < MaxTries
           \/ /\ dev'[d].at = "backoff" /\ dev'[d].conn = k /\ dev'[d].tries = 0
              /\ handler'[k].dev = d /\ handler'[k].at \notin Silent \cup {"free"}
  PROVE  \A d \in Devices : DeviceOK(d)'
<1> SUFFICES ASSUME NEW d \in Devices PROVE DeviceOK(d)'
  OBVIOUS
<1>0. /\ DeviceOK(d) /\ dev[d].conn \in Handlers \cup {None}
  BY DEF IInv, TypeOK, DevType
<1>1. CASE dev'[d] = dev[d] /\ dev[d].conn # k
  BY <1>0, <1>1 DEF DeviceOK
<1>2. ASSUME dev'[d] = dev[d], dev[d].conn = k, handler'[k].dev = d, handler'[k].at # "free",
             ~handler'[k].io => ~handler[k].io /\ handler'[k].at \notin Silent
      PROVE  DeviceOK(d)'
  <2>1. k # None
    BY NoneAssumption
  <2> QED
    BY <1>0, <1>2, <2>1 DEF DeviceOK, Silent
<1>3. CASE /\ dev'[d].conn = None
           /\ \/ dev'[d].at \in {"onboarded", "done", "failed"}
              \/ dev'[d].at = "fallback" /\ dev'[d].tries < MaxTries
  BY <1>3 DEF DeviceOK
<1>4. CASE /\ dev'[d].at = "backoff" /\ dev'[d].conn = k /\ dev'[d].tries = 0
           /\ handler'[k].dev = d /\ handler'[k].at \notin Silent \cup {"free"}
  BY <1>4, NoneAssumption DEF DeviceOK, Silent
<1> QED
  BY <1>1, <1>2, <1>3, <1>4

\* A handler that ends with an error, or waits for the next message.
LEMMA FreeOK ==
  ASSUME NEW k \in Handlers,
         \/ handler'[k] = FreeHandler
         \/ /\ handler'[k].at = "recv" /\ handler'[k].dev \in Devices
            /\ ~handler'[k].io /\ ~handler'[k].byUuid
  PROVE  HandlerOK(k)'
BY DEF HandlerOK, FreeHandler, StreamSteps, NodesSteps, HoldSteps

LEMMA FailStep ==
  ASSUME IInv, NEW k \in Handlers, Fail(k)
  PROVE  StepOK(k) /\ Keeps
<1>1. TypeOK
  BY DEF IInv
<1>2. /\ handler' \in [Handlers -> HandlerType] /\ handler'[k] = FreeHandler
      /\ \A j \in Handlers : j # k => handler'[j] = handler[j]
  BY <1>1, BecomeIs, FreeType DEF Fail
<1>3. /\ dev' \in [Devices -> DevType]
      /\ \A d \in Devices :
           \/ dev'[d] = dev[d] /\ ~(d = handler[k].dev /\ dev[d].conn = k)
           \/ dev'[d].at = "failed" /\ dev'[d].secret = None /\ dev'[d].conn = None
  BY <1>1, DeliverIs DEF Fail, DevSteps
<1>4. \A d \in Devices : dev[d].conn = k => d = handler[k].dev
  BY NoneAssumption DEF IInv, DeviceOK
<1>5. \A d \in Devices : DeviceOK(d)'
  BY <1>2, <1>3, <1>4, DevicesStep
<1> QED
  BY <1>2, <1>3, <1>5, FreeOK DEF StepOK, Keeps

\* "Device not found" is answered over a stream only.
LEMMA NotFoundStep ==
  ASSUME IInv, NEW k \in Handlers, NotFound(k), handler[k].at \in StreamSteps
  PROVE  StepOK(k) /\ Keeps
<1>1. TypeOK /\ handler[k].dev \in Devices /\ ~handler[k].io
  BY DEF IInv, HandlerOK, StreamSteps
<1>2. \/ handler'[k] = FreeHandler
      \/ /\ handler'[k].at = "recv" /\ handler'[k].dev \in Devices
         /\ ~handler'[k].io /\ ~handler'[k].byUuid
  BY <1>1, BecomeIs, FreeType, WaitingIs DEF NotFound, SendThen
<1>3. /\ handler' \in [Handlers -> HandlerType]
      /\ \A j \in Handlers : j # k => handler'[j] = handler[j]
  BY <1>1, BecomeIs, FreeType, WaitingIs DEF NotFound, SendThen
<1>4. /\ dev' \in [Devices -> DevType]
      /\ \A d \in Devices :
           \/ dev'[d] = dev[d] /\ ~(d = handler[k].dev /\ dev[d].conn = k)
           \/ /\ d = handler[k].dev /\ dev[d].conn = k /\ dev'[d].tries = dev[d].tries
              /\ dev'[d].at = "fallback" /\ dev'[d].secret = None /\ dev'[d].conn = None
  BY <1>1, DeliverIs DEF NotFound, SendThen, DevSteps
<1>5. \A d \in Devices : dev[d].conn = k => d = handler[k].dev /\ dev[d].tries < MaxTries
  BY <1>1, NoneAssumption DEF IInv, DeviceOK, MaxTries
<1>6. \A d \in Devices : DeviceOK(d)'
  BY <1>3, <1>4, <1>5, DevicesStep
<1> QED
  BY <1>2, <1>3, <1>4, <1>6, FreeOK DEF StepOK, Keeps

\* An answer of CreateNodes; for a stream there is nobody to return to.
LEMMA ReturnStep ==
  ASSUME IInv, NEW k \in Handlers, NEW ok \in BOOLEAN, Return(k, ok),
         handler[k].io \/ handler[k].at \in Silent
  PROVE  StepOK(k) /\ Keeps
<1>1. TypeOK
  BY DEF IInv
<1>2. /\ handler' \in [Handlers -> HandlerType] /\ handler'[k] = FreeHandler
      /\ \A j \in Handlers : j # k => handler'[j] = handler[j]
      /\ dev' \in [Devices -> DevType]
      /\ \A d \in Devices :
              \/ dev'[d] = dev[d] /\ ~(handler[k].io /\ d = handler[k].dev /\ dev[d].conn = k)
              \/ /\ d = handler[k].dev /\ dev[d].conn = k
                 /\ dev'[d].at \in {"done", "failed", "fallback"} /\ dev'[d].conn = None
                 /\ dev'[d].secret = dev[d].secret /\ dev'[d].tries = dev[d].tries
                 /\ dev'[d].at = "fallback" => dev[d].tries # MaxTries
  BY <1>1, ReturnIs
<1>3. \A d \in Devices : dev[d].conn = k => d = handler[k].dev /\ handler[k].io
  BY NoneAssumption DEF IInv, DeviceOK, Silent
<1>4. \A d \in Devices : dev[d].tries # MaxTries => dev[d].tries < MaxTries
  BY <1>1 DEF TypeOK, DevType, MaxTries
<1>5. \A d \in Devices : DeviceOK(d)'
  BY <1>2, <1>3, <1>4, DevicesStep
<1> QED
  BY <1>2, <1>5, FreeOK DEF StepOK, Keeps

\* The handler goes on, and the device waits.
LEMMA GoOnStep ==
  ASSUME IInv, NEW k \in Handlers, UNCHANGED dev, HandlerOK(k)',
         handler' \in [Handlers -> HandlerType],
         \A j \in Handlers : j # k => handler'[j] = handler[j],
         handler'[k].dev = handler[k].dev, handler'[k].at # "free", handler'[k].io = handler[k].io,
         ~handler[k].io /\ handler'[k].at \in Silent => handler[k].at \in Silent
  PROVE  StepOK(k) /\ Keeps
<1>1. \A d \in Devices : dev[d].conn = k =>
        d = handler[k].dev /\ (~handler[k].io => handler[k].at \notin Silent)
  BY NoneAssumption DEF IInv, DeviceOK, Silent
<1>2. \A d \in Devices : DeviceOK(d)'
  BY <1>1, DevicesStep
<1> QED
  BY <1>2 DEF StepOK, Keeps, IInv, TypeOK

-----------------------------------------------------------------------------
(* What any step may do to a host.                                         *)

\* A UUID stays and is the one of the registered serial number; a host stays, and
\* so does its approval, and a serial number that fits.
Evolves(r) ==
  /\ host[r].uuid # None => host'[r].uuid = host[r].uuid
  /\ Exists(r) => Exists(r)'
  /\ Exists(r) /\ host[r].uuid = None =>
       \/ host'[r].uuid = None /\ host'[r].sn = host[r].sn
       \/ host'[r].uuid = host[r].sn
  /\ host[r].des \in Approved => host'[r].des \in Approved
  /\ \A d \in Devices : Fits(r, d) => Fits(r, d)'

\* A copy and what was read with it stay good, so that a handler which does not
\* move keeps its invariant.
LEMMA OtherHandlers ==
  ASSUME IInv, \A r \in Hosts : Evolves(r), NEW j \in Handlers, handler'[j] = handler[j]
  PROVE  HandlerOK(j)'
<1> DEFINE h == handler[j]
<1>1. HandlerOK(j) /\ h \in HandlerType
  BY DEF IInv, TypeOK
<1>2. CASE h.at \in HoldSteps
  <2>1. h.rid \in Hosts /\ Exists(h.rid) /\ Evolves(h.rid) /\ h.dev \in Devices
    BY <1>1, <1>2 DEF HandlerOK, HoldSteps
  <2>2. Exists(h.rid)'
    BY <2>1 DEF Evolves
  <2>3. CASE h.at = "setUuid"
    <3>1. /\ h.dev \in ValidSerials /\ h.rec.sn = h.dev /\ Copied(j, h.rid)
          /\ host[h.rid].uuid = h.dev \/ (host[h.rid].uuid = None /\ host[h.rid].sn = h.dev)
      BY <1>1, <2>3 DEF HandlerOK
    <3>2. Copied(j, h.rid)'
      BY <2>1, <3>1 DEF Copied, Evolves
    <3>3. host'[h.rid].uuid = h.dev \/ (host'[h.rid].uuid = None /\ host'[h.rid].sn = h.dev)
      BY <2>1, <3>1, NoneAssumption DEF Evolves
    <3> QED
      BY <1>1, <2>1, <2>2, <2>3, <3>1, <3>2, <3>3 DEF HandlerOK
  <2>4. CASE h.at \in {"secret", "update"}
    <3>1. ASSUME h.at = "secret"
          PROVE  h.rec.uuid = h.dev /\ Fits(h.rid, h.dev)' /\ host'[h.rid].des \in Approved
      BY <1>1, <2>1, <3>1 DEF HandlerOK, Evolves
    <3>2. h.at = "update" => host'[h.rid].uuid = h.dev
      BY <1>1, <2>1, NoneAssumption DEF HandlerOK, Evolves
    <3> QED
      BY <1>1, <2>1, <2>2, <2>4, <3>1, <3>2 DEF HandlerOK, HoldSteps, StreamSteps, NodesSteps
  <2>5. CASE h.at \notin {"setUuid", "secret", "update"}
    BY <1>1, <1>2, <2>1, <2>2, <2>5 DEF HandlerOK, HoldSteps
  <2> QED
    BY <2>3, <2>4, <2>5
<1>3. CASE h.at \notin HoldSteps
  <2>1. CASE h.at = "serial" /\ h.byUuid
    <3>1. /\ h.rid \in Hosts /\ host[h.rid].uuid = h.dev /\ Copied(j, h.rid) /\ h.dev \in Devices
          /\ Evolves(h.rid)
      BY <1>1, <2>1 DEF HandlerOK
    <3>2. host'[h.rid].uuid = h.dev
      BY <3>1, NoneAssumption DEF Evolves
    <3>3. Copied(j, h.rid)'
      BY <3>1 DEF Copied, Evolves
    <3> QED
      BY <1>1, <2>1, <3>1, <3>2, <3>3 DEF HandlerOK, HoldSteps
  <2>2. CASE ~(h.at = "serial" /\ h.byUuid)
    BY <1>1, <1>3, <2>2 DEF HandlerOK, HoldSteps
  <2> QED
    BY <2>1, <2>2
<1> QED
  BY <1>2, <1>3

\* handleRegisteredState, handleOnboardedState, or an error.
LEMMA DecideStep ==
  ASSUME IInv, NEW k \in Handlers, NEW r \in Hosts, NEW rec \in HostType, Decide(k, r, rec),
         handler[k].dev \in Devices, ~handler[k].io, handler[k].at # "free", handler[k].at \notin Silent,
         Exists(r)', rec.uuid = handler[k].dev, Fits(r, rec.uuid)',
         rec.des = "ONBOARDED" => host'[r].des \in Approved
  PROVE  StepOK(k) /\ Keeps
<1>0. TypeOK /\ "writeReg" \in Steps /\ "secret" \in Steps
  BY DEF IInv, Steps, StreamSteps
<1>1. CASE Fail(k)
  BY <1>1, FailStep
<1>2. CASE Become(k, Holding(k, "secret", r, rec)) /\ UNCHANGED dev /\ rec.des = "ONBOARDED"
  <2> DEFINE h == Holding(k, "secret", r, rec)
  <2>1. /\ h \in HandlerType
        /\ h.at = "secret" /\ h.rid = r /\ h.rec = rec
        /\ h.dev = handler[k].dev /\ h.io = handler[k].io /\ h.byUuid = handler[k].byUuid
    BY <1>0, HoldingIs
  <2> HIDE DEF h
  <2>2. /\ handler' \in [Handlers -> HandlerType] /\ handler'[k] = h
        /\ \A j \in Handlers : j # k => handler'[j] = handler[j]
    BY <1>0, <1>2, <2>1, BecomeIs DEF h
  <2>3. HandlerOK(k)'
    BY <1>2, <2>1, <2>2 DEF HandlerOK, StreamSteps, NodesSteps, HoldSteps
  <2> QED
    BY <1>2, <2>1, <2>2, <2>3, GoOnStep DEF Silent
<1>3. CASE SendThen(k, "backoff", None, Holding(k, "writeReg", r, rec))
  <2> DEFINE h == Holding(k, "writeReg", r, rec)
  <2>1. /\ h \in HandlerType
        /\ h.at = "writeReg" /\ h.rid = r /\ h.rec = rec
        /\ h.dev = handler[k].dev /\ h.io = handler[k].io /\ h.byUuid = handler[k].byUuid
    BY <1>0, HoldingIs
  <2> HIDE DEF h
  <2>2. Deliver(k, "backoff", None) /\ (Become(k, h) \/ (~Linked(k) /\ Become(k, FreeHandler)))
    BY <1>3 DEF SendThen, h
  <2>3. /\ handler' \in [Handlers -> HandlerType] 
        /\ \A j \in Handlers : j # k => handler'[j] = handler[j]
        /\ handler'[k] = h \/ (~Linked(k) /\ handler'[k] = FreeHandler)
    BY <1>0, <2>1, <2>2, BecomeIs, FreeType
  <2>4. HandlerOK(k)'
    <3>1. CASE handler'[k] = h
      BY <2>1, <3>1 DEF HandlerOK, StreamSteps, NodesSteps, HoldSteps
    <3> QED
      BY <2>3, <3>1, FreeOK
  <2>5. /\ dev' \in [Devices -> DevType]
        /\ \A d \in Devices :
             \/ dev'[d] = dev[d] /\ ~(d = handler[k].dev /\ dev[d].conn = k)
             \/ /\ d = handler[k].dev /\ dev[d].conn = k
                /\ dev'[d].at = "backoff" /\ dev'[d].secret = None /\ dev'[d].tries = dev[d].tries
                /\ dev'[d].conn = k
    BY <1>0, <2>2, DeliverIs DEF DevSteps
  <2>6. \A d \in Devices : dev[d].conn = k => d = handler[k].dev /\ dev[d].tries = 0 /\ Linked(k)
    BY NoneAssumption DEF IInv, DeviceOK, Linked
  <2>7. \A d \in Devices : DeviceOK(d)'
    BY <2>1, <2>3, <2>5, <2>6, DevicesStep DEF Silent
  <2> QED
    BY <2>3, <2>4, <2>5, <2>7 DEF StepOK, Keeps
<1> QED
  BY <1>1, <1>2, <1>3 DEF Decide

-----------------------------------------------------------------------------
(* The steps of a handler.                                                 *)

HostOK == host' \in [Hosts -> HostType] /\ HostInv' /\ \A r \in Hosts : Evolves(r)

LEMMA SameHost == ASSUME IInv, UNCHANGED host PROVE HostOK
BY DEF IInv, TypeOK, HostOK, HostInv, Exists, Evolves, Fits

\* Host r is written, or the write has failed and was not applied.
LEMMA WriteOK ==
  ASSUME IInv, NEW r \in Hosts, NEW new \in HostType,
         host' = host \/ host' = [host EXCEPT ![r] = new],
         host[r].uuid # None => new.uuid = host[r].uuid,
         new.cur # "ABSENT",
         Exists(r) /\ host[r].uuid = None =>
           (new.uuid = None /\ new.sn = host[r].sn) \/ new.uuid = host[r].sn,
         host[r].des \in Approved => new.des \in Approved,
         \A d \in Devices : Fits(r, d) => new.sn \in {None, SerialOf(d)},
         new.sn = NotAvailable => new.uuid # None
  PROVE  HostOK
<1>1. CASE host' = host
  BY <1>1, SameHost
<1>2. CASE host' = [host EXCEPT ![r] = new]
  <2>1. /\ host' \in [Hosts -> HostType] /\ host'[r] = new
        /\ \A x \in Hosts : x # r => host'[x] = host[x]
    BY <1>2 DEF IInv, TypeOK
  <2>2. ASSUME NEW d \in Devices, Fits(r, d) PROVE Fits(r, d)'
    <3>1. new.uuid = d /\ new.sn \in {None, SerialOf(d)}
      BY <2>2, NoneAssumption DEF Fits
    <3>2. SerialOf(d)' = SerialOf(d)
      BY DEF SerialOf
    <3> QED
      BY <2>1, <3>1, <3>2 DEF Fits
  <2>3. Evolves(r)
    BY <2>1, <2>2 DEF Evolves, Exists
  <2>4. ASSUME NEW x \in Hosts, x # r PROVE Evolves(x)
    BY <2>1, <2>4 DEF Evolves, Exists, Fits
  <2>5. HostInv'
    BY <2>1 DEF IInv, HostInv, Exists
  <2> QED
    BY <2>1, <2>3, <2>4, <2>5 DEF HostOK
<1> QED
  BY <1>1, <1>2

\* A handler at a step that is not free belongs to a device.
LEMMA Belongs ==
  ASSUME IInv, NEW k \in Handlers, handler[k].at # "free"
  PROVE  TypeOK /\ handler[k].dev \in Devices /\ handler[k] \in HandlerType
BY DEF IInv, HandlerOK, TypeOK

LEMMA HostOf ==
  ASSUME IInv, NEW r \in Hosts
  PROVE  /\ host[r] \in HostType /\ host[r].uuid \in Devices \cup {None}
         /\ ~Exists(r) => host[r].uuid = None /\ host[r].des \notin Approved
         /\ host[r].sn = NotAvailable => host[r].uuid # None
BY DEF IInv, TypeOK, HostInv, HostType

\* getHostResource, by UUID.
LEMMA LookupUuidOK ==
  ASSUME IInv, NEW k \in Handlers, LookupUuid(k)
  PROVE  HostOK /\ StepOK(k) /\ Keeps
<1>1. HostOK
  BY SameHost DEF LookupUuid
<1>2. /\ TypeOK /\ handler[k].at = "uuid" /\ handler[k].dev \in Devices
      /\ ~handler[k].io /\ ~handler[k].byUuid
  BY Belongs DEF LookupUuid, IInv, HandlerOK, StreamSteps
<1>3. CASE Fail(k)
  BY <1>1, <1>3, FailStep
<1>4. CASE Goto(k, "serial") /\ UNCHANGED dev
  <2>1. "serial" \in Steps
    BY DEF Steps, StreamSteps
  <2>2. /\ handler' \in [Handlers -> HandlerType]
        /\ handler'[k].at = "serial" /\ handler'[k].dev = handler[k].dev
        /\ handler'[k].io = handler[k].io /\ handler'[k].byUuid = handler[k].byUuid
        /\ \A j \in Handlers : j # k => handler'[j] = handler[j]
    BY <1>2, <1>4, <2>1, GotoIs
  <2>3. HandlerOK(k)'
    BY <1>2, <2>2 DEF HandlerOK, StreamSteps, NodesSteps, HoldSteps
  <2> QED
    BY <1>1, <1>2, <1>4, <2>2, <2>3, GoOnStep DEF Silent
<1>5. ASSUME NEW r \in Hosts, ByUuid(handler[k].dev) = {r},
             IF host[r].sn = None THEN Decide(k, r, host[r])
             ELSE /\ Become(k, [Holding(k, "serial", r, host[r]) EXCEPT !.byUuid = TRUE])
                  /\ UNCHANGED dev
      PROVE  StepOK(k) /\ Keeps
  <2>1. Exists(r) /\ host[r].uuid = handler[k].dev
    BY <1>5 DEF ByUuid
  <2>2. Exists(r)' /\ UNCHANGED host /\ host[r] \in HostType
    BY <1>2, <2>1 DEF LookupUuid, Exists, TypeOK
  <2>3. host[r].des = "ONBOARDED" => host'[r].des \in Approved
    BY <2>2 DEF Approved
  <2>4. CASE host[r].sn = None
    <3>1. Fits(r, host[r].uuid)'
      BY <2>1, <2>2, <2>4 DEF Fits
    <3> QED
      BY <1>2, <1>5, <2>1, <2>2, <2>3, <2>4, <3>1, DecideStep DEF Silent
  <2>5. CASE host[r].sn # None
    <3> DEFINE h == Holding(k, "serial", r, host[r])
               g == [h EXCEPT !.byUuid = TRUE]
    <3>1. "serial" \in Steps
      BY DEF Steps, StreamSteps
    <3>2. /\ h \in HandlerType /\ h.at = "serial" /\ h.rid = r /\ h.rec = host[r]
          /\ h.dev = handler[k].dev /\ h.io = handler[k].io
      BY <1>2, <2>2, <3>1, HoldingIs
    <3>3. Become(k, g) /\ UNCHANGED dev
      BY <1>5, <2>5
    <3> HIDE DEF h
    <3>4. /\ g \in HandlerType /\ g.byUuid
          /\ g.at = "serial" /\ g.rid = r /\ g.rec = host[r]
          /\ g.dev = handler[k].dev /\ g.io = handler[k].io
      BY <3>2, FoundIs
    <3> HIDE DEF g
    <3>5. /\ handler' \in [Handlers -> HandlerType] /\ handler'[k] = g
          /\ \A j \in Handlers : j # k => handler'[j] = handler[j]
      BY <1>2, <3>3, <3>4, BecomeIs
    <3>6. HandlerOK(k)'
      BY <1>2, <2>1, <2>2, <2>3, <3>4, <3>5
      DEF HandlerOK, Copied, Exists, StreamSteps, NodesSteps, HoldSteps
    <3> QED
      BY <1>2, <3>3, <3>4, <3>5, <3>6, GoOnStep DEF Silent
  <2> QED
    BY <2>4, <2>5
<1> QED
  BY <1>1, <1>3, <1>4, <1>5 DEF LookupUuid

LEMMA HoldIs ==
  ASSUME TypeOK, NEW k \in Handlers, NEW step \in Steps, NEW r \in Hosts, NEW rec \in HostType,
         Become(k, Holding(k, step, r, rec))
  PROVE  /\ handler' \in [Handlers -> HandlerType]
         /\ handler'[k].at = step /\ handler'[k].rid = r /\ handler'[k].rec = rec
         /\ handler'[k].dev = handler[k].dev /\ handler'[k].io = handler[k].io
         /\ \A j \in Handlers : j # k => handler'[j] = handler[j]
<1> DEFINE h == Holding(k, step, r, rec)
<1>1. /\ h \in HandlerType /\ h.at = step /\ h.rid = r /\ h.rec = rec
      /\ h.dev = handler[k].dev /\ h.io = handler[k].io
  BY HoldingIs
<1> HIDE DEF h
<1>2. /\ handler' \in [Handlers -> HandlerType] /\ handler'[k] = h
      /\ \A j \in Handlers : j # k => handler'[j] = handler[j]
  BY <1>1, BecomeIs DEF h
<1> QED
  BY <1>1, <1>2

\* Of the hosts with the serial number only one without a UUID is given one, and
\* only if the number is a real one.
LEMMA MatchSerialStep ==
  ASSUME IInv, NEW k \in Handlers, handler[k].at = "serial", NEW r \in Hosts, UNCHANGED host,
         BySerial(SerialOf(handler[k].dev)) = {r}, MatchSerial(k, r)
  PROVE  StepOK(k) /\ Keeps
<1> DEFINE h == handler[k]
           rid == IF h.byUuid THEN h.rid ELSE r
           rec == IF h.byUuid THEN h.rec ELSE host[r]
<1>1. TypeOK /\ h.dev \in Devices /\ ~h.io /\ h \in HandlerType /\ HandlerOK(k)
  BY Belongs DEF IInv, HandlerOK, StreamSteps
<1>2. Exists(r) /\ host[r].sn = SerialOf(h.dev) /\ host[r] \in HostType
  BY <1>1 DEF BySerial, TypeOK
<1>3. \A x \in Hosts : Exists(x) => Exists(x)'
  BY DEF Exists
<1>4. CASE ~h.byUuid
  <2>1. rid = r /\ rec = host[r]
    BY <1>4
  <2>2. CASE host[r].uuid = None
    <3> DEFINE new == [host[r] EXCEPT !.uuid = h.dev]
    <3>1. "setUuid" \in Steps /\ UNCHANGED dev /\ Become(k, Holding(k, "setUuid", r, new))
      BY <1>4, <2>2 DEF MatchSerial, Steps, StreamSteps
    <3>2. /\ new \in HostType /\ new.uuid = h.dev /\ new.sn = host[r].sn
          /\ new.cur = host[r].cur /\ new.des = host[r].des
      BY <1>1, <1>2 DEF HostType
    <3>3. h.dev \in ValidSerials /\ host[r].sn = h.dev
      <4>1. host[r].sn # NotAvailable
        BY <2>2, HostOf
      <4> QED
        BY <1>2, <4>1 DEF SerialOf
    <3> HIDE DEF new
    <3>4. /\ handler' \in [Handlers -> HandlerType]
          /\ handler'[k].at = "setUuid" /\ handler'[k].rid = r /\ handler'[k].rec = new
          /\ handler'[k].dev = handler[k].dev /\ handler'[k].io = handler[k].io
          /\ \A j \in Handlers : j # k => handler'[j] = handler[j]
      BY <1>1, <3>1, <3>2, HoldIs
    <3>5. Copied(k, r)'
      BY <1>2, <3>2, <3>4 DEF Copied, Exists, Approved
    <3>6. HandlerOK(k)'
      BY <1>1, <1>2, <1>3, <2>2, <3>2, <3>3, <3>4, <3>5 DEF HandlerOK, StreamSteps, NodesSteps, HoldSteps
    <3> QED
      BY <1>1, <3>1, <3>4, <3>6, GoOnStep DEF Silent
  <2>3. CASE host[r].uuid # None
    <3>1. "setError" \in Steps /\ UNCHANGED dev /\ Become(k, Holding(k, "setError", r, host[r]))
      BY <1>4, <2>3 DEF MatchSerial, Steps, StreamSteps
    <3>2. /\ handler' \in [Handlers -> HandlerType]
          /\ handler'[k].at = "setError" /\ handler'[k].rid = r /\ handler'[k].rec = host[r]
          /\ handler'[k].dev = handler[k].dev /\ handler'[k].io = handler[k].io
          /\ \A j \in Handlers : j # k => handler'[j] = handler[j]
      BY <1>1, <1>2, <3>1, HoldIs
    <3>3. HandlerOK(k)'
      BY <1>1, <1>2, <1>3, <3>2 DEF HandlerOK, StreamSteps, NodesSteps, HoldSteps, Exists
    <3> QED
      BY <1>1, <3>1, <3>2, <3>3, GoOnStep DEF Silent
  <2> QED
    BY <2>2, <2>3
<1>5. CASE h.byUuid
  <2>1. h.rid \in Hosts /\ host[h.rid].uuid = h.dev /\ Copied(k, h.rid)
    BY <1>1, <1>5 DEF HandlerOK
  <2>2. h.rec \in HostType /\ h.rec.uuid = h.dev /\ h.rec.uuid # None
    BY <1>1, <2>1, NoneAssumption DEF Copied, HandlerType
  <2>3. Fail(k) \/ (h.rid = r /\ Decide(k, r, h.rec))
    BY <1>5, <2>2 DEF MatchSerial
  <2>4. ASSUME h.rid = r, Decide(k, r, h.rec) PROVE StepOK(k) /\ Keeps
    <3>0. PICK copy \in HostType : copy = h.rec
      BY <2>2
    <3>1. Fits(r, copy.uuid)'
      BY <1>2, <2>1, <2>2, <2>4, <3>0 DEF Fits, SerialOf
    <3>2. copy.des = "ONBOARDED" => host'[r].des \in Approved
      BY <2>1, <2>4, <3>0 DEF Copied
    <3>3. Decide(k, r, copy) /\ copy.uuid = handler[k].dev
      BY <2>2, <2>4, <3>0
    <3> QED
      BY <1>1, <1>2, <1>3, <3>1, <3>2, <3>3, DecideStep DEF Silent
  <2> QED
    BY <2>3, <2>4, FailStep
<1> QED
  BY <1>4, <1>5 DEF HandlerType

LEMMA LookupSerialOK ==
  ASSUME IInv, NEW k \in Handlers, LookupSerial(k)
  PROVE  HostOK /\ StepOK(k) /\ Keeps
<1>1. HostOK /\ UNCHANGED host /\ handler[k].at = "serial"
  BY SameHost DEF LookupSerial
<1>2. TypeOK /\ handler[k].dev \in Devices /\ ~handler[k].io /\ HandlerOK(k)
  BY <1>1, Belongs DEF IInv, HandlerOK, StreamSteps
<1>3. ASSUME Goto(k, "setError"), UNCHANGED dev, handler[k].byUuid PROVE StepOK(k) /\ Keeps
  <2>1. "setError" \in Steps
    BY DEF Steps, StreamSteps
  <2>2. /\ handler' \in [Handlers -> HandlerType] /\ handler'[k].at = "setError"
        /\ handler'[k].dev = handler[k].dev /\ handler'[k].rid = handler[k].rid
        /\ handler'[k].io = handler[k].io /\ handler'[k].rec = handler[k].rec
        /\ \A j \in Handlers : j # k => handler'[j] = handler[j]
    BY <1>2, <1>3, <2>1, GotoIs
  <2>3. /\ handler[k].rid \in Hosts /\ host[handler[k].rid].uuid = handler[k].dev
        /\ handler[k].rec.cur # "ABSENT"
    BY <1>1, <1>2, <1>3 DEF HandlerOK, Copied
  <2>4. Exists(handler[k].rid)'
    <3>1. Exists(handler[k].rid)
      BY <1>2, <2>3, HostOf, NoneAssumption
    <3> QED
      BY <1>1, <2>2, <3>1 DEF Exists
  <2>5. HandlerOK(k)'
    BY <1>2, <2>2, <2>3, <2>4 DEF HandlerOK, StreamSteps, NodesSteps, HoldSteps
  <2> QED
    BY <1>2, <1>3, <2>2, <2>5, GoOnStep DEF Silent
<1>4. CASE Fail(k)
  BY <1>1, <1>4, FailStep
<1>5. CASE NotFound(k)
  BY <1>1, <1>5, NotFoundStep DEF StreamSteps
<1>6. ASSUME NEW r \in Hosts, BySerial(SerialOf(handler[k].dev)) = {r}, MatchSerial(k, r)
      PROVE  StepOK(k) /\ Keeps
  BY <1>1, <1>6, MatchSerialStep
<1> QED
  BY <1>1, <1>3, <1>4, <1>5, <1>6 DEF LookupSerial

\* What a handler that holds a host knows of it.
LEMMA Held ==
  ASSUME IInv, NEW k \in Handlers, handler[k].at \in HoldSteps
  PROVE  /\ TypeOK /\ handler[k].rid \in Hosts /\ Exists(handler[k].rid)
         /\ handler[k].rec \in HostType /\ handler[k].dev \in Devices /\ HandlerOK(k)
         /\ host[handler[k].rid] \in HostType
BY DEF IInv, TypeOK, HandlerOK, HandlerType, HoldSteps

LEMMA SetUuidOK ==
  ASSUME IInv, NEW k \in Handlers, SetUuid(k)
  PROVE  HostOK /\ StepOK(k) /\ Keeps
<1>1. handler[k].at = "setUuid"
  BY DEF SetUuid
<1>2. PICK r \in Hosts, rec \in HostType, d \in Devices :
        r = handler[k].rid /\ rec = handler[k].rec /\ d = handler[k].dev
  BY <1>1, Held DEF HoldSteps
<1>3. /\ TypeOK /\ Exists(r) /\ host[r] \in HostType /\ ~handler[k].io
      /\ d \in ValidSerials /\ rec.uuid = d /\ rec.sn = d /\ rec.cur # "ABSENT"
      /\ rec.des = "ONBOARDED" => host[r].des \in Approved
      /\ host[r].uuid = d \/ (host[r].uuid = None /\ host[r].sn = d)
  BY <1>1, <1>2, Held DEF HoldSteps, HandlerOK, Copied, StreamSteps
<1> DEFINE new == [host[r] EXCEPT !.uuid = rec.uuid, !.sn = rec.sn, !.cur = rec.cur]
<1>4. /\ new \in HostType /\ new.uuid = d /\ new.sn = d /\ new.cur = rec.cur
      /\ new.des = host[r].des
  BY <1>3 DEF HostType
<1>5. \/ FailedWrite(r, new) /\ Fail(k)
      \/ Write(r, new) /\ Decide(k, r, rec)
  BY <1>2 DEF SetUuid
<1> HIDE DEF new
<1>6. HostOK
  <2>1. host' = host \/ host' = [host EXCEPT ![r] = new]
    BY <1>5 DEF FailedWrite, Write
  <2>2. \A x \in Devices : Fits(r, x) => new.sn \in {None, SerialOf(x)}
    BY <1>3, <1>4, NoneAssumption DEF Fits, SerialOf
  <2> QED
    BY <1>3, <1>4, <2>1, <2>2, NoneAssumption, WriteOK
<1>7. ASSUME host' = [host EXCEPT ![r] = new], Decide(k, r, rec) PROVE StepOK(k) /\ Keeps
  <2>1. host'[r] = new
    BY <1>3, <1>7 DEF TypeOK
  <2>2. Fits(r, rec.uuid)' /\ Exists(r)' /\ (rec.des = "ONBOARDED" => host'[r].des \in Approved)
    BY <1>3, <1>4, <2>1 DEF Fits, Exists, SerialOf
  <2> QED
    BY <1>1, <1>2, <1>3, <1>7, <2>2, DecideStep DEF Silent
<1> QED
  BY <1>5, <1>6, <1>7, FailStep DEF Write

\* A registration status, or the current state, is written.
LEMMA StatusOK ==
  ASSUME IInv, NEW r \in Hosts, NEW new \in HostType,
         host' = host \/ host' = [host EXCEPT ![r] = new],
         new.uuid = host[r].uuid, new.sn = host[r].sn, new.des = host[r].des, new.cur # "ABSENT"
  PROVE  HostOK
<1>1. \A d \in Devices : Fits(r, d) => new.sn \in {None, SerialOf(d)}
  BY DEF Fits
<1>2. new.sn = NotAvailable => new.uuid # None
  BY HostOf
<1> QED
  BY <1>1, <1>2, WriteOK

LEMMA SetErrorOK ==
  ASSUME IInv, NEW k \in Handlers, SetError(k)
  PROVE  HostOK /\ StepOK(k) /\ Keeps
<1>1. handler[k].at = "setError"
  BY DEF SetError
<1>2. PICK r \in Hosts, rec \in HostType : r = handler[k].rid /\ rec = handler[k].rec
  BY <1>1, Held DEF HoldSteps
<1>3. host[r] \in HostType /\ rec.cur # "ABSENT"
  BY <1>1, <1>2, Held DEF HoldSteps, HandlerOK
<1> DEFINE new == [host[r] EXCEPT !.cur = rec.cur, !.reg = "error"]
<1>4. /\ new \in HostType /\ new.uuid = host[r].uuid /\ new.sn = host[r].sn
      /\ new.des = host[r].des /\ new.cur # "ABSENT"
  BY <1>3 DEF HostType
<1>5. \/ FailedWrite(r, new) /\ Fail(k)
      \/ Write(r, new) /\ NotFound(k)
  BY <1>2 DEF SetError
<1> HIDE DEF new
<1>6. HostOK
  BY <1>4, <1>5, StatusOK DEF FailedWrite, Write
<1> QED
  BY <1>1, <1>5, <1>6, FailStep, NotFoundStep DEF StreamSteps

LEMMA WriteRegisteredOK ==
  ASSUME IInv, NEW k \in Handlers, WriteRegistered(k)
  PROVE  HostOK /\ StepOK(k) /\ Keeps
<1>1. handler[k].at = "writeReg"
  BY DEF WriteRegistered
<1>2. PICK r \in Hosts : r = handler[k].rid
  BY <1>1, Held DEF HoldSteps
<1>3. /\ TypeOK /\ host[r] \in HostType /\ handler[k].dev \in Devices /\ ~handler[k].io
  BY <1>1, <1>2, Held DEF HoldSteps, HandlerOK, StreamSteps
<1> DEFINE new == [host[r] EXCEPT !.cur = "REGISTERED", !.reg = "done"]
<1>4. /\ new \in HostType /\ new.uuid = host[r].uuid /\ new.sn = host[r].sn
      /\ new.des = host[r].des /\ new.cur # "ABSENT"
  BY <1>3 DEF HostType
<1>5. \/ FailedWrite(r, new) /\ Fail(k)
      \/ Write(r, new) /\ Become(k, Waiting(k)) /\ UNCHANGED dev
  BY <1>2 DEF WriteRegistered
<1> HIDE DEF new
<1>6. HostOK
  BY <1>4, <1>5, StatusOK DEF FailedWrite, Write
<1>7. ASSUME Become(k, Waiting(k)), UNCHANGED dev PROVE StepOK(k) /\ Keeps
  <2>1. /\ handler' \in [Handlers -> HandlerType] /\ handler'[k].at = "recv"
        /\ handler'[k].dev = handler[k].dev /\ ~handler'[k].io /\ ~handler'[k].byUuid
        /\ handler'[k] = Waiting(k)
        /\ \A j \in Handlers : j # k => handler'[j] = handler[j]
    BY <1>3, <1>7, BecomeIs, WaitingIs
  <2>2. HandlerOK(k)'
    BY <1>3, <2>1, FreeOK
  <2>3. handler'[k].io = handler[k].io
    BY <1>3, <2>1 DEF TypeOK, HandlerType
  <2> QED
    BY <1>3, <1>7, <2>1, <2>2, <2>3, GoOnStep DEF Silent
<1> QED
  BY <1>5, <1>6, <1>7, FailStep

LEMMA WriteOnboardedOK ==
  ASSUME IInv, NEW k \in Handlers, WriteOnboarded(k)
  PROVE  HostOK /\ StepOK(k) /\ Keeps
<1>1. handler[k].at = "writeOnb"
  BY DEF WriteOnboarded
<1>2. PICK r \in Hosts : r = handler[k].rid
  BY <1>1, Held DEF HoldSteps
<1>3. TypeOK /\ host[r] \in HostType /\ handler[k].dev \in Devices /\ Exists(r)
  BY <1>1, <1>2, Held DEF HoldSteps
<1> DEFINE new == [host[r] EXCEPT !.cur = "ONBOARDED"]
<1>4. /\ new \in HostType /\ new.uuid = host[r].uuid /\ new.sn = host[r].sn
      /\ new.des = host[r].des /\ new.cur # "ABSENT"
  BY <1>3 DEF HostType
<1>5. \/ FailedWrite(r, new) /\ Fail(k)
      \/ Write(r, new) /\ Goto(k, "zeroTouch") /\ UNCHANGED dev
  BY <1>2 DEF WriteOnboarded
<1> HIDE DEF new
<1>6. HostOK
  BY <1>4, <1>5, StatusOK DEF FailedWrite, Write
<1>7. ASSUME Goto(k, "zeroTouch"), UNCHANGED dev PROVE StepOK(k) /\ Keeps
  <2>1. "zeroTouch" \in Steps
    BY DEF Steps
  <2>2. /\ handler' \in [Handlers -> HandlerType] /\ handler'[k].at = "zeroTouch"
        /\ handler'[k].dev = handler[k].dev /\ handler'[k].rid = r
        /\ handler'[k].io = handler[k].io
        /\ \A j \in Handlers : j # k => handler'[j] = handler[j]
    BY <1>2, <1>3, <1>7, <2>1, GotoIs
  <2>3. Exists(r)'
    BY <1>3, <1>6 DEF HostOK, Evolves
  <2>4. HandlerOK(k)'
    BY <1>3, <2>2, <2>3 DEF HandlerOK, StreamSteps, NodesSteps, HoldSteps, Exists
  <2> QED
    BY <1>1, <1>7, <2>2, <2>4, GoOnStep DEF Silent
<1> QED
  BY <1>5, <1>6, <1>7, FailStep

\* The credentials go to the device whose host was approved.
LEMMA FetchSecretOK ==
  ASSUME IInv, NEW k \in Handlers, FetchSecret(k)
  PROVE  /\ HostOK /\ StepOK(k) /\ clients' \in SUBSET Devices
         /\ \A d \in Devices :
              \/ dev'[d].secret \in {None, dev[d].secret}
              \/ dev'[d].secret = d /\ \E r \in Hosts : Fits(r, d) /\ host[r].des \in Approved
<1>1. HostOK /\ handler[k].at = "secret"
  BY SameHost DEF FetchSecret
<1>2. PICK r \in Hosts, d \in Devices : r = handler[k].rid /\ d = handler[k].dev
  BY <1>1, Held DEF HoldSteps
<1>3. /\ TypeOK /\ Exists(r) /\ ~handler[k].io /\ handler[k].rec.uuid = d
      /\ Fits(r, d) /\ host[r].des \in Approved
  BY <1>1, <1>2, Held DEF HoldSteps, HandlerOK, StreamSteps
<1>4. clients' \in SUBSET Devices
  BY <1>3 DEF FetchSecret, TypeOK
<1>5. CASE Fail(k)
  BY <1>1, <1>4, <1>5, FailStep DEF Keeps
<1>6. CASE SendThen(k, "onboarded", d, [handler[k] EXCEPT !.at = "writeOnb"])
  <2> DEFINE h == [handler[k] EXCEPT !.at = "writeOnb"]
  <2>1. /\ h \in HandlerType /\ h.at = "writeOnb" /\ h.rid = r /\ h.dev = d /\ h.io = handler[k].io
    BY <1>2, <1>3 DEF TypeOK, HandlerType, Steps, StreamSteps
  <2>2. /\ Deliver(k, "onboarded", d)
        /\ Become(k, h) \/ Become(k, FreeHandler)
    BY <1>6 DEF SendThen
  <2> HIDE DEF h
  <2>3. /\ handler' \in [Handlers -> HandlerType]
        /\ handler'[k] \in {h, FreeHandler}
        /\ \A j \in Handlers : j # k => handler'[j] = handler[j]
    BY <1>3, <2>1, <2>2, BecomeIs, FreeType
  <2>4. /\ dev' \in [Devices -> DevType]
        /\ \A x \in Devices :
             \/ dev'[x] = dev[x] /\ ~(x = d /\ dev[x].conn = k)
             \/ /\ x = d /\ dev'[x].at = "onboarded" /\ dev'[x].secret = d
                /\ dev'[x].conn = None
    BY <1>2, <1>3, <2>2, DeliverIs DEF DevSteps
  <2>5. \A x \in Devices : dev[x].conn = k => x = d
    BY <1>2, NoneAssumption DEF IInv, DeviceOK
  <2>6. \A x \in Devices : DeviceOK(x)'
    BY <2>3, <2>4, <2>5, DevicesStep
  <2>7. HandlerOK(k)'
    <3>1. CASE handler'[k] = h
      <4>1. Exists(r)'
        BY <1>1, <1>3 DEF HostOK, Evolves
      <4> QED
        BY <1>3, <2>1, <3>1, <4>1 DEF HandlerOK, StreamSteps, NodesSteps, HoldSteps, Exists
    <3> QED
      BY <2>3, <3>1, FreeOK
  <2>8. StepOK(k)
    BY <2>3, <2>4, <2>6, <2>7 DEF StepOK
  <2> QED
    BY <1>1, <1>3, <1>4, <2>4, <2>8
<1> QED
  BY <1>3, <1>5, <1>6 DEF FetchSecret

LEMMA StreamClosedOK ==
  ASSUME IInv, NEW k \in Handlers, StreamClosed(k)
  PROVE  HostOK /\ StepOK(k) /\ Keeps
<1>1. HostOK /\ UNCHANGED dev /\ ~Linked(k) /\ TypeOK
  BY SameHost DEF StreamClosed, IInv
<1>2. /\ handler' \in [Handlers -> HandlerType] /\ handler'[k] = FreeHandler
      /\ \A j \in Handlers : j # k => handler'[j] = handler[j]
  BY <1>1, BecomeIs, FreeType DEF StreamClosed
<1>3. \A d \in Devices : dev[d].conn # k
  BY <1>1, NoneAssumption DEF IInv, DeviceOK, Linked
<1>4. \A d \in Devices : DeviceOK(d)'
  BY <1>1, <1>2, <1>3, DevicesStep
<1> QED
  BY <1>1, <1>2, <1>4, FreeOK DEF StepOK, Keeps, TypeOK

\* A handler goes on with the host it found.
LEMMA FoundNode ==
  ASSUME TypeOK, NEW k \in Handlers, NEW step \in Steps, NEW r \in Hosts, host[r] \in HostType,
         Become(k, [Holding(k, step, r, host[r]) EXCEPT !.byUuid = TRUE])
  PROVE  /\ handler' \in [Handlers -> HandlerType]
         /\ handler'[k].at = step /\ handler'[k].rid = r
         /\ handler'[k].dev = handler[k].dev /\ handler'[k].io = handler[k].io
         /\ \A j \in Handlers : j # k => handler'[j] = handler[j]
<1> DEFINE h == Holding(k, step, r, host[r])
           g == [h EXCEPT !.byUuid = TRUE]
<1>1. /\ h \in HandlerType /\ h.at = step /\ h.rid = r
      /\ h.dev = handler[k].dev /\ h.io = handler[k].io
  BY HoldingIs
<1>2. Become(k, g)
  OBVIOUS
<1> HIDE DEF h
<1>3. /\ g \in HandlerType /\ g.at = step /\ g.rid = r /\ g.dev = handler[k].dev
      /\ g.io = handler[k].io
  BY <1>1, FoundIs
<1> HIDE DEF g
<1>4. /\ handler' \in [Handlers -> HandlerType] /\ handler'[k] = g
      /\ \A j \in Handlers : j # k => handler'[j] = handler[j]
  BY <1>2, <1>3, BecomeIs
<1> QED
  BY <1>3, <1>4

LEMMA LookupNodeOK ==
  ASSUME IInv, NEW k \in Handlers, LookupNode(k)
  PROVE  HostOK /\ StepOK(k) /\ Keeps
<1>1. HostOK /\ UNCHANGED host /\ handler[k].at = "lookup"
  BY SameHost DEF LookupNode
<1>2. TypeOK /\ handler[k].dev \in Devices /\ handler[k].io
  BY <1>1, Belongs DEF IInv, HandlerOK, NodesSteps
<1>3. CASE Return(k, FALSE)
  BY <1>1, <1>2, <1>3, ReturnStep
<1>4. CASE Goto(k, "create") /\ UNCHANGED dev
  <2>1. "create" \in Steps
    BY DEF Steps, NodesSteps
  <2>2. /\ handler' \in [Handlers -> HandlerType] /\ handler'[k].at = "create"
        /\ handler'[k].dev = handler[k].dev /\ handler'[k].io = handler[k].io
        /\ \A j \in Handlers : j # k => handler'[j] = handler[j]
    BY <1>2, <1>4, <2>1, GotoIs
  <2>3. HandlerOK(k)'
    BY <1>2, <2>2 DEF HandlerOK, StreamSteps, NodesSteps, HoldSteps
  <2> QED
    BY <1>1, <1>2, <1>4, <2>2, <2>3, GoOnStep DEF Silent
<1>5. ASSUME NEW r \in Hosts, NEW step \in {"zeroTouch", "update"}, ByUuid(handler[k].dev) = {r},
             Become(k, [Holding(k, step, r, host[r]) EXCEPT !.byUuid = TRUE]), UNCHANGED dev
      PROVE  StepOK(k) /\ Keeps
  <2>1. /\ Exists(r) /\ host[r].uuid = handler[k].dev /\ host[r] \in HostType
    BY <1>2, <1>5 DEF ByUuid, TypeOK
  <2>2. step \in Steps
    BY DEF Steps, NodesSteps
  <2>3. /\ handler' \in [Handlers -> HandlerType]
        /\ handler'[k].at = step /\ handler'[k].rid = r
        /\ handler'[k].dev = handler[k].dev /\ handler'[k].io = handler[k].io
        /\ \A j \in Handlers : j # k => handler'[j] = handler[j]
    BY <1>2, <1>5, <2>1, <2>2, FoundNode
  <2>4. HandlerOK(k)'
    BY <1>1, <1>2, <2>1, <2>3 DEF HandlerOK, Exists, StreamSteps, NodesSteps, HoldSteps
  <2> QED
    BY <1>1, <1>2, <1>5, <2>3, <2>4, GoOnStep
<1> QED
  <2>1. ASSUME NEW r \in Hosts, ByUuid(handler[k].dev) = {r},
               Become(k, [Holding(k, IF host[r].sn = SerialOf(handler[k].dev)
                                     THEN "zeroTouch" ELSE "update", r, host[r])
                            EXCEPT !.byUuid = TRUE]),
               UNCHANGED dev
        PROVE  StepOK(k) /\ Keeps
    <3>1. CASE host[r].sn = SerialOf(handler[k].dev)
      BY <1>5, <2>1, <3>1
    <3>2. CASE host[r].sn # SerialOf(handler[k].dev)
      BY <1>5, <2>1, <3>2
    <3> QED
      BY <3>1, <3>2
  <2> QED
    BY <1>1, <1>3, <1>4, <2>1 DEF LookupNode

LEMMA UpdateNodeOK ==
  ASSUME IInv, NEW k \in Handlers, UpdateNode(k)
  PROVE  HostOK /\ StepOK(k) /\ Keeps
<1>1. handler[k].at = "update"
  BY DEF UpdateNode
<1>2. PICK r \in Hosts, d \in Devices : r = handler[k].rid /\ d = handler[k].dev
  BY <1>1, Held DEF HoldSteps
<1>3. /\ TypeOK /\ host[r] \in HostType /\ handler[k].io /\ host[r].uuid = d /\ Exists(r)
  BY <1>1, <1>2, Held DEF HoldSteps, HandlerOK, NodesSteps
<1> DEFINE new == [host[r] EXCEPT !.sn = SerialOf(d), !.cur = "ONBOARDED", !.reg = "unknown"]
<1>4. /\ new \in HostType /\ new.uuid = d /\ new.sn = SerialOf(d)
      /\ new.des = host[r].des /\ new.cur # "ABSENT"
  <2>1. SerialOf(d) \in Devices \cup {None, NotAvailable}
    BY DEF SerialOf
  <2> QED
    BY <1>3, <2>1 DEF HostType
<1>5. \/ FailedWrite(r, new) /\ Return(k, FALSE)
      \/ Write(r, new) /\ Goto(k, "zeroTouch") /\ UNCHANGED dev
  BY <1>2 DEF UpdateNode
<1> HIDE DEF new
<1>6. HostOK
  <2>1. host' = host \/ host' = [host EXCEPT ![r] = new]
    BY <1>5 DEF FailedWrite, Write
  <2>2. \A x \in Devices : Fits(r, x) => new.sn \in {None, SerialOf(x)}
    BY <1>3, <1>4 DEF Fits
  <2> QED
    BY <1>3, <1>4, <2>1, <2>2, NoneAssumption, WriteOK
<1>7. ASSUME Goto(k, "zeroTouch"), UNCHANGED dev PROVE StepOK(k) /\ Keeps
  <2>1. "zeroTouch" \in Steps
    BY DEF Steps
  <2>2. /\ handler' \in [Handlers -> HandlerType] /\ handler'[k].at = "zeroTouch"
        /\ handler'[k].dev = d /\ handler'[k].rid = r
        /\ handler'[k].io = handler[k].io
        /\ \A j \in Handlers : j # k => handler'[j] = handler[j]
    BY <1>2, <1>3, <1>7, <2>1, GotoIs
  <2>3. Exists(r)'
    BY <1>3, <1>6 DEF HostOK, Evolves
  <2>4. HandlerOK(k)'
    BY <2>2, <2>3 DEF HandlerOK, StreamSteps, NodesSteps, HoldSteps, Exists
  <2> QED
    BY <1>2, <1>3, <1>7, <2>2, <2>4, GoOnStep
<1> QED
  BY <1>3, <1>5, <1>6, <1>7, ReturnStep

LEMMA CreateNodeOK ==
  ASSUME IInv, NEW k \in Handlers, CreateNode(k)
  PROVE  HostOK /\ StepOK(k) /\ Keeps
<1>1. handler[k].at = "create"
  BY DEF CreateNode
<1>2. PICK d \in Devices : d = handler[k].dev
  BY <1>1, Belongs
<1>3. TypeOK /\ handler[k].io
  BY <1>1, Belongs DEF IInv, HandlerOK, NodesSteps
<1> DEFINE new == [NoHost EXCEPT !.uuid = d, !.sn = SerialOf(d), !.cur = "ONBOARDED"]
<1>4. new \in HostType /\ new.uuid = d /\ new.cur # "ABSENT"
  <2>1. SerialOf(d) \in Devices \cup {None, NotAvailable}
    BY DEF SerialOf
  <2> QED
    BY <2>1 DEF HostType, NoHost
<1>5. \/ UNCHANGED host /\ Return(k, FALSE)
      \/ \E r \in Hosts : /\ ~Exists(r)
                         /\ \/ FailedWrite(r, new) /\ Return(k, FALSE)
                            \/ /\ Write(r, new) /\ UNCHANGED dev
                               /\ Become(k, Holding(k, "zeroTouch", r, new))
  BY <1>2 DEF CreateNode
<1> HIDE DEF new
<1>6. CASE UNCHANGED host /\ Return(k, FALSE)
  BY <1>3, <1>6, SameHost, ReturnStep
<1>7. ASSUME NEW r \in Hosts, ~Exists(r), host' = host \/ host' = [host EXCEPT ![r] = new]
      PROVE  HostOK
  <2>1. host[r].uuid = None /\ host[r].des \notin Approved
    BY <1>7, HostOf
  <2>2. \A x \in Devices : ~Fits(r, x)
    BY <2>1, NoneAssumption DEF Fits
  <2> QED
    BY <1>4, <1>7, <2>1, <2>2, NoneAssumption, WriteOK
<1>8. ASSUME NEW r \in Hosts, ~Exists(r), host' = [host EXCEPT ![r] = new], UNCHANGED dev,
             Become(k, Holding(k, "zeroTouch", r, new))
      PROVE  StepOK(k) /\ Keeps
  <2>1. "zeroTouch" \in Steps
    BY DEF Steps
  <2>2. /\ handler' \in [Handlers -> HandlerType] /\ handler'[k].at = "zeroTouch"
        /\ handler'[k].dev = d /\ handler'[k].rid = r
        /\ handler'[k].io = handler[k].io
        /\ \A j \in Handlers : j # k => handler'[j] = handler[j]
    BY <1>2, <1>3, <1>4, <1>8, <2>1, HoldIs
  <2>3. Exists(r)'
    BY <1>3, <1>4, <1>8 DEF Exists, TypeOK
  <2>4. HandlerOK(k)'
    BY <2>2, <2>3 DEF HandlerOK, StreamSteps, NodesSteps, HoldSteps, Exists
  <2> QED
    BY <1>2, <1>3, <1>8, <2>2, <2>4, GoOnStep
<1> QED
  BY <1>3, <1>5, <1>6, <1>7, <1>8, ReturnStep DEF FailedWrite, Write

LEMMA ZeroTouchOK ==
  ASSUME IInv, NEW k \in Handlers, StartZeroTouch(k) \/ CreateInstance(k)
  PROVE  HostOK /\ StepOK(k) /\ Keeps /\ instance' \in SUBSET Hosts
<1>1. HostOK /\ handler[k].at \in {"zeroTouch", "newInstance"}
  BY SameHost DEF StartZeroTouch, CreateInstance
<1>2. PICK r \in Hosts : r = handler[k].rid
  BY <1>1, Held DEF HoldSteps
<1>3. TypeOK /\ handler[k].dev \in Devices /\ Exists(r)
  BY <1>1, <1>2, Held DEF HoldSteps
<1>4. instance' \in SUBSET Hosts
  BY <1>2, <1>3 DEF StartZeroTouch, CreateInstance, TypeOK
<1>5. ASSUME NEW ok \in BOOLEAN, Return(k, ok) PROVE StepOK(k) /\ Keeps
  BY <1>1, <1>5, ReturnStep DEF Silent
<1>6. ASSUME Goto(k, "newInstance"), UNCHANGED dev PROVE StepOK(k) /\ Keeps
  <2>1. "newInstance" \in Steps
    BY DEF Steps
  <2>2. /\ handler' \in [Handlers -> HandlerType] /\ handler'[k].at = "newInstance"
        /\ handler'[k].dev = handler[k].dev /\ handler'[k].rid = r
        /\ handler'[k].io = handler[k].io
        /\ \A j \in Handlers : j # k => handler'[j] = handler[j]
    BY <1>2, <1>3, <1>6, <2>1, GotoIs
  <2>3. Exists(r)'
    BY <1>1, <1>3 DEF HostOK, Evolves
  <2>4. HandlerOK(k)'
    BY <1>3, <2>2, <2>3 DEF HandlerOK, StreamSteps, NodesSteps, HoldSteps, Exists
  <2> QED
    BY <1>1, <1>6, <2>2, <2>4, GoOnStep DEF Silent
<1> QED
  BY <1>1, <1>4, <1>5, <1>6 DEF StartZeroTouch, CreateInstance

-----------------------------------------------------------------------------
(* The steps of the device and of the user.                                *)

\* Only device d moves, with the handler it waits for or one that was free.
LEMMA OtherDevices ==
  ASSUME IInv, NEW d \in Devices, NEW k \in Handlers,
         \A j \in Handlers : j # k => handler'[j] = handler[j],
         \A e \in Devices : e # d => dev'[e] = dev[e],
         handler[k].at = "free" \/ handler[k].dev = d, DeviceOK(d)'
  PROVE  \A e \in Devices : DeviceOK(e)'
<1> SUFFICES ASSUME NEW e \in Devices, e # d PROVE DeviceOK(e)'
  OBVIOUS
<1>1. dev'[e] = dev[e] /\ DeviceOK(e) /\ dev[e].conn \in Handlers \cup {None}
  BY DEF IInv, TypeOK, DevType
<1>2. dev[e].conn # k
  BY <1>1, NoneAssumption DEF DeviceOK
<1> QED
  BY <1>1, <1>2 DEF DeviceOK

LEMMA OpenStreamOK ==
  ASSUME IInv, NEW d \in Devices, OpenStream(d)
  PROVE  HostOK /\ \E k \in Handlers : StepOK(k) /\ Keeps
<1>1. HostOK /\ TypeOK /\ dev[d].at = "off" /\ dev[d] \in DevType /\ dev[d].tries = 0
  BY SameHost DEF OpenStream, IInv, TypeOK, DeviceOK
<1>2. PICK k \in Handlers :
        /\ handler[k].at = "free" /\ Request(d, k, "uuid", FALSE)
        /\ dev' = [dev EXCEPT ![d] = [@ EXCEPT !.at = "sent", !.conn = k]]
  BY DEF OpenStream
<1> DEFINE h == [FreeHandler EXCEPT !.at = "uuid", !.io = FALSE, !.dev = d]
           new == [dev[d] EXCEPT !.at = "sent", !.conn = k]
<1>3. h.at = "uuid" /\ ~h.io /\ h.dev = d /\ ~h.byUuid
  BY DEF FreeHandler
<1>4. h \in HandlerType
  BY FreeType DEF FreeHandler, HandlerType, Steps, StreamSteps
<1>5. /\ new \in DevType /\ new.at = "sent" /\ new.conn = k /\ new.tries = 0
      /\ new.secret = dev[d].secret
  BY <1>1 DEF DevType
<1>6. Become(k, h) /\ dev' = [dev EXCEPT ![d] = new]
  BY <1>2 DEF Request
<1> HIDE DEF h, new
<1>7. /\ handler' \in [Handlers -> HandlerType] /\ handler'[k] = h
      /\ \A j \in Handlers : j # k => handler'[j] = handler[j]
  BY <1>1, <1>4, <1>6, BecomeIs
<1>8. /\ dev' \in [Devices -> DevType] /\ dev'[d] = new
      /\ \A e \in Devices : e # d => dev'[e] = dev[e]
  BY <1>1, <1>5, <1>6 DEF TypeOK
<1>9. HandlerOK(k)'
  BY <1>3, <1>7 DEF HandlerOK, StreamSteps, NodesSteps, HoldSteps
<1>10. DeviceOK(d)'
  BY <1>3, <1>5, <1>7, <1>8 DEF DeviceOK
<1>11. \A e \in Devices : DeviceOK(e)'
  BY <1>2, <1>7, <1>8, <1>10, OtherDevices
<1> QED
  BY <1>1, <1>5, <1>7, <1>8, <1>9, <1>11 DEF StepOK, Keeps

LEMMA PollOK ==
  ASSUME IInv, NEW d \in Devices, Poll(d)
  PROVE  HostOK /\ \E k \in Handlers : StepOK(k) /\ Keeps
<1>1. HostOK /\ TypeOK /\ dev[d].at = "backoff" /\ dev[d] \in DevType /\ DeviceOK(d)
  BY SameHost DEF Poll, IInv, TypeOK
<1>2. PICK k \in Handlers : k = dev[d].conn
  BY <1>1 DEF DeviceOK, DevType
<1>3. handler[k].at = "recv" /\ handler[k].dev = d /\ HandlerOK(k)
  BY <1>1, <1>2, NoneAssumption DEF Poll, DeviceOK, IInv
<1>4. ~handler[k].io /\ ~handler[k].byUuid
  BY <1>3 DEF HandlerOK, StreamSteps
<1>5. dev[d].tries = 0
  BY <1>1, <1>2, <1>4, NoneAssumption DEF DeviceOK
<1>6. Goto(k, "uuid") /\ dev' = [dev EXCEPT ![d].at = "sent"] /\ "uuid" \in Steps
  BY <1>2 DEF Poll, Steps, StreamSteps
<1>7. /\ handler' \in [Handlers -> HandlerType]
      /\ handler'[k].at = "uuid" /\ handler'[k].dev = handler[k].dev
      /\ handler'[k].io = handler[k].io /\ handler'[k].byUuid = handler[k].byUuid
      /\ \A j \in Handlers : j # k => handler'[j] = handler[j]
  BY <1>1, <1>6, GotoIs
<1>8. /\ dev' \in [Devices -> DevType]
      /\ dev'[d].at = "sent" /\ dev'[d].conn = k /\ dev'[d].tries = 0
      /\ dev'[d].secret = dev[d].secret
      /\ \A e \in Devices : e # d => dev'[e] = dev[e]
  BY <1>1, <1>2, <1>5, <1>6 DEF TypeOK, DevType
<1>9. HandlerOK(k)'
  BY <1>3, <1>4, <1>7 DEF HandlerOK, StreamSteps, NodesSteps, HoldSteps
<1>10. DeviceOK(d)'
  BY <1>3, <1>7, <1>8 DEF DeviceOK
<1>11. \A e \in Devices : DeviceOK(e)'
  BY <1>3, <1>7, <1>8, <1>10, OtherDevices
<1> QED
  BY <1>1, <1>7, <1>8, <1>9, <1>11 DEF StepOK, Keeps

LEMMA CallCreateNodesOK ==
  ASSUME IInv, NEW d \in Devices, CallCreateNodes(d)
  PROVE  HostOK /\ \E k \in Handlers : StepOK(k) /\ Keeps
<1>1. HostOK /\ TypeOK /\ dev[d] \in DevType /\ dev[d].tries < MaxTries
  BY SameHost DEF CallCreateNodes, IInv, TypeOK, DeviceOK
<1>2. PICK k \in Handlers :
        /\ handler[k].at = "free" /\ Request(d, k, "lookup", TRUE)
        /\ dev' = [dev EXCEPT ![d] = [@ EXCEPT !.at = "calling", !.conn = k,
                                              !.tries = dev[d].tries + 1]]
  BY DEF CallCreateNodes
<1> DEFINE h == [FreeHandler EXCEPT !.at = "lookup", !.io = TRUE, !.dev = d]
<1>3. h.at = "lookup" /\ h.io /\ h.dev = d
  BY DEF FreeHandler
<1>4. h \in HandlerType
  BY FreeType DEF FreeHandler, HandlerType, Steps, NodesSteps
<1>5. dev[d].tries + 1 \in 0..MaxTries
  BY <1>1 DEF DevType, MaxTries
<1>6. Become(k, h)
  BY <1>2 DEF Request
<1> HIDE DEF h
<1>7. /\ handler' \in [Handlers -> HandlerType] /\ handler'[k] = h
      /\ \A j \in Handlers : j # k => handler'[j] = handler[j]
  BY <1>1, <1>4, <1>6, BecomeIs
<1>8. /\ dev' \in [Devices -> DevType]
      /\ dev'[d].at = "calling" /\ dev'[d].conn = k /\ dev'[d].secret = dev[d].secret
      /\ \A e \in Devices : e # d => dev'[e] = dev[e]
  <2>1. PICK old \in DevType, n \in 0..MaxTries : old = dev[d] /\ n = dev[d].tries + 1
    BY <1>1, <1>5
  <2> DEFINE new == [old EXCEPT !.at = "calling", !.conn = k, !.tries = n]
  <2>2. new = [old EXCEPT !.at = "calling", !.conn = k, !.tries = n]
    OBVIOUS
  <2>3. dev' = [dev EXCEPT ![d] = new]
    BY <1>2, <2>1
  <2> HIDE DEF new
  <2>4. new \in DevType /\ new.at = "calling" /\ new.conn = k /\ new.secret = old.secret
    BY <2>2 DEF DevType
  <2> QED
    BY <1>1, <2>1, <2>3, <2>4 DEF TypeOK
<1>9. HandlerOK(k)'
  BY <1>3, <1>7 DEF HandlerOK, StreamSteps, NodesSteps, HoldSteps
<1>10. DeviceOK(d)'
  BY <1>3, <1>7, <1>8 DEF DeviceOK
<1>11. \A e \in Devices : DeviceOK(e)'
  BY <1>2, <1>7, <1>8, <1>10, OtherDevices
<1> QED
  BY <1>1, <1>7, <1>8, <1>9, <1>11 DEF StepOK, Keeps

\* The handler of a device that gives up or reboots goes on for nobody.
LEMMA DeviceLeavesOK ==
  ASSUME IInv, NEW d \in Devices, AuthFails(d) \/ Reboot(d)
  PROVE  /\ HostOK /\ Keeps /\ UNCHANGED handler /\ dev' \in [Devices -> DevType]
         /\ \A e \in Devices : DeviceOK(e)'
<1>1. HostOK /\ TypeOK /\ dev[d] \in DevType /\ DeviceOK(d) /\ UNCHANGED handler
  BY SameHost DEF AuthFails, Reboot, IInv, TypeOK
<1>2. CASE AuthFails(d)
  <2>1. /\ dev' \in [Devices -> DevType] /\ dev'[d].at = "failed" /\ dev'[d].secret = dev[d].secret
        /\ dev'[d].conn = dev[d].conn /\ dev'[d].tries = dev[d].tries
        /\ \A e \in Devices : e # d => dev'[e] = dev[e]
    BY <1>1, <1>2 DEF AuthFails, TypeOK, DevType
  <2> QED
    BY <1>1, <2>1 DEF DeviceOK, IInv, Keeps
<1>3. CASE Reboot(d)
  <2>1. /\ dev' \in [Devices -> DevType] /\ dev'[d] = OffDev
        /\ \A e \in Devices : e # d => dev'[e] = dev[e]
    BY <1>1, <1>3, FreeType DEF Reboot, TypeOK
  <2>2. OffDev.at = "off" /\ OffDev.conn = None /\ OffDev.secret = None /\ OffDev.tries = 0
    BY DEF OffDev
  <2> QED
    BY <1>1, <2>1, <2>2 DEF DeviceOK, IInv, Keeps
<1> QED
  BY <1>1, <1>2, <1>3

LEMMA UserOK ==
  ASSUME IInv, NEW r \in Hosts, Register(r) \/ SetDesiredState(r)
  PROVE  HostOK
<1>1. CASE Register(r)
  <2>1. PICK u \in Devices \cup {None}, s \in Devices \cup {None}, des \in {"REGISTERED", "ONBOARDED"} :
          host' = [host EXCEPT ![r] = [uuid |-> u, sn |-> s, cur |-> "UNSPECIFIED",
                                       des |-> des, reg |-> "unknown"]]
    BY <1>1 DEF Register
  <2> DEFINE new == [uuid |-> u, sn |-> s, cur |-> "UNSPECIFIED", des |-> des, reg |-> "unknown"]
  <2>2. new \in HostType /\ new.cur # "ABSENT" /\ new.sn # NotAvailable
    BY NoneAssumption DEF HostType
  <2>3. host' = [host EXCEPT ![r] = new]
    BY <2>1
  <2> HIDE DEF new
  <2>4. ~Exists(r) /\ host[r].uuid = None /\ host[r].des \notin Approved
    BY <1>1, HostOf DEF Register
  <2>5. \A d \in Devices : ~Fits(r, d)
    BY <2>4, NoneAssumption DEF Fits
  <2> QED
    BY <2>2, <2>3, <2>4, <2>5, WriteOK
<1>2. CASE SetDesiredState(r)
  <2>1. PICK des \in {"ONBOARDED", "UNTRUSTED"} : host' = [host EXCEPT ![r].des = des]
    BY <1>2 DEF SetDesiredState
  <2> DEFINE new == [host[r] EXCEPT !.des = des]
  <2>2. host[r] \in HostType /\ Exists(r) /\ (host[r].sn = NotAvailable => host[r].uuid # None)
    BY <1>2, HostOf DEF SetDesiredState
  <2>3. /\ new \in HostType /\ new.uuid = host[r].uuid /\ new.sn = host[r].sn
        /\ new.cur = host[r].cur /\ new.des = des
    BY <2>2 DEF HostType
  <2>4. host' = [host EXCEPT ![r] = new]
    BY <2>1
  <2> HIDE DEF new
  <2>5. \A d \in Devices : Fits(r, d) => new.sn \in {None, SerialOf(d)}
    BY <2>3 DEF Fits
  <2> QED
    BY <2>2, <2>3, <2>4, <2>5, WriteOK DEF Exists, Approved
<1> QED
  BY <1>1, <1>2

-----------------------------------------------------------------------------
(* The theorems.                                                           *)

\* Faults and reboots are counted.
LEMMA BudgetStep == ASSUME TypeOK, [Next]_vars PROVE budget' \in [faults : Nat, reboots : Nat]
<1> DEFINE B == [faults : Nat, reboots : Nat]
<1>1. budget \in B
  BY DEF TypeOK
<1>2. Fault => budget' \in B
  BY <1>1 DEF Fault
<1>3. NoFault => budget' \in B
  BY <1>1 DEF NoFault
<1>4. ASSUME NEW k \in Handlers, HandlerStep(k) PROVE budget' \in B
  BY <1>1, <1>2, <1>3, <1>4
  DEF HandlerStep, LookupUuid, LookupSerial, SetUuid, SetError, WriteRegistered, FetchSecret,
      WriteOnboarded, StreamClosed, LookupNode, UpdateNode, CreateNode, StartZeroTouch,
      CreateInstance, FailedWrite, Write
<1>5. ASSUME NEW d \in Devices, Reboot(d) PROVE budget' \in B
  BY <1>1, <1>5 DEF Reboot
<1>6. CASE UNCHANGED budget
  BY <1>1, <1>6
<1> QED
  BY <1>4, <1>5, <1>6
  DEF Next, vars, ClientStep, OpenStream, Poll, CallCreateNodes, AuthFails, Register, SetDesiredState

\* A secret that was not there before is the one FetchSecret gives.
Secrets ==
  \A d \in Devices :
    \/ dev'[d].secret \in {None, dev[d].secret}
    \/ dev'[d].secret = d /\ \E r \in Hosts : Fits(r, d) /\ host[r].des \in Approved

LEMMA CredentialsStep ==
  ASSUME IInv, \A r \in Hosts : Evolves(r), Secrets
  PROVE  AuthorizedCredentials'
<1> SUFFICES ASSUME NEW d \in Devices, dev'[d].secret # None
             PROVE  /\ dev'[d].secret = d
                    /\ \E r \in Hosts : Fits(r, d)' /\ host'[r].des \in Approved
  BY DEF AuthorizedCredentials, Approved
<1>1. dev'[d].secret = d /\ \E r \in Hosts : Fits(r, d) /\ host[r].des \in Approved
  BY DEF IInv, AuthorizedCredentials, Approved, Secrets
<1> QED
  BY <1>1 DEF Evolves

LEMMA HandlerStepOK ==
  ASSUME IInv, NEW k \in Handlers, HandlerStep(k)
  PROVE  HostOK /\ StepOK(k) /\ Secrets /\ instance' \in SUBSET Hosts /\ clients' \in SUBSET Devices
<1>1. TypeOK
  BY DEF IInv
<1>2. CASE FetchSecret(k)
  <2>1. instance' \in SUBSET Hosts
    BY <1>1, <1>2 DEF FetchSecret, TypeOK
  <2> QED
    BY <1>2, <2>1, FetchSecretOK DEF Secrets
<1>3. CASE StartZeroTouch(k) \/ CreateInstance(k)
  <2>1. clients' \in SUBSET Devices
    BY <1>1, <1>3 DEF StartZeroTouch, CreateInstance, TypeOK
  <2> QED
    BY <1>3, <2>1, ZeroTouchOK DEF Keeps, Secrets
<1>4. CASE \/ LookupUuid(k) \/ LookupSerial(k) \/ SetUuid(k) \/ SetError(k) \/ WriteRegistered(k)
           \/ WriteOnboarded(k) \/ StreamClosed(k) \/ LookupNode(k) \/ UpdateNode(k) \/ CreateNode(k)
  <2>1. UNCHANGED <<instance, clients>>
    BY <1>4 DEF LookupUuid, LookupSerial, SetUuid, SetError, WriteRegistered, WriteOnboarded,
                StreamClosed, LookupNode, UpdateNode, CreateNode
  <2>2. HostOK /\ StepOK(k) /\ Keeps
    BY <1>4, LookupUuidOK, LookupSerialOK, SetUuidOK, SetErrorOK, WriteRegisteredOK, WriteOnboardedOK,
       StreamClosedOK, LookupNodeOK, UpdateNodeOK, CreateNodeOK
  <2> QED
    BY <1>1, <2>1, <2>2 DEF TypeOK, Keeps, Secrets
<1> QED
  BY <1>2, <1>3, <1>4 DEF HandlerStep

LEMMA NextStep ==
  ASSUME IInv, [Next]_vars
  PROVE  IInv' /\ \A r \in Hosts : Evolves(r)
<1>1. TypeOK /\ budget' \in [faults : Nat, reboots : Nat]
  BY BudgetStep DEF IInv
<1>2. ASSUME HostOK, Secrets, instance' \in SUBSET Hosts, clients' \in SUBSET Devices,
             handler' \in [Handlers -> HandlerType], dev' \in [Devices -> DevType],
             \A k \in Handlers : handler'[k] = handler[k] \/ HandlerOK(k)',
             \A d \in Devices : DeviceOK(d)'
      PROVE  IInv' /\ \A r \in Hosts : Evolves(r)
  <2>1. \A r \in Hosts : Evolves(r)
    BY <1>2 DEF HostOK
  <2>2. \A k \in Handlers : HandlerOK(k)'
    BY <1>2, <2>1, OtherHandlers
  <2>3. TypeOK' /\ HostInv'
    BY <1>1, <1>2 DEF HostOK, TypeOK
  <2> QED
    BY <1>2, <2>1, <2>2, <2>3, CredentialsStep DEF IInv
<1>3. ASSUME NEW k \in Handlers, HandlerStep(k) PROVE IInv' /\ \A r \in Hosts : Evolves(r)
  BY <1>2, <1>3, HandlerStepOK DEF StepOK
<1>4. ASSUME NEW d \in Devices, OpenStream(d) \/ ClientStep(d)
      PROVE  IInv' /\ \A r \in Hosts : Evolves(r)
  <2>1. HostOK /\ \E k \in Handlers : StepOK(k) /\ Keeps
    BY <1>4, OpenStreamOK, PollOK, CallCreateNodesOK DEF ClientStep
  <2>2. UNCHANGED <<instance, clients>>
    BY <1>4 DEF OpenStream, ClientStep, Poll, CallCreateNodes
  <2> QED
    BY <1>1, <1>2, <2>1, <2>2 DEF StepOK, Keeps, Secrets, TypeOK
<1>5. ASSUME NEW d \in Devices, AuthFails(d) \/ Reboot(d)
      PROVE  IInv' /\ \A r \in Hosts : Evolves(r)
  <2>1. UNCHANGED <<instance, clients>>
    BY <1>5 DEF AuthFails, Reboot
  <2> QED
    BY <1>1, <1>2, <1>5, <2>1, DeviceLeavesOK DEF Keeps, Secrets, TypeOK
<1>6. ASSUME HostOK, UNCHANGED <<instance, clients, handler, dev>>
      PROVE  IInv' /\ \A r \in Hosts : Evolves(r)
  <2>1. \A d \in Devices : DeviceOK(d)'
    BY <1>6 DEF IInv, DeviceOK
  <2> QED
    BY <1>1, <1>2, <1>6, <2>1 DEF Secrets, TypeOK
<1>7. ASSUME NEW r \in Hosts, Register(r) \/ SetDesiredState(r)
      PROVE  IInv' /\ \A x \in Hosts : Evolves(x)
  BY <1>6, <1>7, UserOK DEF Register, SetDesiredState
<1>8. CASE UNCHANGED vars
  BY <1>6, <1>8, SameHost DEF vars
<1> QED
  BY <1>3, <1>4, <1>5, <1>7, <1>8 DEF Next

LEMMA Initially == Init => IInv
<1> SUFFICES ASSUME Init PROVE IInv
  OBVIOUS
<1>1. TypeOK
  BY FreeType DEF Init, TypeOK
<1>2. HostInv
  BY NoneAssumption DEF Init, HostInv, Exists, NoHost, Approved
<1>3. AuthorizedCredentials
  BY DEF Init, AuthorizedCredentials, OffDev
<1>4. \A k \in Handlers : HandlerOK(k)
  BY DEF Init, HandlerOK, FreeHandler, StreamSteps, NodesSteps, HoldSteps
<1>5. \A d \in Devices : DeviceOK(d)
  BY DEF Init, DeviceOK, OffDev
<1> QED
  BY <1>1, <1>2, <1>3, <1>4, <1>5 DEF IInv

\* The inductive invariant: the hosts, what every handler remembers of them between two
\* of its calls, and what every device has been given.
THEOREM Inductive == Spec => []IInv
<1>1. IInv /\ [Next]_vars => IInv'
  BY NextStep
<1> QED
  BY <1>1, Initially, PTL DEF Spec

\* The state of the servers, of Inventory and Keycloak and of the devices has its
\* types; a device attempts CreateNodes at most MaxTries times.
THEOREM TypesHold == Spec => []TypeOK
<1>1. IInv => TypeOK
  BY DEF IInv
<1> QED
  BY <1>1, Inductive, PTL

\* A device has no secret but its own, and only if a host that fits it was approved,
\* however the handlers, the user and the reboots interleave (getHostResource,
\* handleOnboardedState).
THEOREM OnlyApprovedGetCredentials == Spec => []AuthorizedCredentials
<1>1. IInv => AuthorizedCredentials
  BY DEF IInv
<1> QED
  BY <1>1, Inductive, PTL

\* No handler overwrites a UUID, although it fills one in from a copy it read
\* earlier (UpdateHostResource in getHostResource).
THEOREM UuidsStay == Spec => UuidNeverChanges
<1>1. IInv /\ [Next]_vars => [\A r \in Hosts : host[r].uuid # None => host'[r].uuid = host[r].uuid]_vars
  BY NextStep DEF Evolves
<1> QED
  BY <1>1, Inductive, PTL DEF Spec, UuidNeverChanges

\* What any step does to a host: it stays, and so do its UUID, its approval and the
\* device it fits; a host without a UUID can only be given the one that belongs to
\* its serial number (getHostResource, UpdateHostResource, CreateNodes).
THEOREM HostsEvolve == Spec => [][\A r \in Hosts : Evolves(r)]_vars
<1>1. IInv /\ [Next]_vars => [\A r \in Hosts : Evolves(r)]_vars
  BY NextStep
<1> QED
  BY <1>1, Inductive, PTL DEF Spec

=============================================================================
