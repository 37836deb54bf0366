------------------------ MODULE ProvisionActions_proofs ------------------------
(***************************************************************************)
(* Theorems about ProvisionActions, for any drives, any names of them, any *)
(* templates and firewall rules, and any number of failures.               *)
(***************************************************************************)
EXTENDS ProvisionActions, SequenceTheorems, WellFoundedInduction, TLAPS

-----------------------------------------------------------------------------
(* What the choice of a drive depends on.                                  *)

\* The kernel names no two drives alike.
Named(S) == \A a, b \in S : a.name = b.name => a = b

\* Less orders the drives of a machine strictly, so that sort.Sort, which is not
\* stable, leaves nothing to chance (byPriorityAndSize).
THEOREM LessIsStrictOrder ==
  ASSUME NEW S \in SUBSET DriveInfo, Named(S)
  PROVE  /\ \A a \in S : ~Less(a, a)
         /\ \A a, b \in S : a # b => (Less(a, b) <=> ~Less(b, a))
         /\ \A a, b, c \in S : Less(a, b) /\ Less(b, c) => Less(a, c)
<1>1. \A a \in S : a.rank \in Nat /\ a.size \in Nat /\ a.name \in Nat
  BY DEF DriveInfo
<1>2. \A a \in S : ~Less(a, a)
  BY <1>1 DEF Less
<1>3. ASSUME NEW a \in S, NEW b \in S, a # b
      PROVE  Less(a, b) <=> ~Less(b, a)
  <2>1. a.name # b.name
    BY <1>3 DEF Named
  <2> QED
    BY <1>1, <2>1 DEF Less
<1>4. ASSUME NEW a \in S, NEW b \in S, NEW c \in S, Less(a, b), Less(b, c)
      PROVE  Less(a, c)
  BY <1>1, <1>4 DEF Less
<1> QED
  BY <1>2, <1>3, <1>4

\* One drive at most comes first: the choice does not depend on the order in
\* which lsblk lists the drives (DriveDetection).
THEOREM FirstIsUnique ==
  ASSUME NEW S \in SUBSET DriveInfo, Named(S),
         NEW a, NEW b, IsFirst(a, S), IsFirst(b, S)
  PROVE  a = b
<1>1. SUFFICES ASSUME a # b PROVE FALSE
  OBVIOUS
<1>2. a \in S /\ b \in S /\ Less(a, b) /\ Less(b, a)
  BY <1>1 DEF IsFirst
<1> QED
  BY <1>1, <1>2, LessIsStrictOrder

LEMMA LeastNat ==
  ASSUME NEW T \in SUBSET Nat, T # {}
  PROVE  \E n \in T : \A m \in T : n <= m
<1> DEFINE R == OpToRel(<, Nat)
<1>1. IsWellFoundedOn(R, Nat)
  BY NatLessThanWellFounded
<1>2. \A m, n \in Nat : m < n => <<m, n>> \in R
  BY DEF OpToRel
<1> HIDE DEF R
<1>3. PICK n \in T : \A m \in T : <<m, n>> \notin R
  BY <1>1, WFMin
<1>4. ASSUME NEW m \in T PROVE n <= m
  <2>1. m \in Nat /\ n \in Nat /\ ~(m < n)
    BY <1>2, <1>3
  <2> QED
    BY <2>1
<1> QED
  BY <1>4

\* Of some drives one comes first, however many there are: sorting finds it.
THEOREM FirstExists ==
  ASSUME NEW S \in SUBSET DriveInfo, S # {}, Named(S)
  PROVE  \E a \in S : IsFirst(a, S)
<1>1. \A a \in S : a.rank \in Nat /\ a.size \in Nat /\ a.name \in Nat
  BY DEF DriveInfo
<1> DEFINE Ranks == {a.rank : a \in S}
<1>2. PICK r \in Ranks : \A q \in Ranks : r <= q
  BY <1>1, LeastNat
<1> DEFINE SR == {a \in S : a.rank = r}
           Sizes == {a.size : a \in SR}
<1>3. PICK s \in Sizes : \A q \in Sizes : s <= q
  <2>1. Sizes \in SUBSET Nat /\ Sizes # {}
    BY <1>1, <1>2
  <2> QED
    BY <2>1, LeastNat
<1> DEFINE SS == {a \in SR : a.size = s}
           Names == {a.name : a \in SS}
<1>4. PICK n \in Names : \A q \in Names : n <= q
  <2>1. Names \in SUBSET Nat /\ Names # {}
    BY <1>1, <1>3
  <2> QED
    BY <2>1, LeastNat
<1>5. PICK a \in SS : a.name = n
  BY <1>4
<1>6. ASSUME NEW b \in S, b # a PROVE Less(a, b)
  <2>1. a \in S /\ a.rank = r /\ a.size = s /\ a.name = n
    BY <1>5
  <2>2. r <= b.rank
    BY <1>2
  <2>3. b.rank = r => s <= b.size
    BY <1>3
  <2>4. b.rank = r /\ b.size = s => n <= b.name
    BY <1>4
  <2>5. b.name # n
    BY <1>6, <2>1 DEF Named
  <2> QED
    BY <1>1, <2>1, <2>2, <2>3, <2>4, <2>5 DEF Less
<1> QED
  BY <1>5, <1>6 DEF IsFirst

\* Two actions that list different drives choose the same one, as long as it is
\* there for both and none that comes before it has been added (DriveDetection).
THEOREM ChoiceIsStable ==
  ASSUME NEW S \in SUBSET DriveInfo, NEW T \in SUBSET DriveInfo, Named(S), Named(T),
         NEW a \in S \cap T, IsFirst(a, filterDrives(S)),
         \A b \in filterDrives(T) \ filterDrives(S) : Less(a, b)
  PROVE  DriveDetect(S) = DriveDetect(T)
<1> DEFINE FS == filterDrives(S)
           FT == filterDrives(T)
<1>1. FS \in SUBSET DriveInfo /\ FT \in SUBSET DriveInfo /\ Named(FS) /\ Named(FT)
  BY DEF filterDrives, Named
<1>2. IsFirst(a, FS) /\ IsFirst(a, FT)
  BY DEF IsFirst, filterDrives
<1>3. ASSUME NEW F, F \in {FS, FT}
      PROVE  (CHOOSE b \in F : IsFirst(b, F)) = a
  <2>1. IsFirst(a, F) /\ a \in F
    BY <1>2, <1>3 DEF IsFirst
  <2>2. PICK c \in F : IsFirst(c, F) /\ c = (CHOOSE b \in F : IsFirst(b, F))
    BY <2>1
  <2>3. c = a
    BY <1>1, <1>3, <2>1, <2>2, FirstIsUnique
  <2> QED
    BY <2>2, <2>3
<1>4. FS # {} /\ FT # {}
  BY <1>2 DEF IsFirst
<1>5. DriveDetect(S) = a.name
  <2>1. (CHOOSE b \in FS : IsFirst(b, FS)) = a
    BY <1>3
  <2> QED
    BY <1>4, <2>1 DEF DriveDetect
<1>6. DriveDetect(T) = a.name
  <2>1. (CHOOSE b \in FT : IsFirst(b, FT)) = a
    BY <1>3
  <2> QED
    BY <1>4, <2>1 DEF DriveDetect
<1> QED
  BY <1>5, <1>6

-----------------------------------------------------------------------------
(* The commands of the two firewalls.                                      *)

\* A clear rule is one that both back ends carry out as it is written.
LEMMA ClearRule ==
  ASSUME NEW r \in FirewallRule, Clear(r), NEW p \in Packet
  PROVE  /\ (\E c \in GenerateUFWCommands(r) : UfwTakes(c) /\ Matches(c, p)) <=> Matches(r, p)
         /\ (\E c \in GenerateIptablesCommands(r) : Matches(c, p)) <=> Matches(r, p)
<1>1. GenerateUFWCommands(r) = {r} /\ UfwTakes(r)
  BY DEF GenerateUFWCommands, Clear
<1>2. (\E c \in GenerateUFWCommands(r) : UfwTakes(c) /\ Matches(c, p)) <=> Matches(r, p)
  BY <1>1
<1> DEFINE ports == IF r.ports = {} THEN {{}} ELSE {{n} : n \in r.ports}
           protos == IF r.proto = {} THEN {{"tcp"}, {"udp"}} ELSE {r.proto}
           Cmd(n, t) == [from |-> r.from, ports |-> n, proto |-> t]
<1>3. GenerateIptablesCommands(r) = {Cmd(n, t) : n \in ports, t \in protos}
  BY DEF GenerateIptablesCommands, Clear
<1>4. p.proto \in {"tcp", "udp"}
  BY DEF Packet, Protocols
<1>5. ASSUME Matches(r, p)
      PROVE  \E c \in GenerateIptablesCommands(r) : Matches(c, p)
  <2>1. PICK n \in ports : n = {} \/ p.port \in n
    <3>1. CASE r.ports = {}
      BY <3>1
    <3>2. CASE r.ports # {}
      BY <1>5, <3>2 DEF Matches
    <3> QED
      BY <3>1, <3>2
  <2>2. PICK t \in protos : p.proto \in t
    <3>1. CASE r.proto = {}
      BY <1>4, <3>1
    <3>2. CASE r.proto # {}
      BY <1>5, <3>2 DEF Matches
    <3> QED
      BY <3>1, <3>2
  <2>3. r.from = {} \/ p.from \in r.from
    BY <1>5 DEF Matches
  <2>4. Matches(Cmd(n, t), p)
    BY <2>1, <2>2, <2>3 DEF Matches
  <2> QED
    BY <1>3, <2>4
<1>6. ASSUME NEW c \in GenerateIptablesCommands(r), Matches(c, p)
      PROVE  Matches(r, p)
  <2>1. PICK n \in ports, t \in protos : c = Cmd(n, t)
    BY <1>3
  <2>2. r.from = {} \/ p.from \in r.from
    BY <1>6, <2>1 DEF Matches
  <2>3. r.ports = {} \/ p.port \in r.ports
    BY <1>6, <2>1 DEF Matches
  <2>4. r.proto = {} \/ p.proto \in r.proto
    BY <1>6, <2>1 DEF Matches
  <2> QED
    BY <2>2, <2>3, <2>4 DEF Matches
<1> QED
  BY <1>2, <1>5, <1>6

\* Both kinds of system let in the same packets, for every list of clear rules
\* (GenerateUFWCommands, GenerateIptablesCommands).
THEOREM SameTraffic ==
  ASSUME NEW rules \in SUBSET FirewallRule, \A r \in rules : Clear(r), NEW p \in Packet
  PROVE  UfwAdmits(rules, p) <=> IptablesAdmits(rules, p)
BY ClearRule DEF UfwAdmits, IptablesAdmits

\* The converse for a single rule: whenever the two differ, no source and no port
\* is given, or several ports without a protocol, and both cases do differ.
THEOREM UnclearRuleDiffers ==
  ASSUME NEW r \in FirewallRule, ~Clear(r), r.proto # {} \/ r.ports # {}, Hosts # {}, Ports # {}
  PROVE  \E p \in Packet : ~UfwAdmits({r}, p) /\ IptablesAdmits({r}, p)
<1>1. PICK h \in Hosts : r.from = {} \/ h \in r.from
  BY DEF FirewallRule
<1>2. PICK n \in Ports : r.ports = {} \/ n \in r.ports
  BY DEF FirewallRule
<1>3. PICK t \in Protocols : r.proto = {} \/ t \in r.proto
  BY DEF FirewallRule, Protocols
<1> DEFINE p == [from |-> h, port |-> n, proto |-> t]
           c == [from |-> r.from, ports |-> IF r.ports = {} THEN {} ELSE {n},
                 proto |-> IF r.proto = {} THEN {t} ELSE r.proto]
<1>4. p \in Packet
  BY DEF Packet
<1>5. c \in GenerateIptablesCommands(r) /\ Matches(c, p)
  <2>1. Matches(c, p)
    BY <1>1, <1>2, <1>3 DEF Matches
  <2>2. ~(r.from = {} /\ r.ports = {} /\ r.proto = {})
    OBVIOUS
  <2> DEFINE ports == IF r.ports = {} THEN {{}} ELSE {{m} : m \in r.ports}
             protos == IF r.proto = {} THEN {{"tcp"}, {"udp"}} ELSE {r.proto}
  <2>3. (IF r.ports = {} THEN {} ELSE {n}) \in ports
    BY <1>2
  <2>4. (IF r.proto = {} THEN {t} ELSE r.proto) \in protos
    BY <1>3 DEF Protocols
  <2> QED
    BY <2>1, <2>2, <2>3, <2>4 DEF GenerateIptablesCommands
<1>6. ~UfwAdmits({r}, p)
  BY DEF UfwAdmits, GenerateUFWCommands, Clear, UfwTakes
<1> QED
  BY <1>4, <1>5, <1>6 DEF IptablesAdmits

-----------------------------------------------------------------------------
(* The parts of the type invariant.                                        *)

WfOK ==
  /\ wf \in [tmpl : Templates, stream : {"image2disk", "qemu"}, cur : Nat \ {0},
             st : {"none", "running", "failed", "success", "left"}]
  /\ wf.cur <= Len(Tasks(wf.tmpl))
DiskOK == disk \in [Drives -> DiskType]

\* The tasks of a template: what writes a file or runs a command names its file.
Kinds == {"securebootflag", "erase", "stream", "writefile", "cexec", "kernelupgrade", "security",
          "efibootset", "reboot"}
TaskType ==
  {k \in [kind : Kinds, file : Files \cup {"none"}, resolv : BOOLEAN] :
     k.kind \in {"writefile", "cexec"} => k.file \in Files}

LEMMA ScriptType == ASSUME NEW k \in Kinds \ {"writefile", "cexec"} PROVE Script(k) \in TaskType
BY DEF Script, TaskType, Kinds
LEMMA WriteType == ASSUME NEW f \in Files PROVE Write(f) \in TaskType
BY DEF Write, TaskType, Kinds
LEMMA ExecType == ASSUME NEW f \in Files, NEW r \in BOOLEAN PROVE Exec(f, r) \in TaskType
BY DEF Exec, TaskType, Kinds

LEMMA SevenTasks ==
  ASSUME NEW S, NEW a \in S, NEW b \in S, NEW c \in S, NEW d \in S, NEW e \in S, NEW f \in S,
         NEW g \in S
  PROVE  <<a, b, c, d, e, f, g>> \in Seq(S)
OBVIOUS

\* A template is a list of tasks, and never an empty one.
LEMMA TasksType ==
  ASSUME NEW t \in Templates
  PROVE  Tasks(t) \in Seq(TaskType) /\ Len(Tasks(t)) \in Nat \ {0}
<1>1. t.custom \in BOOLEAN /\ t.standalone \in BOOLEAN
  BY TemplatesAssumption
<1>2. /\ Script("securebootflag") \in TaskType /\ Script("erase") \in TaskType
      /\ Script("stream") \in TaskType /\ Script("kernelupgrade") \in TaskType
      /\ Script("efibootset") \in TaskType /\ Script("reboot") \in TaskType
      /\ Script("security") \in TaskType
  BY ScriptType DEF Kinds
<1>3. /\ Write("apt.conf") \in TaskType /\ Write("99_infra.cfg") \in TaskType
      /\ Write("custom.cfg") \in TaskType /\ Write("ds-identify.cfg") \in TaskType
      /\ Write("installer.sh") \in TaskType /\ Write("service") \in TaskType
  BY WriteType DEF Files
<1>4. /\ Exec("split", FALSE) \in TaskType /\ Exec("split", t.standalone) \in TaskType
      /\ Exec("system-configuration", FALSE) \in TaskType
  BY <1>1, ExecType DEF Files
<1>5. ASSUME NEW r \in BOOLEAN
      PROVE  (IF t.custom THEN <<Write("custom.cfg"), Exec("split", r)>> ELSE <<>>) \in Seq(TaskType)
  BY <1>3, ExecType DEF Files
<1>6. UbuntuActions(t) \in Seq(TaskType) /\ Len(UbuntuActions(t)) # 0
  <2> DEFINE a == <<Script("securebootflag"), Script("erase"), Script("stream"),
                    Write("apt.conf"), Write("99_infra.cfg")>>
             b == IF t.custom THEN <<Write("custom.cfg"), Exec("split", FALSE)>> ELSE <<>>
             c == <<Write("ds-identify.cfg"), Write("installer.sh"), Write("service"),
                    Exec("system-configuration", FALSE), Script("kernelupgrade"),
                    Script("efibootset"), Script("reboot")>>
  <2>1. a \in Seq(TaskType) /\ Len(a) = 5
    BY <1>2, <1>3
  <2>2. b \in Seq(TaskType)
    BY <1>5
  <2>3. c \in Seq(TaskType)
    BY <1>2, <1>3, <1>4, SevenTasks, Zenon
  <2>4. UbuntuActions(t) = a \o b \o c
    BY DEF UbuntuActions
  <2> HIDE DEF a, b, c
  <2> QED
    BY <2>1, <2>2, <2>3, <2>4, ConcatProperties, LenProperties
<1>7. MicrovisorActions(t) \in Seq(TaskType) /\ Len(MicrovisorActions(t)) # 0
  <2> DEFINE a == <<Script("securebootflag"), Script("erase"), Script("stream"), Write("99_infra.cfg")>>
             b == IF t.custom THEN <<Write("custom.cfg"), Exec("split", t.standalone)>> ELSE <<>>
             c == <<Write("ds-identify.cfg"), Script("security"), Script("efibootset"), Script("reboot")>>
  <2>1. a \in Seq(TaskType) /\ Len(a) = 4
    BY <1>2, <1>3
  <2>2. b \in Seq(TaskType)
    BY <1>1, <1>5
  <2>3. c \in Seq(TaskType)
    BY <1>2, <1>3
  <2>4. MicrovisorActions(t) = a \o b \o c
    BY DEF MicrovisorActions
  <2> HIDE DEF a, b, c
  <2> QED
    BY <2>1, <2>2, <2>3, <2>4, ConcatProperties, LenProperties
<1> QED
  BY <1>6, <1>7, LenProperties DEF Tasks

LEMMA TaskAtHand == ASSUME WfOK PROVE Task \in TaskType
<1>1. wf.tmpl \in Templates /\ wf.cur \in Nat \ {0} /\ wf.cur <= Len(Tasks(wf.tmpl))
  BY DEF WfOK
<1>2. wf.cur \in 1..Len(Tasks(wf.tmpl))
  BY <1>1, TasksType
<1> QED
  BY <1>1, <1>2, TasksType, ElementOfSeq DEF Task

-----------------------------------------------------------------------------
(* The workflow.                                                           *)

LEMMA WfCases ==
  ASSUME WfOK, UNCHANGED wf \/ Failed \/ Done
  PROVE  WfOK'
<1>1. CASE UNCHANGED wf
  BY <1>1 DEF WfOK
<1>2. ASSUME NEW st \in {"failed", "success", "left"}, wf' = [wf EXCEPT !.st = st] PROVE WfOK'
  <2>1. wf'.tmpl = wf.tmpl /\ wf'.cur = wf.cur
    BY <1>2 DEF WfOK
  <2>2. wf' \in [tmpl : Templates, stream : {"image2disk", "qemu"}, cur : Nat \ {0},
                 st : {"none", "running", "failed", "success", "left"}]
    BY <1>2 DEF WfOK
  <2> QED
    BY <2>1, <2>2 DEF WfOK
<1>3. ASSUME wf.cur # Len(Tasks(wf.tmpl)), wf' = [wf EXCEPT !.cur = wf.cur + 1] PROVE WfOK'
  <2>1. wf'.tmpl = wf.tmpl /\ wf'.cur = wf.cur + 1 /\ wf.cur \in Nat \ {0}
        /\ wf.tmpl \in Templates /\ wf.cur <= Len(Tasks(wf.tmpl))
    BY <1>3 DEF WfOK
  <2>2. wf' \in [tmpl : Templates, stream : {"image2disk", "qemu"}, cur : Nat \ {0},
                 st : {"none", "running", "failed", "success", "left"}]
    BY <1>3 DEF WfOK
  <2>3. wf'.cur <= Len(Tasks(wf'.tmpl))
    BY <1>3, <2>1, TasksType
  <2> QED
    BY <2>2, <2>3 DEF WfOK
<1> QED
  BY <1>1, <1>2, <1>3 DEF Failed, Done

LEMMA WfStep == TypeOK /\ [Next]_vars => WfOK'
<1> SUFFICES ASSUME TypeOK, [Next]_vars PROVE WfOK'
  OBVIOUS
<1>0. WfOK
  BY DEF TypeOK, WfOK
<1>1. ASSUME UNCHANGED wf \/ Failed \/ Done PROVE WfOK'
  BY <1>0, <1>1, WfCases
<1>2. ASSUME Again PROVE WfOK'
  BY <1>1, <1>2 DEF Again
<1>3. ASSUME GenerateWorkflowInputs PROVE WfOK'
  <2>1. CASE UNCHANGED wf
    BY <1>1, <2>1
  <2>2. ASSUME NEW s \in {"image2disk", "qemu"}, wf' = [wf EXCEPT !.stream = s, !.st = "running"]
        PROVE  WfOK'
    <3>1. wf'.tmpl = wf.tmpl /\ wf'.cur = wf.cur
      BY <1>0, <2>2 DEF WfOK
    <3>2. wf' \in [tmpl : Templates, stream : {"image2disk", "qemu"}, cur : Nat \ {0},
                   st : {"none", "running", "failed", "success", "left"}]
      BY <1>0, <2>2 DEF WfOK
    <3> QED
      BY <1>0, <3>1, <3>2 DEF WfOK
  <2>3. \A f : StreamAction(f) \in {"image2disk", "qemu"}
    BY DEF StreamAction
  <2> QED
    BY <1>3, <2>1, <2>2, <2>3 DEF GenerateWorkflowInputs
<1>4. ASSUME ImageToDiskStep PROVE WfOK'
  BY <1>1, <1>2, <1>4
  DEF ImageToDiskStep, Image2Disk, ChooseDrive, GetToDrive, Answer, findDecompressor, CopyToDrive,
      SyncDrive, CompareHash, Goto, Bodies
<1>5. ASSUME QemuStep PROVE WfOK'
  BY <1>1, <1>2, <1>5
  DEF QemuStep, QemuNbdImage2Disk, ChooseDrive, GetToFile, Answer, createDecompressor, SaveImage,
      VerifyImage, AttachImage, WaitForPartition, DD, Reprobe, Goto, Bodies
<1>6. ASSUME FileStep PROVE WfOK'
  BY <1>1, <1>6 DEF FileStep, MountForFile, MountRoot, WriteFile
<1>7. ASSUME CommandStep PROVE WfOK'
  BY <1>1, <1>7
  DEF CommandStep, MountForCommand, MountRoot, BackupFile, CreateResolv, MountSpecialDirs, Chroot,
      RunCommand, LeaveChroot, UmountSpecialDirs, AfterUmount, RestoreFile, Returns, Unwind, Goto
<1>8. ASSUME ScriptStep PROVE WfOK'
  BY <1>1, <1>8
  DEF ScriptStep, SecureBootFlag, Eject, ListDisks, WipeDisk, Partprobe, PartitionDisk,
      UpgradeKernel, EnableSecurity, Efibootset, Reboot
<1>9. ASSUME PowerCycle PROVE WfOK'
  <2>1. CASE wf' = [wf EXCEPT !.st = "left"]
    <3>1. wf'.tmpl = wf.tmpl /\ wf'.cur = wf.cur
      BY <1>0, <2>1 DEF WfOK
    <3>2. wf' \in [tmpl : Templates, stream : {"image2disk", "qemu"}, cur : Nat \ {0},
                   st : {"none", "running", "failed", "success", "left"}]
      BY <1>0, <2>1 DEF WfOK
    <3> QED
      BY <1>0, <3>1, <3>2 DEF WfOK
  <2> QED
    BY <1>1, <1>9, <2>1 DEF PowerCycle
<1> QED
  BY <1>1, <1>3, <1>4, <1>5, <1>6, <1>7, <1>8, <1>9 DEF Next, Timeout, Attach, vars

-----------------------------------------------------------------------------
(* The running action.                                                     *)

LEMMA NewOpType == NewOp \in OpType /\ NewOp.at = "start"
BY BoundsAssumption DEF NewOp, OpType, Steps, Bodies

\* Failed and Done clear it, Goto and Unwind move it on.
LEMMA OpCases ==
  ASSUME op \in OpType, UNCHANGED op \/ Failed \/ Done \/ \E step \in Steps : Goto(step) \/ Unwind(step)
  PROVE  op' \in OpType
BY NewOpType DEF Failed, Done, Goto, Unwind, OpType

LEMMA AgainType == ASSUME op \in OpType, Again PROVE op' \in OpType
<1>1. CASE Failed
  BY <1>1, NewOpType DEF Failed
<1>2. ASSUME op.tries < MaxTries,
             op' = [NewOp EXCEPT !.at = "get", !.drive = op.drive, !.tries = op.tries + 1]
      PROVE  op' \in OpType
  <2>1. op.tries + 1 \in 0..MaxTries /\ op.drive \in Drives \cup {NoDrive} /\ "get" \in Steps
    BY <1>2, BoundsAssumption DEF OpType, Steps
  <2> DEFINE n == op.tries + 1
             d == op.drive
  <2>2. op' = [NewOp EXCEPT !.at = "get", !.drive = d, !.tries = n]
    BY <1>2
  <2> HIDE DEF n, d
  <2> QED
    BY <2>1, <2>2, NewOpType DEF n, d, OpType
<1> QED
  BY <1>1, <1>2 DEF Again

LEMMA OpStep == TypeOK /\ [Next]_vars => op' \in OpType
<1> SUFFICES ASSUME TypeOK, [Next]_vars PROVE op' \in OpType
  OBVIOUS
<1>0. op \in OpType /\ present \subseteq Drives
  BY DEF TypeOK
<1>1. ASSUME UNCHANGED op \/ Failed \/ Done \/ \E step \in Steps : Goto(step) \/ Unwind(step)
      PROVE  op' \in OpType
  BY <1>0, <1>1, OpCases
<1>2. ASSUME Again PROVE op' \in OpType
  BY <1>0, <1>2, AgainType
<1>3. ASSUME NEW step \in Steps, NEW d \in Drives, op' = [op EXCEPT !.at = step, !.drive = d]
      PROVE  op' \in OpType
  BY <1>0, <1>3 DEF OpType
<1>4. ASSUME NEW step \in Steps, NEW b \in Bodies, op' = [op EXCEPT !.at = step, !.body = b]
      PROVE  op' \in OpType
  BY <1>0, <1>4 DEF OpType
<1>5. ASSUME NEW step \in Steps, NEW b \in BOOLEAN,
             op' = [op EXCEPT !.at = step, !.bound = b] \/ op' = [op EXCEPT !.at = step, !.ok = b]
      PROVE  op' \in OpType
  BY <1>0, <1>5 DEF OpType
<1>6. Chosen \subseteq Drives
  BY <1>0 DEF Chosen
<1>7. ASSUME ChooseDrive PROVE op' \in OpType
  BY <1>1, <1>3, <1>6, <1>7 DEF ChooseDrive, Steps
<1>8. ASSUME ImageToDiskStep PROVE op' \in OpType
  <2>1. ASSUME GetToDrive PROVE op' \in OpType
    BY <1>2, <1>4, <2>1 DEF GetToDrive, Answer, Steps
  <2> QED
    BY <1>1, <1>2, <1>7, <1>8, <2>1
    DEF ImageToDiskStep, Image2Disk, findDecompressor, CopyToDrive, SyncDrive, CompareHash, Steps
<1>9. ASSUME QemuStep PROVE op' \in OpType
  <2>1. ASSUME GetToFile PROVE op' \in OpType
    BY <1>2, <1>4, <2>1 DEF GetToFile, Answer, Steps
  <2> QED
    BY <1>1, <1>2, <1>7, <1>9, <2>1
    DEF QemuStep, QemuNbdImage2Disk, createDecompressor, SaveImage, VerifyImage, AttachImage,
        WaitForPartition, DD, Reprobe, Steps
<1>10. ASSUME NEW kind, NEW step \in Steps, MountRoot(kind, step) PROVE op' \in OpType
  BY <1>1, <1>3, <1>6, <1>10 DEF MountRoot
<1>11. ASSUME FileStep PROVE op' \in OpType
  BY <1>1, <1>10, <1>11 DEF FileStep, MountForFile, WriteFile, Steps
<1>12. ASSUME CommandStep PROVE op' \in OpType
  <2>1. ASSUME NEW ok, Returns(ok) PROVE op' \in OpType
    BY <1>1, <2>1 DEF Returns
  <2>2. CASE MountForCommand
    BY <1>10, <2>2 DEF MountForCommand, Steps
  <2>3. CASE BackupFile \/ CreateResolv \/ Chroot
    BY <1>1, <2>3 DEF BackupFile, CreateResolv, Chroot, Steps
  <2>4. CASE MountSpecialDirs
    <3>1. WfOK
      BY DEF TypeOK, WfOK
    <3>2. Task.resolv \in BOOLEAN
      BY <3>1, TaskAtHand DEF TaskType
    <3> QED
      BY <1>1, <1>5, <2>4, <3>2 DEF MountSpecialDirs, Steps
  <2>5. CASE RunCommand
    <3>1. Masked \in BOOLEAN
      BY DEF Masked
    <3> QED
      BY <1>5, <2>5, <3>1 DEF RunCommand, Steps
  <2>6. CASE LeaveChroot \/ RestoreFile
    BY <1>1, <2>1, <2>6 DEF LeaveChroot, RestoreFile, Steps
  <2>7. CASE UmountSpecialDirs
    <3>1. op.bound \in BOOLEAN
      BY <1>0 DEF OpType
    <3> QED
      BY <1>5, <2>1, <2>7, <3>1 DEF UmountSpecialDirs, AfterUmount, Steps
  <2> QED
    BY <1>12, <2>2, <2>3, <2>4, <2>5, <2>6, <2>7 DEF CommandStep
<1>13. ASSUME ScriptStep PROVE op' \in OpType
  <2>1. ASSUME ListDisks PROVE op' \in OpType
    BY <1>0, <2>1 DEF ListDisks, OpType, Steps
  <2>2. ASSUME WipeDisk PROVE op' \in OpType
    <3>1. CASE Failed
      BY <1>1, <3>1
    <3>2. ASSUME NEW d, op' = [op EXCEPT !.left = op.left \ {d}] PROVE op' \in OpType
      BY <1>0, <3>2 DEF OpType
    <3> QED
      BY <2>2, <3>1, <3>2 DEF WipeDisk
  <2>3. ASSUME PartitionDisk PROVE op' \in OpType
    BY <1>0, <1>1, <1>3, <2>3 DEF PartitionDisk, Steps
  <2> QED
    BY <1>1, <1>13, <2>1, <2>2, <2>3
    DEF ScriptStep, SecureBootFlag, Eject, Partprobe, UpgradeKernel, EnableSecurity, Efibootset,
        Reboot
<1>14. ASSUME PowerCycle PROVE op' \in OpType
  BY <1>14, NewOpType DEF PowerCycle
<1> QED
  BY <1>1, <1>8, <1>9, <1>11, <1>12, <1>13, <1>14
  DEF Next, GenerateWorkflowInputs, Timeout, Attach, vars

-----------------------------------------------------------------------------
(* The disks.                                                              *)

SysType == {"blank", "old", "scrap", "part", "image"}

LEMMA NewDiskType ==
  ASSUME NEW sys \in SysType, NEW known \in BOOLEAN
  PROVE  Disk(sys, known) \in DiskType
BY DEF Disk, DiskType, SysType, Resolvs

LEMMA DiskAt ==
  ASSUME DiskOK, NEW d, NEW v, d \in Drives => v \in DiskType, disk' = [disk EXCEPT ![d] = v]
  PROVE  DiskOK'
BY DEF DiskOK

LEMMA SysOK ==
  ASSUME DiskOK, NEW d, NEW sys \in SysType, NEW known, d \in Drives => known \in BOOLEAN,
         Sys(d, sys, known)
  PROVE  DiskOK'
BY NewDiskType, DiskAt DEF Sys

LEMMA FilesOK ==
  ASSUME DiskOK, NEW d, NEW F, d \in Drives => F \subseteq Files,
         disk' = [disk EXCEPT ![d].files = F]
  PROVE  DiskOK'
<1> DEFINE v == [disk[d] EXCEPT !.files = F]
<1>1. d \in Drives => v \in DiskType
  BY DEF DiskOK, DiskType
<1>2. disk' = [disk EXCEPT ![d] = v]
  OBVIOUS
<1> HIDE DEF v
<1> QED
  BY <1>1, <1>2, DiskAt

LEMMA ResolvOK ==
  ASSUME DiskOK, NEW d, NEW r, NEW b, d \in Drives => r \in Resolvs /\ b \in Resolvs,
         disk' = [disk EXCEPT ![d].resolv = r, ![d].backup = b]
           \/ disk' = [disk EXCEPT ![d].backup = b, ![d].resolv = r]
           \/ disk' = [disk EXCEPT ![d].resolv = r]
  PROVE  DiskOK'
<1>1. CASE d \notin Drives
  BY <1>1 DEF DiskOK
<1>2. CASE d \in Drives
  <2>1. disk[d] \in DiskType
    BY <1>2 DEF DiskOK
  <2>2. ASSUME NEW v \in DiskType, disk' = [disk EXCEPT ![d] = v] PROVE DiskOK'
    BY <2>2, DiskAt
  <2>3. [[disk[d] EXCEPT !.resolv = r] EXCEPT !.backup = b] \in DiskType
    BY <1>2, <2>1 DEF DiskType
  <2>4. [[disk[d] EXCEPT !.backup = b] EXCEPT !.resolv = r] \in DiskType
    BY <1>2, <2>1 DEF DiskType
  <2>5. [disk[d] EXCEPT !.resolv = r] \in DiskType
    BY <1>2, <2>1 DEF DiskType
  <2>6. CASE disk' = [disk EXCEPT ![d].resolv = r]
    BY <2>2, <2>5, <2>6
  <2>7. CASE disk' = [disk EXCEPT ![d].resolv = r, ![d].backup = b]
    <3>1. disk' = [disk EXCEPT ![d] = [[disk[d] EXCEPT !.resolv = r] EXCEPT !.backup = b]]
      BY <1>2, <2>7 DEF DiskOK
    <3> QED
      BY <2>2, <2>3, <3>1
  <2>8. CASE disk' = [disk EXCEPT ![d].backup = b, ![d].resolv = r]
    <3>1. disk' = [disk EXCEPT ![d] = [[disk[d] EXCEPT !.backup = b] EXCEPT !.resolv = r]]
      BY <1>2, <2>8 DEF DiskOK
    <3> QED
      BY <2>2, <2>4, <3>1
  <2> QED
    BY <2>6, <2>7, <2>8
<1> QED
  BY <1>1, <1>2

LEMMA KnownOK ==
  ASSUME DiskOK, NEW d, disk' = [disk EXCEPT ![d].known = TRUE]
  PROVE  DiskOK'
BY DEF DiskOK, DiskType

LEMMA TakeOthersOK ==
  ASSUME DiskOK, NEW d \in Drives, NEW f \in Files,
         disk' = [TakeOthers(d) EXCEPT ![d].files = @ \cup {f}]
  PROVE  DiskOK'
<1>1. Disk("blank", TRUE) \in DiskType
  BY NewDiskType DEF SysType
<1>2. TakeOthers(d) \in [Drives -> DiskType]
  BY <1>1 DEF TakeOthers, DiskOK
<1> DEFINE g == TakeOthers(d)
<1>3. g \in [Drives -> DiskType] /\ disk' = [g EXCEPT ![d].files = @ \cup {f}]
  BY <1>2
<1> HIDE DEF g
<1> DEFINE F == g[d].files \cup {f}
<1>4. F \subseteq Files
  BY <1>3 DEF DiskType
<1>5. disk' = [g EXCEPT ![d].files = F]
  BY <1>3
<1> HIDE DEF F
<1> QED
  BY <1>3, <1>4, <1>5 DEF DiskOK, DiskType

LEMMA DiskStep == TypeOK /\ [Next]_vars => DiskOK'
<1> SUFFICES ASSUME TypeOK, [Next]_vars PROVE DiskOK'
  OBVIOUS
<1>0. DiskOK /\ WfOK /\ op \in OpType /\ present \subseteq Drives
  BY DEF TypeOK, DiskOK, WfOK
<1>1. ASSUME UNCHANGED disk PROVE DiskOK'
  BY <1>0, <1>1 DEF DiskOK
<1>2. \A d \in Drives : disk[d].known \in BOOLEAN /\ disk[d].files \subseteq Files
                        /\ disk[d].resolv \in Resolvs /\ disk[d].backup \in Resolvs
  BY <1>0 DEF DiskOK, DiskType
<1>3. ASSUME NEW d, NEW sys \in SysType, Sys(d, sys, disk[d].known) PROVE DiskOK'
  BY <1>0, <1>2, <1>3, SysOK
<1>4. ASSUME NEW d, NEW p, NEW q, Sys(d, "scrap", p /\ q) PROVE DiskOK'
  <2>1. (p /\ q) \in BOOLEAN
    OBVIOUS
  <2> QED
    BY <1>0, <1>4, <2>1, SysOK DEF SysType
<1>5. \A body : Written(body) \subseteq SysType
  BY DEF Written, SysType
<1>6. Task.kind \in {"writefile", "cexec"} => Task.file \in Files
  BY <1>0, TaskAtHand DEF TaskType
<1>7. ASSUME ImageToDiskStep PROVE DiskOK'
  <2>1. CASE GetToDrive
    BY <1>1, <1>4, <2>1 DEF GetToDrive, Answer, Bodies
  <2>2. CASE CopyToDrive
    BY <1>3, <1>5, <2>2 DEF CopyToDrive
  <2>3. CASE SyncDrive
    BY <1>0, <1>1, <2>3, KnownOK DEF SyncDrive
  <2> QED
    BY <1>1, <1>7, <2>1, <2>2, <2>3
    DEF ImageToDiskStep, Image2Disk, ChooseDrive, findDecompressor, CompareHash, Keep, Untouched
<1>8. ASSUME QemuStep PROVE DiskOK'
  <2>1. CASE GetToFile
    BY <1>1, <2>1 DEF GetToFile, Answer, Bodies
  <2>2. CASE WaitForPartition
    BY <1>4, <2>2 DEF WaitForPartition
  <2>3. CASE DD
    BY <1>3, <2>3 DEF DD, SysType
  <2>4. CASE Reprobe
    BY <1>0, <1>1, <2>4, KnownOK DEF Reprobe
  <2> QED
    BY <1>1, <1>8, <2>1, <2>2, <2>3, <2>4
    DEF QemuStep, QemuNbdImage2Disk, ChooseDrive, createDecompressor, SaveImage, VerifyImage,
        AttachImage, Keep, Untouched
<1>9. ASSUME FileStep PROVE DiskOK'
  <2>1. ASSUME WriteFile PROVE DiskOK'
    <3>1. Task.file \in Files
      BY <1>6, <2>1 DEF WriteFile, At
    <3>2. op.drive \in Drives => disk[op.drive].files \cup {Task.file} \subseteq Files
      BY <1>2, <3>1
    <3> QED
      BY <1>0, <1>1, <2>1, <3>2, FilesOK DEF WriteFile
  <2> QED
    BY <1>1, <1>9, <2>1 DEF FileStep, MountForFile, MountRoot, Keep, Untouched
<1>10. ASSUME CommandStep PROVE DiskOK'
  <2>1. CASE BackupFile
    <3>1. "absent" \in Resolvs
      BY DEF Resolvs
    <3> QED
      BY <1>0, <1>1, <1>2, <2>1, <3>1, ResolvOK DEF BackupFile
  <2>2. CASE CreateResolv
    <3>1. "empty" \in Resolvs
      BY DEF Resolvs
    <3> QED
      BY <1>0, <1>1, <2>2, <3>1, ResolvOK DEF CreateResolv
  <2>3. ASSUME RunCommand PROVE DiskOK'
    <3>1. Task.file \in Files
      BY <1>6, <2>3 DEF RunCommand, At
    <3> DEFINE a == (disk[op.drive].files \ {"custom.cfg"}) \cup {Task.file}
               b == IF Masked THEN disk[op.drive].files \ {"custom.cfg"} ELSE disk[op.drive].files
    <3>2. op.drive \in Drives => a \subseteq Files /\ b \subseteq Files
      BY <1>2, <3>1
    <3>3. disk' = [disk EXCEPT ![op.drive].files = a] \/ disk' = [disk EXCEPT ![op.drive].files = b]
      BY <2>3 DEF RunCommand
    <3> HIDE DEF a, b
    <3> QED
      BY <1>0, <3>2, <3>3, FilesOK
  <2>4. CASE RestoreFile
    <3>1. "absent" \in Resolvs
      BY DEF Resolvs
    <3> QED
      BY <1>0, <1>1, <1>2, <2>4, <3>1, ResolvOK DEF RestoreFile
  <2> QED
    BY <1>1, <1>10, <2>1, <2>2, <2>3, <2>4
    DEF CommandStep, MountForCommand, MountRoot, MountSpecialDirs, Chroot, LeaveChroot,
        UmountSpecialDirs, Keep, Untouched
<1>11. ASSUME ScriptStep PROVE DiskOK'
  <2>1. CASE WipeDisk
    <3>1. ASSUME NEW d, disk' = [disk EXCEPT ![d] = Disk("blank", TRUE)] PROVE DiskOK'
      BY <1>0, <3>1, NewDiskType, DiskAt DEF SysType
    <3> QED
      BY <1>1, <2>1, <3>1 DEF WipeDisk
  <2>2. ASSUME PartitionDisk PROVE DiskOK'
    BY <1>0, <1>1, <2>2, TakeOthersOK DEF PartitionDisk, Files
  <2>3. CASE UpgradeKernel
    <3>1. "empty" \in Resolvs
      BY DEF Resolvs
    <3> QED
      BY <1>0, <1>1, <2>3, <3>1, ResolvOK DEF UpgradeKernel
  <2>4. ASSUME EnableSecurity PROVE DiskOK'
    BY <1>0, <1>1, <2>4, TakeOthersOK DEF EnableSecurity, Files
  <2> QED
    BY <1>1, <1>11, <2>1, <2>2, <2>3, <2>4
    DEF ScriptStep, SecureBootFlag, Eject, ListDisks, Partprobe, Efibootset, Reboot, Keep, Untouched
<1>12. ASSUME PowerCycle PROVE DiskOK'
  BY <1>0, <1>12 DEF PowerCycle, DiskOK, DiskType
<1> QED
  BY <1>1, <1>7, <1>8, <1>9, <1>10, <1>11, <1>12
  DEF Next, GenerateWorkflowInputs, Timeout, Attach, Untouched, vars

-----------------------------------------------------------------------------
(* The other variables, and the invariant.                                 *)

RestOK ==
  /\ image \in [fmt : {"raw", "qcow2"}, sha : BOOLEAN, ca : {"none", "valid", "invalid"}]
  /\ present \subseteq Drives /\ name \in Orders /\ bootDisk \in BOOLEAN
BudgetOK == budget \in [faults : 0..MaxFaults, crashes : 0..MaxCrashes]
PastOK == past \in [moved : BOOLEAN, torn : BOOLEAN]

LEMMA TypeParts == TypeOK <=> WfOK /\ RestOK /\ DiskOK /\ op \in OpType /\ PastOK /\ BudgetOK
BY DEF TypeOK, WfOK, RestOK, DiskOK, PastOK, BudgetOK

LEMMA RestStep == TypeOK /\ [Next]_vars => RestOK'
<1> SUFFICES ASSUME TypeOK, [Next]_vars PROVE RestOK'
  OBVIOUS
<1>0. RestOK
  BY TypeParts
<1>1. CASE UNCHANGED vars \/ ImageToDiskStep
  BY <1>0, <1>1
  DEF ImageToDiskStep, Image2Disk, ChooseDrive, GetToDrive, Answer, findDecompressor, CopyToDrive,
      SyncDrive, CompareHash, Keep, Untouched, Same, RestOK, vars
<1>2. CASE QemuStep
  BY <1>0, <1>2
  DEF QemuStep, QemuNbdImage2Disk, ChooseDrive, GetToFile, Answer, createDecompressor, SaveImage,
      VerifyImage, AttachImage, WaitForPartition, DD, Reprobe, Keep, Untouched, Same, RestOK
<1>3. CASE FileStep \/ CommandStep
  BY <1>0, <1>3
  DEF FileStep, MountForFile, MountRoot, WriteFile, CommandStep, MountForCommand, BackupFile,
      CreateResolv, MountSpecialDirs, Chroot, RunCommand, LeaveChroot, UmountSpecialDirs,
      RestoreFile, Keep, Untouched, Same, RestOK
<1>4. CASE ScriptStep
  BY <1>0, <1>4
  DEF ScriptStep, SecureBootFlag, Eject, ListDisks, WipeDisk, Partprobe, PartitionDisk,
      UpgradeKernel, EnableSecurity, Efibootset, Reboot, Keep, Untouched, Same, RestOK
<1>5. CASE GenerateWorkflowInputs \/ Timeout \/ PowerCycle \/ \E d \in Drives : Attach(d)
  BY <1>0, <1>5, DrivesAssumption
  DEF GenerateWorkflowInputs, Timeout, PowerCycle, Attach, Untouched, Same, RestOK
<1> QED
  BY <1>1, <1>2, <1>3, <1>4, <1>5 DEF Next

LEMMA BudgetCases ==
  ASSUME BudgetOK, Fault \/ NoFault
  PROVE  BudgetOK'
BY BoundsAssumption DEF BudgetOK, Fault, NoFault

LEMMA BudgetStep == TypeOK /\ [Next]_vars => BudgetOK'
<1> SUFFICES ASSUME TypeOK, [Next]_vars PROVE BudgetOK'
  OBVIOUS
<1>0. BudgetOK
  BY TypeParts
<1>1. ASSUME Fault \/ NoFault PROVE BudgetOK'
  BY <1>0, <1>1, BudgetCases
<1>2. CASE ImageToDiskStep
  BY <1>1, <1>2
  DEF ImageToDiskStep, Image2Disk, ChooseDrive, GetToDrive, Answer, findDecompressor, CopyToDrive,
      SyncDrive, CompareHash
<1>3. CASE QemuStep
  BY <1>1, <1>3
  DEF QemuStep, QemuNbdImage2Disk, ChooseDrive, GetToFile, Answer, createDecompressor, SaveImage,
      VerifyImage, AttachImage, WaitForPartition, DD, Reprobe
<1>4. CASE FileStep \/ CommandStep
  BY <1>1, <1>4
  DEF FileStep, MountForFile, MountRoot, WriteFile, CommandStep, MountForCommand, BackupFile,
      CreateResolv, MountSpecialDirs, Chroot, RunCommand, LeaveChroot, UmountSpecialDirs,
      RestoreFile
<1>5. CASE ScriptStep
  BY <1>1, <1>5
  DEF ScriptStep, SecureBootFlag, Eject, ListDisks, WipeDisk, Partprobe, PartitionDisk,
      UpgradeKernel, EnableSecurity, Efibootset, Reboot
<1>6. CASE GenerateWorkflowInputs \/ Timeout
  BY <1>1, <1>6 DEF GenerateWorkflowInputs, Timeout
<1>7. CASE PowerCycle
  BY <1>0, <1>7, BoundsAssumption DEF PowerCycle, BudgetOK
<1>8. CASE UNCHANGED budget
  BY <1>0, <1>8 DEF BudgetOK
<1> QED
  BY <1>2, <1>3, <1>4, <1>5, <1>6, <1>7, <1>8 DEF Next, Attach, vars

LEMMA PastStep == TypeOK /\ [Next]_vars => PastOK'
<1> SUFFICES ASSUME TypeOK, [Next]_vars PROVE PastOK'
  OBVIOUS
<1>0. PastOK /\ WfOK
  BY TypeParts
<1>1. CASE UNCHANGED past
  BY <1>0, <1>1 DEF PastOK
<1>2. Task.resolv \in BOOLEAN
  BY <1>0, TaskAtHand DEF TaskType
<1>3. ASSUME Torn PROVE PastOK'
  BY <1>0, <1>2, <1>3 DEF Torn, PastOK
<1>4. ASSUME ChooseDrive PROVE PastOK'
  <2>1. ASSUME NEW p \in BOOLEAN, past' = [past EXCEPT !.moved = past.moved \/ p] PROVE PastOK'
    BY <1>0, <2>1 DEF PastOK
  <2>2. \A d : (\E e \in Drives \ {d} : Begun(e)) \in BOOLEAN
    OBVIOUS
  <2> QED
    BY <1>1, <1>4, <2>1, <2>2 DEF ChooseDrive
<1>5. CASE ImageToDiskStep \/ QemuStep
  BY <1>1, <1>4, <1>5
  DEF ImageToDiskStep, Image2Disk, GetToDrive, Answer, findDecompressor, CopyToDrive,
      SyncDrive, CompareHash, QemuStep, QemuNbdImage2Disk, GetToFile, createDecompressor, SaveImage,
      VerifyImage, AttachImage, WaitForPartition, DD, Reprobe, Keep, Untouched
<1>6. CASE FileStep \/ CommandStep
  BY <1>1, <1>3, <1>6
  DEF FileStep, MountForFile, MountRoot, WriteFile, CommandStep, MountForCommand, BackupFile,
      CreateResolv, MountSpecialDirs, Chroot, RunCommand, LeaveChroot, UmountSpecialDirs,
      RestoreFile, Keep, Untouched
<1>7. CASE ScriptStep
  BY <1>1, <1>7
  DEF ScriptStep, SecureBootFlag, Eject, ListDisks, WipeDisk, Partprobe, PartitionDisk,
      UpgradeKernel, EnableSecurity, Efibootset, Reboot, Keep, Untouched
<1>8. CASE Timeout
  BY <1>0, <1>2, <1>8 DEF Timeout, Killed, PastOK
<1>9. CASE PowerCycle
  BY <1>0, <1>2, <1>9 DEF PowerCycle, Killed, PastOK
<1>10. CASE \E d \in Drives : Attach(d)
  BY <1>0, <1>10 DEF Attach, Erased, PastOK
<1> QED
  BY <1>1, <1>5, <1>6, <1>7, <1>8, <1>9, <1>10 DEF Next, GenerateWorkflowInputs, Untouched, vars

\* What the steps of the streaming actions rest on: nothing is fetched unless the
\* certificate is valid, and the qcow2 variant is past its comparison.
StreamInv ==
  /\ op.at \in {"copy", "sync", "hash", "save", "verify", "attach", "wait", "dd", "reprobe"}
       => image.ca # "invalid"
  /\ op.at \in {"attach", "wait", "dd", "reprobe"} /\ image.sha => op.body = "whole"

LEMMA InitTypeOK == Init => TypeOK /\ StreamInv
<1> SUFFICES ASSUME Init PROVE TypeOK /\ StreamInv
  OBVIOUS
<1>1. WfOK
  BY TasksType DEF Init, WfOK
<1>2. RestOK
  BY DrivesAssumption DEF Init, RestOK
<1>3. DiskOK
  BY NewDiskType DEF Init, DiskOK, SysType
<1>4. op \in OpType /\ StreamInv
  BY NewOpType DEF Init, StreamInv
<1>5. PastOK /\ BudgetOK
  BY BoundsAssumption DEF Init, PastOK, BudgetOK
<1> QED
  BY <1>1, <1>2, <1>3, <1>4, <1>5, TypeParts

\* An action that has begun anew, or tries again, is at none of those steps.
LEMMA StreamCases ==
  ASSUME StreamInv, UNCHANGED image, UNCHANGED op \/ Failed \/ Done \/ Again
  PROVE  StreamInv'
<1>1. CASE UNCHANGED op
  BY <1>1 DEF StreamInv
<1>2. NewOp.at = "start"
  BY DEF NewOp
<1>3. CASE op' = NewOp
  BY <1>2, <1>3 DEF StreamInv
<1>4. ASSUME NEW d, NEW n, op' = [NewOp EXCEPT !.at = "get", !.drive = d, !.tries = n]
      PROVE  StreamInv'
  <2>1. op'.at = "get"
    BY <1>4 DEF NewOp
  <2> QED
    BY <2>1 DEF StreamInv
<1> QED
  BY <1>1, <1>3, <1>4 DEF Failed, Done, Again

LEMMA StreamGoto ==
  ASSUME UNCHANGED image, op \in OpType, NEW step, Goto(step),
         step \in {"copy", "sync", "hash", "save", "verify", "attach", "wait", "dd", "reprobe"}
           => image.ca # "invalid",
         step \in {"attach", "wait", "dd", "reprobe"} /\ image.sha => op.body = "whole"
  PROVE  StreamInv'
BY DEF StreamInv, Goto, OpType

LEMMA ImageStays == ASSUME [Next]_vars PROVE UNCHANGED image
BY DEF Next, ImageToDiskStep, Image2Disk, ChooseDrive, GetToDrive, Answer, findDecompressor,
       CopyToDrive, SyncDrive, CompareHash, QemuStep, QemuNbdImage2Disk, GetToFile,
       createDecompressor, SaveImage, VerifyImage, AttachImage, WaitForPartition, DD, Reprobe,
       FileStep, MountForFile, MountRoot, WriteFile, CommandStep, MountForCommand, BackupFile,
       CreateResolv, MountSpecialDirs, Chroot, RunCommand, LeaveChroot, UmountSpecialDirs,
       RestoreFile, ScriptStep, SecureBootFlag, Eject, ListDisks, WipeDisk, Partprobe,
       PartitionDisk, UpgradeKernel, EnableSecurity, Efibootset, Reboot, GenerateWorkflowInputs,
       Timeout, PowerCycle, Attach, Keep, Same, vars

LEMMA StreamInvStep == TypeOK /\ StreamInv /\ [Next]_vars => StreamInv'
<1> SUFFICES ASSUME TypeOK, StreamInv, [Next]_vars PROVE StreamInv'
  OBVIOUS
<1> DEFINE Others == {"start", "wipe", "get", "write", "backup", "create", "special", "chroot",
                      "run", "leave", "umount", "restore", "kernel"}
<1>0. op \in OpType
  BY DEF TypeOK
<1>1. UNCHANGED image
  BY ImageStays
<1>2. ASSUME UNCHANGED op \/ Failed \/ Done \/ Again PROVE StreamInv'
  BY <1>1, <1>2, StreamCases
<1>3. ASSUME op'.at \in Others PROVE StreamInv'
  BY <1>3 DEF StreamInv
<1>4. ASSUME ChooseDrive PROVE StreamInv'
  <2>1. CASE Failed
    BY <1>2, <2>1
  <2>2. ASSUME NEW d, op' = [op EXCEPT !.at = "get", !.drive = d] PROVE StreamInv'
    BY <1>0, <1>3, <2>2 DEF OpType
  <2> QED
    BY <1>4, <2>1, <2>2 DEF ChooseDrive
<1>5. ASSUME ImageToDiskStep PROVE StreamInv'
  <2>1. ASSUME GetToDrive PROVE StreamInv'
    <3>1. ASSUME validate_cert, NEW b, op' = [op EXCEPT !.at = "copy", !.body = b] PROVE StreamInv'
      BY <1>0, <1>1, <3>1 DEF StreamInv, OpType, validate_cert
    <3> QED
      BY <1>2, <2>1, <3>1 DEF GetToDrive, Answer
  <2>2. ASSUME CopyToDrive PROVE StreamInv'
    BY <1>0, <1>1, <1>2, <2>2, StreamGoto DEF CopyToDrive, Streaming, At, StreamInv
  <2>3. ASSUME SyncDrive PROVE StreamInv'
    BY <1>0, <1>1, <1>2, <2>3, StreamGoto DEF SyncDrive, Streaming, At, StreamInv
  <2>4. ASSUME findDecompressor \/ CompareHash PROVE StreamInv'
    BY <1>2, <2>4 DEF findDecompressor, CompareHash
  <2> QED
    BY <1>4, <1>5, <2>1, <2>2, <2>3, <2>4 DEF ImageToDiskStep, Image2Disk
<1>6. ASSUME QemuStep PROVE StreamInv'
  <2>1. ASSUME GetToFile PROVE StreamInv'
    <3>1. ASSUME validate_cert, NEW b, op' = [op EXCEPT !.at = "save", !.body = b] PROVE StreamInv'
      BY <1>0, <1>1, <3>1 DEF StreamInv, OpType, validate_cert
    <3> QED
      BY <1>2, <2>1, <3>1 DEF GetToFile, Answer
  <2>2. ASSUME SaveImage PROVE StreamInv'
    BY <1>0, <1>1, <1>2, <2>2, StreamGoto DEF SaveImage, Streaming, At, StreamInv
  <2>3. ASSUME VerifyImage PROVE StreamInv'
    BY <1>0, <1>1, <1>2, <2>3, StreamGoto DEF VerifyImage, Streaming, At, StreamInv, HashOk
  <2>4. ASSUME AttachImage \/ WaitForPartition \/ DD PROVE StreamInv'
    BY <1>0, <1>1, <1>2, <2>4, StreamGoto
    DEF AttachImage, WaitForPartition, DD, Streaming, At, StreamInv
  <2>5. ASSUME createDecompressor \/ Reprobe PROVE StreamInv'
    BY <1>2, <2>5 DEF createDecompressor, Reprobe
  <2> QED
    BY <1>4, <1>6, <2>1, <2>2, <2>3, <2>4, <2>5 DEF QemuStep, QemuNbdImage2Disk
<1>7. ASSUME NEW kind, NEW step \in Others, MountRoot(kind, step) PROVE StreamInv'
  <2>1. ASSUME NEW d, op' = [op EXCEPT !.at = step, !.drive = d] PROVE StreamInv'
    <3>1. op'.at = step
      BY <1>0, <2>1 DEF OpType
    <3> QED
      BY <1>3, <3>1
  <2> QED
    BY <1>2, <1>7, <2>1 DEF MountRoot
<1>8. ASSUME FileStep PROVE StreamInv'
  BY <1>2, <1>7, <1>8 DEF FileStep, MountForFile, WriteFile
<1>9. ASSUME CommandStep PROVE StreamInv'
  <2>1. ASSUME NEW ok, Returns(ok) PROVE StreamInv'
    BY <1>2, <2>1 DEF Returns
  <2>2. ASSUME NEW step \in Others, Goto(step) \/ Unwind(step) PROVE StreamInv'
    <3>1. op'.at = step
      BY <1>0, <2>2 DEF Goto, Unwind, OpType
    <3> QED
      BY <1>3, <3>1
  <2>3. CASE MountForCommand
    BY <1>7, <2>3 DEF MountForCommand
  <2>4. CASE BackupFile \/ CreateResolv \/ Chroot
    BY <1>2, <2>2, <2>4 DEF BackupFile, CreateResolv, Chroot
  <2>5. CASE MountSpecialDirs
    <3>1. ASSUME NEW b, op' = [op EXCEPT !.at = "chroot", !.bound = b] PROVE StreamInv'
      BY <1>0, <1>3, <3>1 DEF OpType
    <3> QED
      BY <1>2, <2>2, <2>5, <3>1 DEF MountSpecialDirs
  <2>6. CASE RunCommand
    <3>1. ASSUME NEW b, op' = [op EXCEPT !.at = "leave", !.ok = b] PROVE StreamInv'
      BY <1>0, <1>3, <3>1 DEF OpType
    <3> QED
      BY <2>6, <3>1 DEF RunCommand
  <2>7. CASE LeaveChroot \/ RestoreFile
    BY <2>1, <2>2, <2>7 DEF LeaveChroot, RestoreFile
  <2>8. CASE UmountSpecialDirs
    <3>1. ASSUME NEW b, op' = [op EXCEPT !.at = "restore", !.bound = b] PROVE StreamInv'
      BY <1>0, <1>3, <3>1 DEF OpType
    <3> QED
      BY <2>1, <2>8, <3>1 DEF UmountSpecialDirs, AfterUmount
  <2> QED
    BY <1>9, <2>3, <2>4, <2>5, <2>6, <2>7, <2>8 DEF CommandStep
<1>10. ASSUME ScriptStep PROVE StreamInv'
  <2>1. CASE ListDisks
    BY <1>0, <1>3, <2>1 DEF ListDisks, OpType
  <2>2. CASE WipeDisk
    <3>1. ASSUME NEW d, op' = [op EXCEPT !.left = op.left \ {d}] PROVE StreamInv'
      BY <1>0, <1>1, <3>1 DEF StreamInv, OpType
    <3> QED
      BY <1>2, <2>2, <3>1 DEF WipeDisk
  <2>3. CASE PartitionDisk
    <3>1. ASSUME NEW d, op' = [op EXCEPT !.at = "kernel", !.drive = d] PROVE StreamInv'
      BY <1>0, <1>3, <3>1 DEF OpType
    <3> QED
      BY <1>2, <2>3, <3>1 DEF PartitionDisk
  <2> QED
    BY <1>2, <1>10, <2>1, <2>2, <2>3
    DEF ScriptStep, SecureBootFlag, Eject, Partprobe, UpgradeKernel, EnableSecurity, Efibootset,
        Reboot
<1>11. CASE PowerCycle
  BY <1>3, <1>11 DEF PowerCycle, NewOp
<1> QED
  BY <1>2, <1>5, <1>6, <1>8, <1>9, <1>10, <1>11
  DEF Next, GenerateWorkflowInputs, Timeout, Attach, vars

\* The step of the stream changes what is on a drive only as VerifiedFirst says.
LEMMA StreamStep ==
  TypeOK /\ StreamInv /\ [Next]_vars /\ Task.kind = "stream" /\ wf.st = "running"
    => \A d \in Drives : disk'[d].sys # disk[d].sys =>
         /\ image.ca # "invalid"
         /\ wf.stream = "qemu" /\ image.sha => op.body = "whole"
<1> SUFFICES ASSUME TypeOK, StreamInv, [Next]_vars, Task.kind = "stream", wf.st = "running",
                    NEW d \in Drives, disk'[d].sys # disk[d].sys
             PROVE  /\ image.ca # "invalid"
                    /\ wf.stream = "qemu" /\ image.sha => op.body = "whole"
  OBVIOUS
<1> DEFINE Ok == /\ image.ca # "invalid"
                 /\ wf.stream = "qemu" /\ image.sha => op.body = "whole"
<1>0. DiskOK
  BY DEF TypeOK, DiskOK
<1>1. ~UNCHANGED disk
  OBVIOUS
<1>2. ~\E e : disk' = [disk EXCEPT ![e].known = TRUE]
  <2>1. ASSUME NEW e, disk' = [disk EXCEPT ![e].known = TRUE] PROVE disk'[d].sys = disk[d].sys
    BY <1>0, <2>1 DEF DiskOK, DiskType
  <2> QED
    BY <2>1
<1>3. ASSUME ImageToDiskStep PROVE Ok
  <2>1. CASE GetToDrive
    BY <1>1, <2>1 DEF GetToDrive, Answer, Streaming, At, validate_cert
  <2>2. CASE CopyToDrive
    BY <2>2 DEF CopyToDrive, Streaming, At, StreamInv
  <2> QED
    BY <1>1, <1>2, <1>3, <2>1, <2>2
    DEF ImageToDiskStep, Image2Disk, ChooseDrive, findDecompressor, SyncDrive, CompareHash, Keep,
        Untouched
<1>4. ASSUME QemuStep PROVE Ok
  <2>1. CASE WaitForPartition \/ DD
    BY <2>1 DEF WaitForPartition, DD, Streaming, At, StreamInv
  <2>2. ~GetToFile
    BY <1>1 DEF GetToFile, Answer, Bodies
  <2> QED
    BY <1>1, <1>2, <1>4, <2>1, <2>2
    DEF QemuStep, QemuNbdImage2Disk, ChooseDrive, createDecompressor, SaveImage, VerifyImage,
        AttachImage, Reprobe, Keep, Untouched
<1>5. ~FileStep
  BY DEF FileStep, MountForFile, MountRoot, WriteFile, At
<1>6. ~CommandStep
  BY DEF CommandStep, MountForCommand, MountRoot, BackupFile, CreateResolv, MountSpecialDirs, Chroot,
         RunCommand, LeaveChroot, UmountSpecialDirs, RestoreFile, At
<1>7. ~ScriptStep
  BY DEF ScriptStep, SecureBootFlag, Eject, ListDisks, WipeDisk, Partprobe, PartitionDisk,
         UpgradeKernel, EnableSecurity, Efibootset, Reboot, At
<1>8. ~PowerCycle
  BY <1>0 DEF PowerCycle, DiskOK, DiskType
<1> QED
  BY <1>1, <1>3, <1>4, <1>5, <1>6, <1>7, <1>8
  DEF Next, GenerateWorkflowInputs, Timeout, Attach, Untouched, vars

LEMMA Inductive == Spec => [](TypeOK /\ StreamInv)
<1>1. TypeOK /\ StreamInv /\ [Next]_vars => (TypeOK /\ StreamInv)'
  <2>1. TypeOK' <=> WfOK' /\ RestOK' /\ DiskOK' /\ op' \in OpType /\ PastOK' /\ BudgetOK'
    BY DEF TypeOK, WfOK, RestOK, DiskOK, PastOK, BudgetOK
  <2> QED
    BY <2>1, WfStep, RestStep, DiskStep, OpStep, PastStep, BudgetStep, StreamInvStep
<1> QED
  BY <1>1, InitTypeOK, PTL DEF Spec

-----------------------------------------------------------------------------
(* What a step makes of the workflow and of a disk, field by field.        *)

LEMMA FailedIs ==
  ASSUME WfOK, Failed
  PROVE  op' = NewOp /\ wf'.tmpl = wf.tmpl /\ wf'.cur = wf.cur /\ wf'.st = "failed"
BY DEF Failed, WfOK

LEMMA DoneIs ==
  ASSUME WfOK, Done
  PROVE  /\ op' = NewOp /\ wf'.tmpl = wf.tmpl
         /\ \/ wf.cur = Len(Tasks(wf.tmpl)) /\ wf'.cur = wf.cur /\ wf'.st = "success"
            \/ wf.cur # Len(Tasks(wf.tmpl)) /\ wf'.cur = wf.cur + 1 /\ wf'.st = wf.st
BY DEF Done, WfOK

LEMMA GotoIs ==
  ASSUME op \in OpType, NEW step, Goto(step) \/ Unwind(step)
  PROVE  /\ UNCHANGED wf /\ op'.at = step /\ op'.drive = op.drive /\ op'.bound = op.bound
         /\ op'.body = op.body /\ op'.left = op.left
         /\ Goto(step) => op'.ok = op.ok
         /\ Unwind(step) => ~op'.ok
<1>1. CASE Goto(step)
  BY <1>1 DEF Goto, Unwind, OpType
<1>2. CASE Unwind(step)
  <2>1. /\ UNCHANGED wf /\ op'.at = step /\ op'.drive = op.drive /\ op'.bound = op.bound
        /\ op'.body = op.body /\ op'.left = op.left
    BY <1>2 DEF Unwind, OpType
  <2>2. op'.ok = FALSE
    BY <1>2 DEF Unwind, OpType
  <2>3. Goto(step) => op'.ok = op.ok
    BY DEF Goto, OpType
  <2> QED
    BY <2>1, <2>2, <2>3
<1> QED
  BY <1>1, <1>2

LEMMA SysIs ==
  ASSUME DiskOK, NEW d, NEW sys, NEW known, Sys(d, sys, known) \/ disk' = [disk EXCEPT ![d] = Disk(sys, known)]
  PROVE  \A e \in Drives :
           \/ e # d /\ disk'[e] = disk[e]
           \/ /\ e = d /\ disk'[e].sys = sys /\ disk'[e].files = {}
              /\ sys = "image" => disk'[e].resolv = "image"
BY DEF Sys, Disk, DiskOK

LEMMA FilesIs ==
  ASSUME DiskOK, NEW d, NEW F, disk' = [disk EXCEPT ![d].files = F]
  PROVE  \A e \in Drives :
           /\ disk'[e].sys = disk[e].sys /\ disk'[e].known = disk[e].known
           /\ disk'[e].resolv = disk[e].resolv /\ disk'[e].backup = disk[e].backup
           /\ disk'[e].files = IF e = d THEN F ELSE disk[e].files
BY DEF DiskOK, DiskType

LEMMA KnownIs ==
  ASSUME DiskOK, NEW d, disk' = [disk EXCEPT ![d].known = TRUE]
  PROVE  \A e \in Drives :
           /\ disk'[e].sys = disk[e].sys /\ disk'[e].files = disk[e].files
           /\ disk'[e].resolv = disk[e].resolv /\ disk'[e].backup = disk[e].backup
           /\ disk[e].known => disk'[e].known
<1> SUFFICES ASSUME NEW e \in Drives
             PROVE  /\ disk'[e].sys = disk[e].sys /\ disk'[e].files = disk[e].files
                    /\ disk'[e].resolv = disk[e].resolv /\ disk'[e].backup = disk[e].backup
                    /\ disk[e].known => disk'[e].known
  OBVIOUS
<1>1. disk'[e] = disk[e] \/ disk'[e] = [disk[e] EXCEPT !.known = TRUE]
  BY DEF DiskOK
<1> QED
  BY <1>1 DEF DiskOK, DiskType

\* Only resolv.conf and its copy are written.
LEMMA ResolvIs ==
  ASSUME DiskOK, NEW d, NEW r, NEW b,
         \/ disk' = [disk EXCEPT ![d].backup = b, ![d].resolv = r]
         \/ disk' = [disk EXCEPT ![d].resolv = r, ![d].backup = b]
         \/ disk' = [disk EXCEPT ![d].resolv = r] /\ b = disk[d].backup
  PROVE  \A e \in Drives :
           /\ disk'[e].sys = disk[e].sys /\ disk'[e].files = disk[e].files
           /\ disk'[e].known = disk[e].known
           /\ e # d => disk'[e] = disk[e]
           /\ e = d => disk'[e].resolv = r /\ disk'[e].backup = b
BY DEF DiskOK, DiskType

LEMMA TakeOthersType ==
  ASSUME DiskOK, NEW d \in Drives
  PROVE  TakeOthers(d) \in [Drives -> DiskType]
BY NewDiskType DEF TakeOthers, DiskOK, SysType

LEMMA TakeOthersIs ==
  ASSUME DiskOK, NEW d \in Drives, NEW f, NEW g \in [Drives -> DiskType], g = TakeOthers(d),
         disk' = [g EXCEPT ![d].files = g[d].files \cup {f}]
  PROVE  \A e \in Drives :
           \/ /\ e \in (present \cap Fixed) \ {d} /\ disk'[e].sys = "blank" /\ disk'[e].files = {}
           \/ /\ e \notin (present \cap Fixed) \ {d}
              /\ disk'[e].sys = disk[e].sys /\ disk'[e].known = disk[e].known
              /\ disk'[e].resolv = disk[e].resolv /\ disk'[e].backup = disk[e].backup
              /\ disk'[e].files = IF e = d THEN disk[e].files \cup {f} ELSE disk[e].files
<1>1. \A e \in Drives :
        IF e \in (present \cap Fixed) \ {d} THEN g[e].sys = "blank" /\ g[e].files = {}
        ELSE g[e] = disk[e]
  BY DEF TakeOthers, Disk
<1>2. \A e \in Drives :
        /\ disk'[e].sys = g[e].sys /\ disk'[e].known = g[e].known
        /\ disk'[e].resolv = g[e].resolv /\ disk'[e].backup = g[e].backup
        /\ disk'[e].files = IF e = d THEN g[e].files \cup {f} ELSE g[e].files
  BY DEF DiskType
<1> QED
  BY <1>1, <1>2

-----------------------------------------------------------------------------
(* What a template asks for: the flag, erasing and streaming come first, a *)
(* file is next, and the rest are files, commands and scripts.             *)

RestTasks(t) ==
  {Write(f) : f \in Files} \cup {Exec("split", r) : r \in BOOLEAN}
  \cup {Script("efibootset"), Script("reboot")}
  \cup (IF t.os = "ubuntu" THEN {Exec("system-configuration", FALSE), Script("kernelupgrade")}
        ELSE {Script("security")})

LEMMA RestKinds ==
  ASSUME NEW t \in Templates, NEW k \in RestTasks(t)
  PROVE  /\ k.kind \in {"writefile", "cexec", "kernelupgrade", "security", "efibootset", "reboot"}
         /\ k.kind = "kernelupgrade" => t.os = "ubuntu"
         /\ k.kind = "security" => t.os = "microvisor"
         /\ k.file # "none" <=> k.kind \in {"writefile", "cexec"}
         /\ k.kind = "cexec" /\ t.os = "microvisor" => k.file = "split"
<1>1. t.os \in {"ubuntu", "microvisor"}
  BY TemplatesAssumption
<1>2. ASSUME NEW f \in Files, k = Write(f)
      PROVE  k.kind = "writefile" /\ k.file # "none"
  BY <1>2 DEF Write, Files
<1>3. ASSUME NEW r, k = Exec("split", r)
      PROVE  k.kind = "cexec" /\ k.file = "split"
  BY <1>3 DEF Exec
<1>4. ASSUME k \in {Script("efibootset"), Script("reboot")}
      PROVE  k.kind \in {"efibootset", "reboot"} /\ k.file = "none"
  BY <1>4 DEF Script
<1>5. ASSUME t.os = "ubuntu", k \in {Exec("system-configuration", FALSE), Script("kernelupgrade")}
      PROVE  \/ k.kind = "cexec" /\ k.file = "system-configuration"
             \/ k.kind = "kernelupgrade" /\ k.file = "none"
  BY <1>5 DEF Script, Exec
<1>6. ASSUME t.os # "ubuntu", k = Script("security")
      PROVE  k.kind = "security" /\ k.file = "none"
  BY <1>6 DEF Script
<1>7. \/ \E f \in Files : k = Write(f)
      \/ \E r \in BOOLEAN : k = Exec("split", r)
      \/ k \in {Script("efibootset"), Script("reboot")}
      \/ t.os = "ubuntu" /\ k \in {Exec("system-configuration", FALSE), Script("kernelupgrade")}
      \/ t.os # "ubuntu" /\ k = Script("security")
  BY DEF RestTasks
<1> QED
  BY <1>1, <1>2, <1>3, <1>4, <1>5, <1>6, <1>7

\* The shape of both kinds of templates: a head, perhaps the custom configurations,
\* and the rest, with a script of its own at position n.
Parts(S, s, a, b, c, h, n) ==
  /\ s = a \o b \o c
  /\ a \in Seq(TaskType) /\ b \in Seq(TaskType) /\ c \in Seq(TaskType)
  /\ h \in 4..5 /\ Len(a) = h /\ Len(c) >= 4 /\ n \in 1..Len(c)
  /\ b \in Seq(S) /\ c \in Seq(S) /\ \A i \in 4..h : a[i] \in S

LEMMA ListShape ==
  ASSUME NEW S, NEW a, NEW b, NEW c, NEW h, NEW n, NEW s, Parts(S, s, a, b, c, h, n)
  PROVE  /\ Len(s) >= 8 /\ \A i \in 1..4 : s[i] = a[i]
         /\ \A i \in 4..Len(s) : s[i] \in S
         /\ \E i \in 1..Len(s) : s[i] = c[n]
<1> USE DEF Parts
<1> DEFINE ab == a \o b
<1>1. /\ ab \in Seq(TaskType) /\ Len(ab) = h + Len(b)
      /\ \A i \in 1..Len(ab) : ab[i] = IF i <= h THEN a[i] ELSE b[i - h]
  BY ConcatProperties
<1>2. Len(b) \in Nat /\ Len(c) \in Nat
  BY LenProperties
<1> HIDE DEF ab
<1>3. /\ s \in Seq(TaskType) /\ Len(s) = Len(ab) + Len(c)
      /\ \A i \in 1..Len(s) : s[i] = IF i <= Len(ab) THEN ab[i] ELSE c[i - Len(ab)]
  <2>1. ab \in Seq(TaskType)
    BY <1>1
  <2>2. /\ (ab \o c) \in Seq(TaskType) /\ Len(ab \o c) = Len(ab) + Len(c)
        /\ \A i \in 1..(Len(ab) + Len(c)) :
             (ab \o c)[i] = IF i <= Len(ab) THEN ab[i] ELSE c[i - Len(ab)]
    BY <2>1, ConcatProperties, Zenon
  <2>3. s = ab \o c
    BY DEF ab
  <2> QED
    BY <2>2, <2>3
<1>4. Len(s) >= 8
  BY <1>1, <1>2, <1>3
<1>5. \A i \in 1..4 : s[i] = a[i]
  BY <1>1, <1>2, <1>3
<1>6. ASSUME NEW i \in 4..Len(s) PROVE s[i] \in S
  <2>1. CASE i <= h
    BY <1>1, <1>2, <1>3, <2>1
  <2>2. CASE i > h /\ i <= Len(ab)
    <3>1. s[i] = b[i - h] /\ i - h \in 1..Len(b)
      BY <1>1, <1>2, <1>3, <2>2
    <3> QED
      BY <3>1, ElementOfSeq
  <2>3. CASE i > Len(ab)
    <3>1. s[i] = c[i - Len(ab)] /\ i - Len(ab) \in 1..Len(c)
      BY <1>1, <1>2, <1>3, <2>3
    <3> QED
      BY <3>1, ElementOfSeq
  <2> QED
    BY <1>1, <1>2, <2>1, <2>2, <2>3
<1>7. s[Len(ab) + n] = c[n] /\ Len(ab) + n \in 1..Len(s)
  BY <1>1, <1>2, <1>3
<1> QED
  BY <1>4, <1>5, <1>6, <1>7

LEMMA FifthOfSeven ==
  ASSUME NEW a, NEW b, NEW c, NEW d, NEW e, NEW f, NEW g
  PROVE  LET s == <<a, b, c, d, e, f, g>> IN s[5] = e /\ Len(s) = 7
OBVIOUS

LEMMA TemplateShape ==
  ASSUME NEW t \in Templates
  PROVE  /\ Len(Tasks(t)) >= 8
         /\ Tasks(t)[1].kind = "securebootflag" /\ Tasks(t)[2].kind = "erase"
         /\ Tasks(t)[3].kind = "stream" /\ Tasks(t)[4].kind = "writefile"
         /\ \A i \in 1..3 : Tasks(t)[i].file = "none"
         /\ \A i \in 4..Len(Tasks(t)) : Tasks(t)[i] \in RestTasks(t)
         /\ \E i \in 1..Len(Tasks(t)) :
              Tasks(t)[i].kind = IF t.os = "ubuntu" THEN "kernelupgrade" ELSE "security"
<1> DEFINE S == RestTasks(t)
<1>1. t.custom \in BOOLEAN /\ t.standalone \in BOOLEAN /\ t.os \in {"ubuntu", "microvisor"}
  BY TemplatesAssumption
<1>2. /\ Script("securebootflag") \in TaskType /\ Script("erase") \in TaskType
      /\ Script("stream") \in TaskType /\ Script("kernelupgrade") \in TaskType
      /\ Script("efibootset") \in TaskType /\ Script("reboot") \in TaskType
      /\ Script("security") \in TaskType
  BY ScriptType DEF Kinds
<1>3. \A f \in Files : Write(f) \in TaskType /\ Write(f) \in S
  BY WriteType DEF RestTasks
<1>4. \A r \in BOOLEAN : Exec("split", r) \in TaskType /\ Exec("split", r) \in S
  BY ExecType DEF RestTasks, Files
<1>5. Exec("system-configuration", FALSE) \in TaskType
  BY ExecType DEF Files
<1>6. Script("efibootset") \in S /\ Script("reboot") \in S
  BY DEF RestTasks
<1>7. /\ Write("apt.conf") \in TaskType \cap S /\ Write("99_infra.cfg") \in TaskType \cap S
      /\ Write("custom.cfg") \in TaskType \cap S /\ Write("ds-identify.cfg") \in TaskType \cap S
      /\ Write("installer.sh") \in TaskType \cap S /\ Write("service") \in TaskType \cap S
  BY <1>3 DEF Files
<1>8. ASSUME NEW r \in BOOLEAN, NEW T \in {S, TaskType}
      PROVE  (IF t.custom THEN <<Write("custom.cfg"), Exec("split", r)>> ELSE <<>>) \in Seq(T)
  <2>1. Write("custom.cfg") \in T /\ Exec("split", r) \in T
    BY <1>4, <1>7
  <2> QED
    BY <2>1
<1> HIDE DEF S
<1>9. ASSUME t.os = "ubuntu"
      PROVE  /\ Len(Tasks(t)) >= 8
             /\ Tasks(t)[1] = Script("securebootflag") /\ Tasks(t)[2] = Script("erase")
             /\ Tasks(t)[3] = Script("stream") /\ Tasks(t)[4] = Write("apt.conf")
             /\ \A i \in 4..Len(Tasks(t)) : Tasks(t)[i] \in S
             /\ \E i \in 1..Len(Tasks(t)) : Tasks(t)[i] = Script("kernelupgrade")
  <2> DEFINE a == <<Script("securebootflag"), Script("erase"), Script("stream"),
                    Write("apt.conf"), Write("99_infra.cfg")>>
             b == IF t.custom THEN <<Write("custom.cfg"), Exec("split", FALSE)>> ELSE <<>>
             c == <<Write("ds-identify.cfg"), Write("installer.sh"), Write("service"),
                    Exec("system-configuration", FALSE), Script("kernelupgrade"),
                    Script("efibootset"), Script("reboot")>>
  <2>1. a \in Seq(TaskType) /\ Len(a) = 5
    BY <1>2, <1>7
  <2>2. b \in Seq(TaskType) /\ b \in Seq(S)
    BY <1>8
  <2>3. c \in Seq(TaskType)
    BY <1>2, <1>5, <1>7, SevenTasks, Zenon
  <2>4. Exec("system-configuration", FALSE) \in S /\ Script("kernelupgrade") \in S
    BY <1>9 DEF S, RestTasks
  <2>5. c \in Seq(S)
    BY <1>6, <1>7, <2>4, SevenTasks, Zenon
  <2>6. c[5] = Script("kernelupgrade") /\ Len(c) = 7
    BY FifthOfSeven, Zenon
  <2>7. /\ a[1] = Script("securebootflag") /\ a[2] = Script("erase") /\ a[3] = Script("stream")
        /\ a[4] = Write("apt.conf") /\ a[5] = Write("99_infra.cfg")
    OBVIOUS
  <2>8. Tasks(t) = a \o b \o c
    BY <1>9 DEF Tasks, UbuntuActions
  <2> HIDE DEF a, b, c
  <2>9. \A i \in 4..5 : a[i] \in S
    BY <1>7, <2>7
  <2>10. Parts(S, Tasks(t), a, b, c, 5, 5)
    BY <2>1, <2>2, <2>3, <2>5, <2>6, <2>8, <2>9 DEF Parts
  <2>11. /\ Len(Tasks(t)) >= 8 /\ \A i \in 1..4 : Tasks(t)[i] = a[i]
         /\ \A i \in 4..Len(Tasks(t)) : Tasks(t)[i] \in S
         /\ \E i \in 1..Len(Tasks(t)) : Tasks(t)[i] = c[5]
    BY <2>10, ListShape
  <2> QED
    BY <2>6, <2>7, <2>11
<1>10. ASSUME t.os # "ubuntu"
       PROVE  /\ Len(Tasks(t)) >= 8
              /\ Tasks(t)[1] = Script("securebootflag") /\ Tasks(t)[2] = Script("erase")
              /\ Tasks(t)[3] = Script("stream") /\ Tasks(t)[4] = Write("99_infra.cfg")
              /\ \A i \in 4..Len(Tasks(t)) : Tasks(t)[i] \in S
              /\ \E i \in 1..Len(Tasks(t)) : Tasks(t)[i] = Script("security")
  <2> DEFINE a == <<Script("securebootflag"), Script("erase"), Script("stream"), Write("99_infra.cfg")>>
             b == IF t.custom THEN <<Write("custom.cfg"), Exec("split", t.standalone)>> ELSE <<>>
             c == <<Write("ds-identify.cfg"), Script("security"), Script("efibootset"), Script("reboot")>>
  <2>1. a \in Seq(TaskType) /\ Len(a) = 4
    BY <1>2, <1>7
  <2>2. b \in Seq(TaskType) /\ b \in Seq(S)
    BY <1>1, <1>8
  <2>3. c \in Seq(TaskType)
    BY <1>2, <1>7
  <2>4. Script("security") \in S
    BY <1>10 DEF S, RestTasks
  <2>5. c \in Seq(S)
    BY <1>6, <1>7, <2>4
  <2>6. c[2] = Script("security") /\ Len(c) = 4
    OBVIOUS
  <2>7. /\ a[1] = Script("securebootflag") /\ a[2] = Script("erase") /\ a[3] = Script("stream")
        /\ a[4] = Write("99_infra.cfg")
    OBVIOUS
  <2>8. Tasks(t) = a \o b \o c
    BY <1>10 DEF Tasks, MicrovisorActions
  <2> HIDE DEF a, b, c
  <2>9. \A i \in 4..4 : a[i] \in S
    BY <1>7, <2>7
  <2>10. Parts(S, Tasks(t), a, b, c, 4, 2)
    BY <2>1, <2>2, <2>3, <2>5, <2>6, <2>8, <2>9 DEF Parts
  <2>11. /\ Len(Tasks(t)) >= 8 /\ \A i \in 1..4 : Tasks(t)[i] = a[i]
         /\ \A i \in 4..Len(Tasks(t)) : Tasks(t)[i] \in S
         /\ \E i \in 1..Len(Tasks(t)) : Tasks(t)[i] = c[2]
    BY <2>10, ListShape
  <2> QED
    BY <2>6, <2>7, <2>11
<1>11. /\ \A f : Write(f).kind = "writefile"
       /\ \A k : Script(k).kind = k /\ Script(k).file = "none"
  BY DEF Write, Script
<1>12. \A i \in 1..3 : i \in {1, 2, 3}
  OBVIOUS
<1> QED
  BY <1>9, <1>10, <1>11, <1>12 DEF S

\* What the position of the current task says about it, and the other way round.
LEMMA TaskIs ==
  ASSUME WfOK
  PROVE  /\ wf.cur = 1 <=> Task.kind = "securebootflag"
         /\ wf.cur = 2 <=> Task.kind = "erase"
         /\ wf.cur = 3 <=> Task.kind = "stream"
         /\ wf.cur > 3 => Task \in RestTasks(wf.tmpl)
         /\ wf.cur = 4 => Task.kind = "writefile"
         /\ wf.cur <= 3 => wf.cur # Len(Tasks(wf.tmpl))
         /\ wf.cur \in 1..Len(Tasks(wf.tmpl)) /\ wf.tmpl \in Templates
<1>1. wf.tmpl \in Templates /\ wf.cur \in Nat \ {0} /\ wf.cur <= Len(Tasks(wf.tmpl))
  BY DEF WfOK
<1>2. /\ Len(Tasks(wf.tmpl)) \in Nat /\ Len(Tasks(wf.tmpl)) >= 8
      /\ Tasks(wf.tmpl)[1].kind = "securebootflag" /\ Tasks(wf.tmpl)[2].kind = "erase"
      /\ Tasks(wf.tmpl)[3].kind = "stream" /\ Tasks(wf.tmpl)[4].kind = "writefile"
      /\ \A i \in 4..Len(Tasks(wf.tmpl)) : Tasks(wf.tmpl)[i] \in RestTasks(wf.tmpl)
  BY <1>1, TemplateShape, TasksType
<1>3. ASSUME wf.cur > 3
      PROVE  /\ Task \in RestTasks(wf.tmpl)
             /\ Task.kind \notin {"securebootflag", "erase", "stream"}
  <2>1. wf.cur \in 4..Len(Tasks(wf.tmpl))
    BY <1>1, <1>2, <1>3
  <2>2. Task \in RestTasks(wf.tmpl)
    BY <1>2, <2>1 DEF Task
  <2> QED
    BY <1>1, <2>2, RestKinds
<1>4. /\ wf.cur = 1 => Task.kind = "securebootflag"
      /\ wf.cur = 2 => Task.kind = "erase"
      /\ wf.cur = 3 => Task.kind = "stream"
      /\ wf.cur = 4 => Task.kind = "writefile"
  BY <1>2 DEF Task
<1>5. wf.cur \in {1, 2, 3} \/ wf.cur > 3
  BY <1>1
<1>6. wf.cur <= 3 => wf.cur # Len(Tasks(wf.tmpl))
  BY <1>1, <1>2
<1>7. wf.cur \in 1..Len(Tasks(wf.tmpl))
  BY <1>1, <1>2
<1>8. wf.cur > 3 => wf.cur \notin {1, 2, 3}
  BY <1>1
<1> QED
  BY <1>1, <1>3, <1>4, <1>5, <1>6, <1>7, <1>8

LEMMA SameTask ==
  ASSUME wf'.tmpl = wf.tmpl, wf'.cur = wf.cur
  PROVE  UNCHANGED Task
BY DEF Task

-----------------------------------------------------------------------------
(* The resolv.conf of a disk.                                              *)

\* While a command of the microvisor runs with a resolv.conf of its own, the one of
\* the image is in the backup; at any other time it is in its place.  What is mounted
\* on it is gone when it is time to restore it.
ResolvSteps == {"create", "special", "chroot", "run", "leave", "umount", "restore"}
Swapped(d) == Killed /\ op.at \in ResolvSteps /\ d = op.drive
OwnResolv(d) == IF Swapped(d) THEN disk[d].backup = "image" ELSE disk[d].resolv = "image"
ResolvInv ==
  /\ op.at \in {"backup", "create", "restore"} => Task.resolv
  /\ op.at \in {"start", "backup", "create", "special"} => ~op.bound
  /\ wf.tmpl.os = "microvisor" /\ ~past.torn =>
       /\ \A d \in Drives : disk[d].sys = "image" => OwnResolv(d)
       /\ op.at = "restore" => ~op.bound

LEMMA InitResolv == Init => ResolvInv
<1> SUFFICES ASSUME Init PROVE ResolvInv
  OBVIOUS
<1>1. \A d \in Drives : disk[d].sys # "image"
  BY DEF Init, Disk
<1> QED
  BY <1>1 DEF Init, NewOp, ResolvInv

\* Nothing but resolv.conf moves in the backup or to its place, if an image is there.
ResolvSame ==
  \A d \in Drives : disk'[d].sys = "image" =>
    disk'[d].resolv = "image" \/ (disk[d].sys = "image" /\ disk'[d].resolv = disk[d].resolv)

\* The action ends, or goes on with nothing swapped.
LEMMA ResolvEnds ==
  ASSUME ResolvInv, wf'.tmpl = wf.tmpl, past.torn => past'.torn, ResolvSame,
         op' = NewOp \/ op'.at \notin ResolvSteps \cup {"start", "backup"},
         past'.torn \/ ~Killed \/ op.at \notin ResolvSteps
  PROVE  ResolvInv'
<1>1. op'.at \notin ResolvSteps \cup {"backup"} /\ (op'.at = "start" => ~op'.bound)
  BY DEF NewOp, ResolvSteps
<1>2. ASSUME wf.tmpl.os = "microvisor", ~past'.torn, NEW d \in Drives, disk'[d].sys = "image"
      PROVE  disk'[d].resolv = "image"
  BY <1>2 DEF ResolvInv, ResolvSame, OwnResolv, Swapped
<1>3. \A d : ~Swapped(d)'
  BY <1>1 DEF Swapped
<1> QED
  BY <1>1, <1>2, <1>3 DEF ResolvInv, OwnResolv, ResolvSteps

\* The action waits.
LEMMA ResolvWaits ==
  ASSUME ResolvInv, wf'.tmpl = wf.tmpl, wf'.cur = wf.cur, past.torn => past'.torn,
         UNCHANGED <<disk, op>>
  PROVE  ResolvInv'
<1>1. UNCHANGED Task
  BY SameTask
<1> QED
  BY <1>1 DEF ResolvInv, OwnResolv, Swapped, Killed

\* A command goes on: it writes to resolv.conf on its own drive at most.
LEMMA ResolvMoves ==
  ASSUME ResolvInv, UNCHANGED wf, past.torn => past'.torn,
         op.at \in ResolvSteps, op'.at \in ResolvSteps, op'.drive = op.drive,
         op'.at \in {"create", "restore"} => Task.resolv,
         op'.at \in {"create", "special"} => ~op'.bound,
         op'.at = "restore" => ~op'.bound \/ past'.torn,
         \A d \in Drives : /\ disk'[d].sys = disk[d].sys /\ disk'[d].backup = disk[d].backup
                           /\ disk'[d].resolv = disk[d].resolv \/ Swapped(d)
  PROVE  ResolvInv'
<1>1. UNCHANGED Task
  BY SameTask
<1>2. \A d : Swapped(d)' <=> Swapped(d)
  BY <1>1 DEF Swapped, Killed
<1>3. ASSUME wf.tmpl.os = "microvisor", ~past'.torn, NEW d \in Drives, disk'[d].sys = "image"
      PROVE  OwnResolv(d)'
  BY <1>2, <1>3 DEF ResolvInv, OwnResolv
<1>4. op'.at \notin {"start", "backup"}
  BY DEF ResolvSteps
<1> QED
  BY <1>1, <1>3, <1>4 DEF ResolvInv

LEMMA WfMoves ==
  TypeOK /\ [Next]_vars
    => \/ UNCHANGED wf \/ Failed \/ Done
       \/ wf'.tmpl = wf.tmpl /\ wf'.cur = wf.cur /\ wf'.st # "success"
<1> DEFINE Moves == \/ UNCHANGED wf \/ Failed \/ Done
                    \/ wf'.tmpl = wf.tmpl /\ wf'.cur = wf.cur /\ wf'.st # "success"
<1> SUFFICES ASSUME TypeOK, [Next]_vars PROVE Moves
  OBVIOUS
<1>0. WfOK
  BY TypeParts
<1>1. ASSUME UNCHANGED wf \/ Failed \/ Done PROVE Moves
  BY <1>1
<1>2. ASSUME Again PROVE Moves
  BY <1>1, <1>2 DEF Again
<1>3. CASE GenerateWorkflowInputs \/ PowerCycle
  BY <1>0, <1>3 DEF GenerateWorkflowInputs, PowerCycle, WfOK
<1> HIDE DEF Moves
<1>4. CASE ImageToDiskStep
  BY <1>1, <1>2, <1>4
  DEF ImageToDiskStep, Image2Disk, ChooseDrive, GetToDrive, Answer, findDecompressor, CopyToDrive,
      SyncDrive, CompareHash, Goto, Bodies
<1>5. CASE QemuStep
  BY <1>1, <1>2, <1>5
  DEF QemuStep, QemuNbdImage2Disk, ChooseDrive, GetToFile, Answer, createDecompressor, SaveImage,
      VerifyImage, AttachImage, WaitForPartition, DD, Reprobe, Goto, Bodies
<1>6. CASE FileStep
  BY <1>1, <1>6 DEF FileStep, MountForFile, MountRoot, WriteFile
<1>7. CASE CommandStep
  BY <1>1, <1>7
  DEF CommandStep, MountForCommand, MountRoot, BackupFile, CreateResolv, MountSpecialDirs, Chroot,
      RunCommand, LeaveChroot, UmountSpecialDirs, AfterUmount, RestoreFile, Returns, Unwind, Goto
<1>8. CASE ScriptStep
  BY <1>1, <1>8
  DEF ScriptStep, SecureBootFlag, Eject, ListDisks, WipeDisk, Partprobe, PartitionDisk,
      UpgradeKernel, EnableSecurity, Efibootset, Reboot
<1> QED
  BY <1>1, <1>3, <1>4, <1>5, <1>6, <1>7, <1>8 DEF Next, Timeout, Attach, vars

LEMMA TmplStays == TypeOK /\ [Next]_vars => wf'.tmpl = wf.tmpl
BY WfMoves, TypeParts, FailedIs, DoneIs

\* What has gone wrong is not forgotten.
LEMMA PastGrows ==
  TypeOK /\ [Next]_vars => (past.torn => past'.torn) /\ (past.moved => past'.moved)
<1> SUFFICES ASSUME TypeOK, [Next]_vars
             PROVE  (past.torn => past'.torn) /\ (past.moved => past'.moved)
  OBVIOUS
<1>0. PastOK
  BY TypeParts
<1>1. CASE UNCHANGED past
  BY <1>1
<1>2. ASSUME Torn PROVE (past.torn => past'.torn) /\ (past.moved => past'.moved)
  BY <1>0, <1>2 DEF Torn, PastOK
<1>3. ASSUME ChooseDrive PROVE (past.torn => past'.torn) /\ (past.moved => past'.moved)
  BY <1>0, <1>3 DEF ChooseDrive, PastOK
<1>4. CASE ImageToDiskStep \/ QemuStep
  BY <1>1, <1>3, <1>4
  DEF ImageToDiskStep, Image2Disk, GetToDrive, Answer, findDecompressor, CopyToDrive,
      SyncDrive, CompareHash, QemuStep, QemuNbdImage2Disk, GetToFile, createDecompressor, SaveImage,
      VerifyImage, AttachImage, WaitForPartition, DD, Reprobe, Keep, Untouched
<1>5. CASE FileStep \/ CommandStep
  BY <1>1, <1>2, <1>5
  DEF FileStep, MountForFile, MountRoot, WriteFile, CommandStep, MountForCommand, BackupFile,
      CreateResolv, MountSpecialDirs, Chroot, RunCommand, LeaveChroot, UmountSpecialDirs,
      RestoreFile, Keep, Untouched
<1>6. CASE ScriptStep
  BY <1>1, <1>6
  DEF ScriptStep, SecureBootFlag, Eject, ListDisks, WipeDisk, Partprobe, PartitionDisk,
      UpgradeKernel, EnableSecurity, Efibootset, Reboot, Keep, Untouched
<1>7. CASE Timeout \/ PowerCycle \/ \E d \in Drives : Attach(d)
  BY <1>0, <1>7 DEF Timeout, PowerCycle, Attach, PastOK
<1> QED
  BY <1>1, <1>4, <1>5, <1>6, <1>7 DEF Next, GenerateWorkflowInputs, Untouched, vars

LEMMA ResolvInvStep == TypeOK /\ ResolvInv /\ [Next]_vars => ResolvInv'
<1> SUFFICES ASSUME TypeOK, ResolvInv, [Next]_vars PROVE ResolvInv'
  OBVIOUS
<1>0. WfOK /\ DiskOK /\ op \in OpType /\ PastOK
  BY TypeParts
<1>1. wf'.tmpl = wf.tmpl /\ (past.torn => past'.torn)
  BY TmplStays, PastGrows
<1>2. ASSUME op' = NewOp \/ op'.at \notin ResolvSteps \cup {"start", "backup"},
             past'.torn \/ ~Killed \/ op.at \notin ResolvSteps, ResolvSame
      PROVE  ResolvInv'
  BY <1>1, <1>2, ResolvEnds
<1>3. ASSUME Failed \/ Done PROVE op' = NewOp
  BY <1>3 DEF Failed, Done
<1>4. ASSUME Again PROVE op' = NewOp \/ op'.at = "get"
  <2>1. ASSUME NEW d, NEW n, op' = [NewOp EXCEPT !.at = "get", !.drive = d, !.tries = n]
        PROVE  op'.at = "get"
    BY <2>1 DEF NewOp
  <2> QED
    BY <1>3, <1>4, <2>1 DEF Again
<1>5. ASSUME UNCHANGED disk PROVE ResolvSame
  BY <1>5 DEF ResolvSame
<1>6. ASSUME NEW d, NEW sys, NEW known, Sys(d, sys, known) PROVE ResolvSame
  <2>1. \A e \in Drives :
          \/ e # d /\ disk'[e] = disk[e]
          \/ /\ e = d /\ disk'[e].sys = sys /\ disk'[e].files = {}
             /\ sys = "image" => disk'[e].resolv = "image"
    BY <1>0, <1>6, SysIs
  <2> QED
    BY <2>1 DEF ResolvSame
<1>7. ASSUME NEW d, disk' = [disk EXCEPT ![d].known = TRUE] PROVE ResolvSame
  BY <1>0, <1>7, KnownIs DEF ResolvSame
<1>8. ASSUME NEW d, NEW F, disk' = [disk EXCEPT ![d].files = F] PROVE ResolvSame
  BY <1>0, <1>8, FilesIs DEF ResolvSame
<1>9. ASSUME NEW kind, NEW step, At(kind, step) PROVE op.at = step /\ (kind # "cexec" => ~Killed)
  BY <1>9 DEF At, Killed
<1>10. ASSUME NEW step, Goto(step) PROVE op'.at = step
  BY <1>0, <1>10, GotoIs
<1>11. ASSUME ChooseDrive, ~Killed PROVE ResolvInv'
  <2>1. op' = NewOp \/ op'.at = "get"
    BY <1>0, <1>3, <1>11 DEF ChooseDrive, OpType
  <2>2. ResolvSame
    BY <1>5, <1>11 DEF ChooseDrive
  <2> QED
    BY <1>2, <1>11, <2>1, <2>2 DEF ResolvSteps
<1>12. ASSUME ImageToDiskStep PROVE ResolvInv'
  <2>1. ~Killed
    BY <1>12
    DEF ImageToDiskStep, Image2Disk, GetToDrive, Answer, findDecompressor, CopyToDrive, SyncDrive,
        CompareHash, Streaming, At, Killed
  <2>2. ASSUME GetToDrive PROVE ResolvSame /\ (op' = NewOp \/ op'.at \in {"get", "copy"})
    <3>1. ASSUME NEW b, op' = [op EXCEPT !.at = "copy", !.body = b] PROVE op'.at = "copy"
      BY <1>0, <3>1 DEF OpType
    <3> QED
      BY <1>4, <1>5, <1>6, <2>2, <3>1 DEF GetToDrive, Answer, Bodies
  <2>3. ASSUME CopyToDrive PROVE ResolvSame /\ (op' = NewOp \/ op'.at \in {"get", "sync"})
    BY <1>4, <1>6, <1>10, <2>3 DEF CopyToDrive
  <2>4. ASSUME SyncDrive PROVE ResolvSame /\ (op' = NewOp \/ op'.at \in {"get", "hash"})
    BY <1>4, <1>5, <1>7, <1>10, <2>4 DEF SyncDrive
  <2>5. ASSUME findDecompressor \/ CompareHash PROVE ResolvSame /\ (op' = NewOp \/ op'.at = "get")
    BY <1>3, <1>4, <1>5, <2>5 DEF findDecompressor, CompareHash, Keep, Untouched
  <2> QED
    BY <1>2, <1>11, <1>12, <2>1, <2>2, <2>3, <2>4, <2>5 DEF ImageToDiskStep, Image2Disk, ResolvSteps
<1>13. ASSUME QemuStep PROVE ResolvInv'
  <2>1. ~Killed
    BY <1>13
    DEF QemuStep, QemuNbdImage2Disk, GetToFile, Answer, createDecompressor, SaveImage, VerifyImage,
        AttachImage, WaitForPartition, DD, Reprobe, Streaming, At, Killed
  <2>2. ASSUME GetToFile PROVE ResolvSame /\ (op' = NewOp \/ op'.at \in {"get", "save"})
    <3>1. ASSUME NEW b, op' = [op EXCEPT !.at = "save", !.body = b] PROVE op'.at = "save"
      BY <1>0, <3>1 DEF OpType
    <3> QED
      BY <1>4, <1>5, <2>2, <3>1 DEF GetToFile, Answer, Bodies
  <2>3. ASSUME createDecompressor \/ SaveImage \/ VerifyImage \/ AttachImage
        PROVE  ResolvSame /\ (op' = NewOp \/ op'.at \in {"get", "verify", "attach", "wait"})
    BY <1>4, <1>5, <1>10, <2>3
    DEF createDecompressor, SaveImage, VerifyImage, AttachImage, Keep, Untouched
  <2>4. ASSUME WaitForPartition PROVE ResolvSame /\ op'.at = "dd"
    BY <1>6, <1>10, <2>4 DEF WaitForPartition
  <2>5. ASSUME DD PROVE ResolvSame /\ (op' = NewOp \/ op'.at \in {"get", "reprobe"})
    BY <1>4, <1>6, <1>10, <2>5 DEF DD
  <2>6. ASSUME Reprobe PROVE ResolvSame /\ (op' = NewOp \/ op'.at = "get")
    BY <1>3, <1>4, <1>5, <1>7, <2>6 DEF Reprobe
  <2> QED
    BY <1>2, <1>11, <1>13, <2>1, <2>2, <2>3, <2>4, <2>5, <2>6
    DEF QemuStep, QemuNbdImage2Disk, ResolvSteps
<1>14. ASSUME FileStep PROVE ResolvInv'
  <2>1. ~Killed
    BY <1>14 DEF FileStep, MountForFile, MountRoot, WriteFile, At, Killed
  <2>2. ASSUME MountForFile PROVE ResolvSame /\ (op' = NewOp \/ op'.at = "write")
    <3>1. ASSUME NEW d, op' = [op EXCEPT !.at = "write", !.drive = d] PROVE op'.at = "write"
      BY <1>0, <3>1 DEF OpType
    <3> QED
      BY <1>3, <1>5, <2>2, <3>1 DEF MountForFile, MountRoot, Keep, Untouched
  <2>3. ASSUME WriteFile PROVE ResolvSame /\ op' = NewOp
    BY <1>3, <1>5, <1>8, <2>3 DEF WriteFile
  <2> QED
    BY <1>2, <1>14, <2>1, <2>2, <2>3 DEF FileStep, ResolvSteps
<1>15. ASSUME ScriptStep PROVE ResolvInv'
  <2>1. ~Killed
    BY <1>15
    DEF ScriptStep, SecureBootFlag, Eject, ListDisks, WipeDisk, Partprobe, PartitionDisk,
        UpgradeKernel, EnableSecurity, Efibootset, Reboot, At, Killed
  <2>2. ASSUME NEW d, disk' = [disk EXCEPT ![d] = Disk("blank", TRUE)] PROVE ResolvSame
    BY <1>6, <2>2 DEF Sys
  <2>3. ASSUME NEW d \in Drives, NEW f, disk' = [TakeOthers(d) EXCEPT ![d].files = @ \cup {f}]
        PROVE  ResolvSame
    <3>1. PICK g \in [Drives -> DiskType] : g = TakeOthers(d)
      BY <1>0, TakeOthersType
    <3>2. disk' = [g EXCEPT ![d].files = g[d].files \cup {f}]
      BY <2>3, <3>1
    <3> HIDE <2>3
    <3>3. \A e \in Drives : \/ disk'[e].sys = "blank"
                            \/ disk'[e].sys = disk[e].sys /\ disk'[e].resolv = disk[e].resolv
      BY <1>0, <3>1, <3>2, TakeOthersIs
    <3> QED
      BY <3>3 DEF ResolvSame
  <2>4. ASSUME SecureBootFlag \/ Partprobe \/ Efibootset \/ Reboot PROVE ResolvInv'
    BY <1>2, <1>3, <1>5, <2>1, <2>4
    DEF SecureBootFlag, Partprobe, Efibootset, Reboot, Keep, Untouched
  <2>5. ASSUME Eject PROVE ResolvInv'
    BY <1>1, <1>2, <1>3, <1>5, <2>1, <2>5, ResolvWaits DEF Eject
  <2>6. ASSUME ListDisks PROVE ResolvInv'
    <3>1. op'.at = "wipe"
      BY <1>0, <2>6 DEF ListDisks, OpType
    <3> QED
      BY <1>2, <1>5, <2>1, <2>6, <3>1 DEF ListDisks, Untouched, ResolvSteps
  <2>7. ASSUME WipeDisk PROVE ResolvInv'
    <3>1. ASSUME NEW d, op' = [op EXCEPT !.left = op.left \ {d}] PROVE op'.at = op.at
      BY <1>0, <3>1 DEF OpType
    <3>2. op' = NewOp \/ op'.at = "wipe"
      BY <1>3, <2>7, <3>1 DEF WipeDisk, At
    <3>3. ResolvSame
      BY <1>5, <2>2, <2>7 DEF WipeDisk
    <3> QED
      BY <1>2, <2>1, <3>2, <3>3 DEF ResolvSteps
  <2>8. ASSUME PartitionDisk PROVE ResolvInv'
    <3>1. ASSUME NEW d, op' = [op EXCEPT !.at = "kernel", !.drive = d] PROVE op'.at = "kernel"
      BY <1>0, <3>1 DEF OpType
    <3>2. op' = NewOp \/ op'.at = "kernel"
      BY <1>3, <2>8, <3>1 DEF PartitionDisk
    <3>3. present \subseteq Drives
      BY DEF TypeOK
    <3>4. ResolvSame
      BY <1>5, <2>3, <2>8, <3>3 DEF PartitionDisk
    <3> QED
      BY <1>2, <2>1, <3>2, <3>4 DEF ResolvSteps
  <2>9. ASSUME UpgradeKernel PROVE ResolvInv'
    <3>1. op' = NewOp
      BY <1>3, <2>9 DEF UpgradeKernel
    <3>2. wf.tmpl.os # "microvisor"
      <4>1. Task.kind = "kernelupgrade"
        BY <2>9 DEF UpgradeKernel, At
      <4>2. wf.cur > 3 /\ wf.tmpl \in Templates
        <5>1. wf.cur \in Nat \ {0}
          BY <1>0 DEF WfOK
        <5> QED
          BY <1>0, <4>1, <5>1, TaskIs
      <4> QED
        BY <1>0, <4>1, <4>2, TaskIs, RestKinds
    <3>3. op'.at = "start" /\ ~op'.bound
      BY <3>1 DEF NewOp
    <3> QED
      BY <1>1, <3>2, <3>3 DEF ResolvInv
  <2>10. ASSUME EnableSecurity PROVE ResolvInv'
    <3>1. op' = NewOp
      BY <1>3, <2>10 DEF EnableSecurity
    <3>2. present \subseteq Drives
      BY DEF TypeOK
    <3>3. ResolvSame
      BY <1>5, <2>3, <2>10, <3>2 DEF EnableSecurity
    <3> QED
      BY <1>2, <2>1, <3>1, <3>3
  <2> QED
    BY <1>15, <2>4, <2>5, <2>6, <2>7, <2>8, <2>9, <2>10 DEF ScriptStep
<1>16. ASSUME CommandStep PROVE ResolvInv'
  <2>0. Task.kind = "cexec"
    BY <1>16
    DEF CommandStep, MountForCommand, MountRoot, BackupFile, CreateResolv, MountSpecialDirs, Chroot,
        RunCommand, LeaveChroot, UmountSpecialDirs, RestoreFile, At
  <2>1. Killed <=> Task.resolv
    BY <2>0 DEF Killed
  <2>2. ASSUME NEW ok, Returns(ok) PROVE op' = NewOp
    BY <1>3, <2>2 DEF Returns
  <2>3. ASSUME MountForCommand PROVE ResolvInv'
    <3>1. CASE Failed
      <4>1. ResolvSame /\ op.at = "start"
        BY <1>5, <2>3 DEF MountForCommand, MountRoot, Keep, Untouched, At
      <4> QED
        BY <1>2, <1>3, <3>1, <4>1 DEF ResolvSteps
    <3>2. CASE ~Failed
      <4> DEFINE next == IF Task.resolv THEN "backup" ELSE "special"
      <4>1. UNCHANGED <<wf, disk, past>> /\ op.at = "start"
            /\ \E d : op' = [op EXCEPT !.at = next, !.drive = d]
        BY <2>3, <3>2 DEF MountForCommand, MountRoot, Keep, Untouched, At
      <4>2. op'.at = next /\ op'.bound = op.bound
        BY <1>0, <4>1 DEF OpType
      <4>3. UNCHANGED Task
        BY <4>1, SameTask
      <4>4. \A d : ~Swapped(d) /\ ~Swapped(d)'
        BY <4>1, <4>2, <4>3 DEF Swapped, Killed, ResolvSteps
      <4>5. op'.at = "backup" => Task.resolv
        BY <4>2
      <4>6. op'.at \in {"backup", "special"}
        BY <4>2
      <4> QED
        BY <4>1, <4>2, <4>3, <4>4, <4>5, <4>6 DEF ResolvInv, OwnResolv
    <3> QED
      BY <3>1, <3>2
  <2>4. ASSUME BackupFile PROVE ResolvInv'
    <3>1. op.at = "backup" /\ Task.resolv /\ UNCHANGED past
      BY <2>4 DEF BackupFile, At, ResolvInv
    <3>2. CASE Failed
      <4>1. ResolvSame \/ Goto("create")
        BY <1>5, <2>4 DEF BackupFile
      <4>2. ~Goto("create")
        BY <1>3, <1>10, <3>2 DEF NewOp
      <4> QED
        BY <1>2, <1>3, <3>1, <3>2, <4>1, <4>2 DEF ResolvSteps
    <3>3. CASE ~Failed
      <4>1. /\ Goto("create")
            /\ disk' = [disk EXCEPT ![op.drive].backup = disk[op.drive].resolv,
                                    ![op.drive].resolv = "absent"]
        BY <2>4, <3>3 DEF BackupFile
      <4>2. UNCHANGED wf /\ op'.at = "create" /\ op'.drive = op.drive /\ op'.bound = op.bound
        BY <1>0, <4>1, GotoIs
      <4>3. \A e \in Drives :
              /\ disk'[e].sys = disk[e].sys
              /\ e # op.drive => disk'[e] = disk[e]
              /\ e = op.drive => disk'[e].backup = disk[e].resolv
        BY <1>0, <4>1 DEF DiskOK, DiskType
      <4>4. UNCHANGED Task
        BY <4>2, SameTask
      <4>5. \A d : ~Swapped(d) /\ (Swapped(d)' <=> d = op.drive)
        BY <2>1, <3>1, <4>2, <4>4 DEF Swapped, ResolvSteps, Killed
      <4>6. ASSUME wf.tmpl.os = "microvisor", ~past'.torn, NEW d \in Drives,
                   disk'[d].sys = "image"
            PROVE  OwnResolv(d)'
        <5>1. disk[d].resolv = "image"
          BY <3>1, <4>3, <4>5, <4>6 DEF ResolvInv, OwnResolv
        <5> QED
          BY <4>3, <4>5, <5>1 DEF OwnResolv
      <4> QED
        BY <1>1, <3>1, <4>2, <4>4, <4>6 DEF ResolvInv
    <3> QED
      BY <3>2, <3>3
  <2>5. ASSUME NEW step \in ResolvSteps \ {"create", "special"}, Goto(step) \/ Unwind(step),
               op.at \in ResolvSteps, UNCHANGED disk,
               step = "restore" => Task.resolv /\ ~op.bound
        PROVE  ResolvInv'
    <3>1. UNCHANGED wf /\ op'.at = step /\ op'.drive = op.drive /\ op'.bound = op.bound
      BY <1>0, <2>5, GotoIs
    <3> QED
      BY <1>1, <2>5, <3>1, ResolvMoves
  <2>6. ASSUME CreateResolv PROVE ResolvInv'
    <3>1. op.at = "create" /\ Task.resolv /\ ~op.bound
      BY <2>6 DEF CreateResolv, At, ResolvInv
    <3>2. ASSUME Unwind("restore"), UNCHANGED disk PROVE ResolvInv'
      BY <2>5, <3>1, <3>2 DEF ResolvSteps
    <3>3. ASSUME Goto("special"), disk' = [disk EXCEPT ![op.drive].resolv = "empty"] PROVE ResolvInv'
      <4>1. UNCHANGED wf /\ op'.at = "special" /\ op'.drive = op.drive /\ op'.bound = op.bound
        BY <1>0, <3>3, GotoIs
      <4>2. \A d \in Drives :
              /\ disk'[d].sys = disk[d].sys /\ disk'[d].backup = disk[d].backup
              /\ disk'[d].resolv = disk[d].resolv \/ d = op.drive
        BY <1>0, <3>3 DEF DiskOK, DiskType
      <4>3. Swapped(op.drive)
        BY <2>1, <3>1 DEF Swapped, ResolvSteps
      <4>4. \A d \in Drives :
              /\ disk'[d].sys = disk[d].sys /\ disk'[d].backup = disk[d].backup
              /\ disk'[d].resolv = disk[d].resolv \/ Swapped(d)
        BY <4>2, <4>3
      <4> QED
        BY <1>1, <3>1, <4>1, <4>4, ResolvMoves DEF ResolvSteps
    <3> QED
      BY <2>6, <3>2, <3>3 DEF CreateResolv
  <2>7. ASSUME MountSpecialDirs PROVE ResolvInv'
    <3>1. op.at = "special" /\ ~op.bound /\ UNCHANGED disk
      BY <2>7 DEF MountSpecialDirs, At, ResolvInv, Keep, Untouched
    <3>2. ASSUME NEW b, op' = [op EXCEPT !.at = "chroot", !.bound = b], UNCHANGED wf PROVE ResolvInv'
      <4>1. op'.at = "chroot" /\ op'.drive = op.drive
        BY <1>0, <3>2 DEF OpType
      <4> QED
        BY <1>1, <3>1, <3>2, <4>1, ResolvMoves DEF ResolvSteps
    <3>3. ASSUME Task.resolv, Unwind("restore") PROVE ResolvInv'
      BY <2>5, <3>1, <3>3 DEF ResolvSteps
    <3>4. ASSUME ~Task.resolv, Failed PROVE ResolvInv'
      BY <1>2, <1>3, <1>5, <2>1, <3>1, <3>4
    <3> QED
      BY <2>7, <3>2, <3>3, <3>4 DEF MountSpecialDirs
  <2>8. ASSUME Chroot PROVE ResolvInv'
    BY <2>5, <2>8 DEF Chroot, At, ResolvSteps, Keep, Untouched
  <2>9. ASSUME RunCommand PROVE ResolvInv'
    <3>1. ASSUME NEW b, op' = [op EXCEPT !.at = "leave", !.ok = b]
          PROVE  op'.at = "leave" /\ op'.drive = op.drive
      BY <1>0, <3>1 DEF OpType
    <3>2. /\ op.at = "run" /\ op'.at = "leave" /\ op'.drive = op.drive /\ UNCHANGED wf
          /\ \E F : disk' = [disk EXCEPT ![op.drive].files = F]
      BY <2>9, <3>1 DEF RunCommand, At
    <3>3. \A d \in Drives : /\ disk'[d].sys = disk[d].sys /\ disk'[d].backup = disk[d].backup
                            /\ disk'[d].resolv = disk[d].resolv
      BY <1>0, <3>2, FilesIs
    <3> QED
      BY <1>1, <3>2, <3>3, ResolvMoves DEF ResolvSteps
  <2>10. ASSUME Torn PROVE past'.torn \/ ~Killed
    BY <1>0, <2>1, <2>10 DEF Torn, PastOK
  <2>11. ASSUME LeaveChroot PROVE ResolvInv'
    <3>1. op.at = "leave" /\ UNCHANGED disk
      BY <2>11 DEF LeaveChroot, At
    <3>2. CASE Goto("umount")
      BY <2>5, <3>1, <3>2 DEF ResolvSteps
    <3>3. CASE Returns(op.ok) /\ Torn
      BY <1>2, <1>5, <2>2, <2>10, <3>1, <3>3
    <3> QED
      BY <2>11, <3>2, <3>3 DEF LeaveChroot
  <2>12. ASSUME UmountSpecialDirs PROVE ResolvInv'
    <3>1. op.at = "umount" /\ UNCHANGED disk
      BY <2>12 DEF UmountSpecialDirs, At
    <3>2. ASSUME NEW b, Task.resolv, op' = [op EXCEPT !.at = "restore", !.bound = b], UNCHANGED wf,
                 ~b \/ past'.torn
          PROVE  ResolvInv'
      <4>1. op'.at = "restore" /\ op'.drive = op.drive /\ op'.bound = b
        BY <1>0, <3>2 DEF OpType
      <4> QED
        BY <1>1, <3>1, <3>2, <4>1, ResolvMoves DEF ResolvSteps
    <3>3. ASSUME ~Task.resolv, Returns(op.ok) PROVE ResolvInv'
      BY <1>2, <1>5, <2>1, <2>2, <3>1, <3>3
    <3> QED
      BY <2>1, <2>10, <2>12, <3>2, <3>3 DEF UmountSpecialDirs, AfterUmount
  <2>13. ASSUME RestoreFile PROVE ResolvInv'
    <3>1. op.at = "restore" /\ Task.resolv /\ op' = NewOp
      BY <2>2, <2>13 DEF RestoreFile, At, ResolvInv
    <3>2. CASE Torn /\ UNCHANGED disk
      BY <1>2, <1>5, <2>10, <3>1, <3>2
    <3>3. CASE op.bound /\ UNCHANGED <<disk, past>>
      <4>1. wf.tmpl.os # "microvisor" \/ past'.torn
        BY <1>1, <3>1, <3>3 DEF ResolvInv
      <4>2. op'.at = "start" /\ ~op'.bound
        BY <3>1 DEF NewOp
      <4> QED
        BY <1>1, <4>1, <4>2 DEF ResolvInv
    <3>4. ASSUME UNCHANGED past,
                 disk' = [disk EXCEPT ![op.drive].resolv = disk[op.drive].backup,
                                      ![op.drive].backup = "absent"]
          PROVE  ResolvInv'
      <4>1. op'.at = "start" /\ ~op'.bound
        BY <3>1 DEF NewOp
      <4>2. \A e \in Drives :
              /\ disk'[e].sys = disk[e].sys
              /\ e # op.drive => disk'[e] = disk[e]
              /\ e = op.drive => disk'[e].resolv = disk[e].backup
        BY <1>0, <3>4 DEF DiskOK, DiskType
      <4>3. \A d : ~Swapped(d)' /\ (Swapped(d) <=> d = op.drive)
        <5>1. \A d : ~Swapped(d)'
          BY <4>1 DEF Swapped, ResolvSteps
        <5>2. op.at \in ResolvSteps /\ Killed
          BY <2>1, <3>1 DEF ResolvSteps
        <5> QED
          BY <5>1, <5>2 DEF Swapped
      <4>4. ASSUME wf.tmpl.os = "microvisor", ~past'.torn, NEW d \in Drives, disk'[d].sys = "image"
            PROVE  disk'[d].resolv = "image"
        <5>1. disk[d].sys = "image" /\ ~past.torn
          BY <3>4, <4>2, <4>4
        <5>2. OwnResolv(d)
          BY <4>4, <5>1 DEF ResolvInv
        <5>3. CASE d = op.drive
          BY <4>2, <4>3, <5>2, <5>3 DEF OwnResolv
        <5>4. CASE d # op.drive
          BY <4>2, <4>3, <5>2, <5>4 DEF OwnResolv
        <5> QED
          BY <5>3, <5>4
      <4> HIDE <3>4
      <4> QED
        BY <1>1, <4>1, <4>3, <4>4 DEF ResolvInv, OwnResolv
    <3> QED
      BY <2>13, <3>2, <3>3, <3>4 DEF RestoreFile
  <2> QED
    BY <1>16, <2>3, <2>4, <2>6, <2>7, <2>8, <2>9, <2>11, <2>12, <2>13 DEF CommandStep
<1>17. ASSUME Timeout PROVE ResolvInv'
  <2>1. past'.torn \/ ~Killed
    BY <1>0, <1>17 DEF Timeout, PastOK
  <2> QED
    BY <1>2, <1>3, <1>5, <1>17, <2>1 DEF Timeout
<1>18. ASSUME PowerCycle PROVE ResolvInv'
  <2>1. past'.torn \/ ~Killed
    <3>1. past' = [past EXCEPT !.torn = past.torn \/ Killed]
      BY <1>18 DEF PowerCycle
    <3> QED
      BY <1>0, <3>1 DEF PastOK
  <2>2. \A d \in Drives : disk'[d].sys = disk[d].sys /\ disk'[d].resolv = disk[d].resolv
    BY <1>0, <1>18 DEF PowerCycle, DiskOK, DiskType
  <2>3. ResolvSame
    BY <2>2 DEF ResolvSame
  <2> QED
    BY <1>2, <1>18, <2>1, <2>3 DEF PowerCycle
<1>19. ASSUME NEW d, Attach(d) PROVE ResolvInv'
  BY <1>1, <1>19, ResolvWaits DEF Attach
<1>20. ASSUME GenerateWorkflowInputs PROVE ResolvInv'
  <2>1. wf'.cur = wf.cur
    BY <1>0, <1>20 DEF GenerateWorkflowInputs, WfOK
  <2> QED
    BY <1>1, <1>20, <2>1, ResolvWaits DEF GenerateWorkflowInputs, Untouched
<1>21. CASE UNCHANGED vars
  BY <1>1, <1>21, ResolvWaits DEF vars
<1> QED
  BY <1>12, <1>13, <1>14, <1>15, <1>16, <1>17, <1>18, <1>19, <1>20, <1>21 DEF Next

-----------------------------------------------------------------------------
(* The disk of the operating system.                                       *)

StreamSteps == {"get", "copy", "sync", "hash", "save", "verify", "attach", "wait", "dd", "reprobe"}
MountSteps == {"write", "backup", "kernel"} \cup ResolvSteps

\* No other drive holds anything of the image.
Only(x) == \A d \in Drives : Begun(d) => d = x

\* What the task i of the workflow leaves on its drive.
Has(d, i) ==
  LET k == Tasks(wf.tmpl)[i] IN
  /\ k.kind \in {"writefile", "cexec"} /\ k.file # "custom.cfg"
     /\ ~(k.kind = "cexec" /\ wf.tmpl.os = "microvisor") => k.file \in disk[d].files
  /\ k.kind = "kernelupgrade" => "partitions" \in disk[d].files
  /\ k.kind = "security" => "sealed" \in disk[d].files

\* Before the stream no drive has anything of the image, and once the erasure is
\* over, no older system is left.
Erasing ==
  /\ wf.cur <= 2 => \A d \in Drives : ~Begun(d)
  /\ wf.cur <= 3 => \A d \in Drives : disk[d].files = {}
  /\ \A d \in present \cap Fixed :
       disk[d].sys = "old" /\ wf.cur # 1 => wf.cur = 2 /\ (op.at = "wipe" => d \in op.left)

\* The drive that is streamed to.
Target ==
  /\ op.at \in StreamSteps => op.drive \in present \cap Fixed /\ Only(op.drive)
  /\ op.at \in {"sync", "hash"} => disk[op.drive].sys \in Written(op.body)
  /\ op.at = "reprobe" => disk[op.drive].sys = IF op.body = "whole" THEN "image" ELSE "part"

\* The drive that was streamed to, and what the actions since then left there.
Placed(x) ==
  /\ x \in present \cap Fixed /\ Begun(x) /\ Only(x)
  /\ disk[x].sys = "part" => ~image.sha
  /\ \A d \in Drives : disk[d].files # {} => d = x /\ Bootable(x)
  /\ wf.cur > 4 => Bootable(x) /\ disk[x].known
  /\ \A i \in 1..Len(Tasks(wf.tmpl)) : i < wf.cur \/ wf.st = "success" => Has(x, i)

\* The running action works on that drive.
Mounted(x) ==
  /\ op.at \in MountSteps => op.drive = x /\ Bootable(x) /\ disk[x].known
  /\ op.at \in {"leave", "umount", "restore"} /\ op.ok
       => wf.tmpl.os = "microvisor" \/ Task.file \in disk[x].files
  /\ op.at = "kernel" => "partitions" \in disk[x].files

Calm == Erasing /\ Target /\ (wf.cur > 3 => \E x \in Drives : Placed(x) /\ Mounted(x))

DriveInv ==
  /\ Fixed \ Late \subseteq present
  /\ wf.st = "success" => wf.cur > 3
  /\ ~past.moved => Calm

LEMMA InitDrive == Init => DriveInv
<1> SUFFICES ASSUME Init PROVE DriveInv
  OBVIOUS
<1>1. wf.cur = 1 /\ wf.st = "none" /\ op.at = "start" /\ present = Drives \ Late
  BY DEF Init, NewOp
<1>2. \A d \in Drives : disk[d].sys \in {"old", "blank"} /\ disk[d].files = {}
  BY DEF Init, Disk
<1>3. Erasing
  BY <1>1, <1>2 DEF Erasing, Begun
<1>4. Target
  BY <1>1 DEF Target, StreamSteps
<1> QED
  BY <1>1, <1>3, <1>4 DEF DriveInv, Calm, Fixed

\* Every action that chooses a drive chooses a fixed one that is there.
LEMMA ChosenFixed ==
  ASSUME RestOK, NEW d \in Chosen
  PROVE  d \in present \cap Fixed
<1>1. /\ present \subseteq Drives /\ name \in [Drives -> Nat \ {0}]
      /\ \A a, b \in Drives : name[a] = name[b] => a = b
      /\ \A a \in Drives : Attr[a] \in [rank : 0..2, size : Nat, rm : BOOLEAN]
  BY DrivesAssumption DEF RestOK
<1>2. d \in present /\ name[d] = DriveDetect(GetDrives)
  BY DEF Chosen
<1> DEFINE S == filterDrives(GetDrives)
<1>3. \A a \in GetDrives : \E e \in present : a = Info(e)
  BY DEF GetDrives
<1>4. \A e \in present : /\ Info(e) \in DriveInfo /\ Info(e).name = name[e]
                         /\ Info(e).size = Attr[e].size /\ Info(e).rm = Attr[e].rm
  BY <1>1 DEF Info, DriveInfo
<1>5. S \in SUBSET DriveInfo /\ \A a \in S : a \in GetDrives /\ a.size # 0 /\ ~a.rm
  BY <1>3, <1>4 DEF filterDrives
<1>6. Named(S)
  <2> SUFFICES ASSUME NEW a \in S, NEW b \in S, a.name = b.name PROVE a = b
    BY DEF Named
  <2>1. PICK e \in present : a = Info(e)
    BY <1>3, <1>5
  <2>2. PICK f \in present : b = Info(f)
    BY <1>3, <1>5
  <2>3. e = f
    BY <1>1, <1>4, <2>1, <2>2
  <2> QED
    BY <2>1, <2>2, <2>3
<1>7. S # {}
  BY <1>1, <1>2 DEF DriveDetect, NoDrive
<1>8. PICK a \in S : a = (CHOOSE b \in S : IsFirst(b, S))
  BY <1>5, <1>6, <1>7, FirstExists
<1>9. DriveDetect(GetDrives) = a.name
  BY <1>7, <1>8 DEF DriveDetect
<1>10. PICK e \in present : a = Info(e)
  BY <1>3, <1>5
<1>11. e = d
  BY <1>1, <1>2, <1>4, <1>9, <1>10
<1> QED
  BY <1>1, <1>2, <1>4, <1>5, <1>10, <1>11 DEF Fixed

\* What is on the disks stays, and the action waits or ends.
SameDisks ==
  \A d \in Drives : /\ disk'[d].sys = disk[d].sys /\ disk'[d].files = disk[d].files
                    /\ disk[d].known => disk'[d].known

LEMMA SamePlaced ==
  ASSUME WfOK, NEW x \in Drives, Placed(x), SameDisks, UNCHANGED image,
         wf'.tmpl = wf.tmpl, wf'.cur = wf.cur, wf'.st = "success" => wf.st = "success",
         present \cap Fixed \subseteq present'
  PROVE  Placed(x)'
<1>1. \A i : Has(x, i) => Has(x, i)'
  BY DEF Has, SameDisks
<1>2. \A d \in Drives : (Begun(d)' <=> Begun(d)) /\ (Bootable(d)' <=> Bootable(d))
  BY DEF SameDisks, Begun, Bootable
<1>3. /\ (x \in present \cap Fixed /\ Begun(x) /\ Only(x))'
      /\ (disk[x].sys = "part" => ~image.sha)'
  BY <1>2 DEF Placed, SameDisks, Only
<1>4. \A d \in Drives : (disk[d].files # {} => d = x /\ Bootable(x))'
  BY <1>2 DEF Placed, SameDisks
<1>5. (wf.cur > 4 => Bootable(x) /\ disk[x].known)'
  BY <1>2 DEF Placed, SameDisks
<1> QED
  BY <1>1, <1>3, <1>4, <1>5 DEF Placed

LEMMA CalmStays ==
  ASSUME WfOK, Calm, SameDisks, UNCHANGED image, op' = op \/ op' = NewOp,
         wf'.tmpl = wf.tmpl, wf'.cur = wf.cur, wf'.st = "success" => wf.st = "success",
         present \cap Fixed \subseteq present',
         \A d \in (present' \cap Fixed) \ present :
           disk[d].sys = "old" => wf.cur = 1 \/ (wf.cur = 2 /\ op.at # "wipe")
  PROVE  Calm'
<1>1. \A d \in Drives : (Begun(d)' <=> Begun(d)) /\ (Bootable(d)' <=> Bootable(d))
  BY DEF SameDisks, Begun, Bootable
<1>2. NewOp.at = "start"
  BY DEF NewOp
<1>3. Fixed \subseteq Drives
  BY DEF Fixed
<1>4. Erasing'
  <2>1. ASSUME NEW d \in present' \cap Fixed, disk'[d].sys = "old", wf.cur # 1
        PROVE  wf.cur = 2 /\ (op'.at = "wipe" => d \in op'.left)
    <3>1. disk[d].sys = "old"
      BY <1>3, <2>1 DEF SameDisks
    <3>2. wf.cur = 2 /\ (op.at = "wipe" => d \in op.left)
      BY <2>1, <3>1 DEF Calm, Erasing
    <3> QED
      BY <1>2, <3>2
  <2> QED
    BY <1>1, <2>1 DEF Calm, Erasing, SameDisks
<1>5. Target'
  <2>1. CASE op' = NewOp
    BY <1>2, <2>1 DEF Target, StreamSteps
  <2>2. CASE op' = op
    <3>1. \A b : Written(b)' = Written(b)
      BY DEF Written
    <3>2. op.at \in StreamSteps => op.drive \in (present' \cap Fixed) /\ Only(op.drive)'
      BY <1>1, <2>2 DEF Calm, Target, Only
    <3>3. op.at \in StreamSteps => disk'[op.drive].sys = disk[op.drive].sys
      BY <1>3 DEF Calm, Target, SameDisks
    <3> QED
      BY <2>2, <3>1, <3>2, <3>3 DEF Calm, Target, StreamSteps
  <2> QED
    BY <2>1, <2>2
<1>6. ASSUME wf'.cur > 3 PROVE \E x \in Drives : Placed(x)' /\ Mounted(x)'
  <2>1. PICK x \in Drives : Placed(x) /\ Mounted(x)
    BY <1>6 DEF Calm
  <2>2. Placed(x)'
    BY <2>1, SamePlaced
  <2>3. UNCHANGED Task
    BY SameTask
  <2>4. CASE op' = NewOp
    BY <1>2, <2>2, <2>4 DEF Mounted, MountSteps, ResolvSteps
  <2>5. CASE op' = op
    BY <1>1, <2>1, <2>2, <2>3, <2>5 DEF Mounted, SameDisks
  <2> QED
    BY <2>4, <2>5
<1> QED
  BY <1>4, <1>5, <1>6 DEF Calm

\* A step of the stream writes to its drive x, and to no other.
WritesTo(x) ==
  \A d \in Drives : IF d = x THEN disk'[d].files = {}
                    ELSE disk'[d].sys = disk[d].sys /\ disk'[d].files = disk[d].files

LEMMA CalmStream ==
  ASSUME WfOK, Calm, wf.cur = 3, wf'.cur = wf.cur, wf'.tmpl = wf.tmpl, UNCHANGED <<image, present>>,
         NEW x \in present \cap Fixed, Only(x), WritesTo(x), disk'[x].sys # "old",
         op' = NewOp \/ (op'.at \in StreamSteps /\ op'.drive = x),
         op'.at \in {"sync", "hash"} => disk'[x].sys \in Written(op'.body),
         op'.at = "reprobe" => disk'[x].sys = IF op'.body = "whole" THEN "image" ELSE "part"
  PROVE  Calm'
<1>1. x \in Drives /\ Fixed \subseteq Drives
  BY DEF Fixed
<1>2. Only(x)'
  BY <1>1 DEF Only, WritesTo, Begun
<1>3. Erasing'
  <2>1. \A d \in Drives : disk'[d].files = {}
    BY DEF WritesTo, Calm, Erasing
  <2>2. ASSUME NEW d \in present' \cap Fixed PROVE disk'[d].sys # "old"
    <3>1. d = x \/ disk'[d].sys = disk[d].sys
      BY <1>1 DEF WritesTo
    <3> QED
      BY <3>1 DEF Calm, Erasing
  <2> QED
    BY <2>1, <2>2 DEF Erasing
<1>4. Target'
  <2>1. NewOp.at = "start"
    BY DEF NewOp
  <2>2. \A b : Written(b)' = Written(b)
    BY DEF Written
  <2>3. CASE op' = NewOp
    BY <2>1, <2>3 DEF Target, StreamSteps
  <2>4. CASE op'.drive = x
    BY <1>2, <2>2, <2>4 DEF Target
  <2> QED
    BY <2>3, <2>4
<1> QED
  BY <1>3, <1>4 DEF Calm

\* The stream is over: the image, or what the server gave for it, is on x.
LEMMA CalmStreamed ==
  ASSUME WfOK, Calm, wf.cur = 3, wf.st # "success", Done, UNCHANGED <<image, present>>,
         NEW x \in present \cap Fixed, Only(x), WritesTo(x),
         disk'[x].sys \in {"scrap", "part", "image"}, disk'[x].sys = "part" => ~image.sha
  PROVE  Calm'
<1>1. x \in Drives /\ Fixed \subseteq Drives
  BY DEF Fixed
<1>2. op' = NewOp /\ wf'.tmpl = wf.tmpl /\ wf'.cur = 4 /\ wf'.st = wf.st
  BY DoneIs, TaskIs
<1>3. wf.tmpl \in Templates
  BY DEF WfOK
<1>4. Only(x)' /\ Begun(x)'
  BY <1>1 DEF Only, WritesTo, Begun
<1>5. \A d \in Drives : disk'[d].files = {}
  BY DEF WritesTo, Calm, Erasing
<1>6. ASSUME NEW d \in Drives, d # x PROVE disk'[d].sys = disk[d].sys
  BY <1>6 DEF WritesTo
<1>7. Erasing'
  <2>1. ASSUME NEW d \in present' \cap Fixed PROVE disk'[d].sys # "old"
    <3>1. d = x \/ disk'[d].sys = disk[d].sys
      BY <1>1, <1>6
    <3> QED
      BY <3>1 DEF Calm, Erasing
  <2> QED
    BY <1>2, <2>1 DEF Erasing
<1>8. Target'
  BY <1>2 DEF Target, StreamSteps, NewOp
<1>9. Mounted(x)'
  BY <1>2 DEF Mounted, MountSteps, ResolvSteps, NewOp
<1>10. ASSUME NEW i \in 1..Len(Tasks(wf'.tmpl)), i < 4 PROVE Has(x, i)'
  <2>1. i \in {1, 2, 3}
    BY <1>10
  <2>2. Tasks(wf.tmpl)[i].kind \in {"securebootflag", "erase", "stream"}
    BY <1>3, <2>1, TemplateShape
  <2> QED
    BY <1>2, <2>2 DEF Has
<1>11. Placed(x)'
  BY <1>1, <1>2, <1>4, <1>5, <1>10 DEF Placed
<1> QED
  BY <1>1, <1>7, <1>8, <1>9, <1>11 DEF Calm

\* An action after the stream leaves on x what is there; other drives become blank
\* at most.
Keeps(x) ==
  /\ disk'[x].sys = disk[x].sys /\ (disk[x].known => disk'[x].known)
  /\ disk[x].files \ {"custom.cfg"} \subseteq disk'[x].files
  /\ disk'[x].files # {} => Bootable(x)
  /\ \A d \in Drives \ {x} : /\ disk'[d].sys \in {disk[d].sys, "blank"}
                             /\ disk'[d].files \in {disk[d].files, {}}

\* The workflow is where it was, or the task at hand is finished.
GoesOn(x) ==
  \/ UNCHANGED wf
  \/ /\ Done /\ Bootable(x) /\ disk[x].known
     /\ \A i \in Nat : i = wf.cur => Has(x, i)'

LEMMA PlacedGoes ==
  ASSUME WfOK, wf.cur > 3, NEW x \in Drives, Placed(x), Keeps(x), UNCHANGED <<image, present>>,
         GoesOn(x)
  PROVE  Placed(x)'
<1>1. wf'.tmpl = wf.tmpl
  BY DoneIs DEF GoesOn
<1>2. \A i : Has(x, i) => Has(x, i)'
  BY <1>1 DEF Has, Keeps
<1>3. (Begun(x)' <=> Begun(x)) /\ (Bootable(x)' <=> Bootable(x))
  BY DEF Keeps, Begun, Bootable
<1>4. /\ (x \in present \cap Fixed /\ Begun(x))'
      /\ (disk[x].sys = "part" => ~image.sha)'
  BY <1>3 DEF Placed, Keeps
<1>5. Only(x)'
  BY DEF Placed, Keeps, Only, Begun
<1>6. \A d \in Drives : (disk[d].files # {} => d = x /\ Bootable(x))'
  BY <1>3 DEF Placed, Keeps
<1>7. (wf.cur > 4 => Bootable(x) /\ disk[x].known)'
  BY <1>3 DEF Placed, Keeps, GoesOn
<1>8. ASSUME NEW i \in 1..Len(Tasks(wf.tmpl)), i < wf'.cur \/ wf'.st = "success"
      PROVE  Has(x, i)'
  <2>1. CASE UNCHANGED wf
    BY <1>2, <1>8, <2>1 DEF Placed
  <2>2. ASSUME Done, \A j \in Nat : j = wf.cur => Has(x, j)' PROVE Has(x, i)'
    <3>1. wf.cur \in Nat /\ Len(Tasks(wf.tmpl)) \in Nat
      BY TaskIs, TasksType DEF WfOK
    <3>2. i < wf.cur \/ i = wf.cur \/ wf.st = "success"
      BY <1>8, <2>2, <3>1, DoneIs
    <3>3. i \in Nat
      BY <3>1
    <3> QED
      BY <1>2, <2>2, <3>2, <3>3 DEF Placed
  <2> QED
    BY <2>1, <2>2 DEF GoesOn
<1> QED
  BY <1>1, <1>4, <1>5, <1>6, <1>7, <1>8 DEF Placed

LEMMA CalmGoes ==
  ASSUME WfOK, Calm, wf.cur > 3, NEW x \in Drives, Placed(x), Keeps(x), Mounted(x)',
         UNCHANGED <<image, present>>, GoesOn(x), op'.at \notin StreamSteps \cup {"wipe"}
  PROVE  Calm'
<1>1. wf.cur \in Nat
  BY DEF WfOK
<1>2. wf'.cur > 3
  BY <1>1, DoneIs DEF GoesOn
<1>3. Placed(x)'
  BY PlacedGoes
<1>4. wf'.cur \in Nat
  BY <1>1, DoneIs DEF GoesOn
<1>5. Erasing'
  <2>1. Fixed \subseteq Drives
    BY DEF Fixed
  <2>2. ASSUME NEW d \in present' \cap Fixed PROVE disk'[d].sys # "old"
    <3>1. disk'[d].sys \in {disk[d].sys, "blank"} /\ d \in present \cap Fixed
      BY <2>1 DEF Keeps
    <3>2. disk[d].sys # "old"
      BY <1>1, <3>1 DEF Calm, Erasing
    <3> QED
      BY <3>1, <3>2
  <2> QED
    BY <1>2, <1>4, <2>2 DEF Erasing
<1>6. Target'
  BY DEF Target, StreamSteps
<1> QED
  BY <1>3, <1>5, <1>6 DEF Calm

LEMMA AgainIs ==
  ASSUME WfOK, op \in OpType, Again
  PROVE  wf'.cur = wf.cur /\ (op' = NewOp \/ (op'.at = "get" /\ op'.drive = op.drive))
<1>1. ASSUME NEW d, NEW n, op' = [NewOp EXCEPT !.at = "get", !.drive = d, !.tries = n]
      PROVE  op'.at = "get" /\ op'.drive = d
  BY <1>1 DEF NewOp
<1> QED
  BY <1>1, FailedIs DEF Again

\* Drives that are not removable stay, and a workflow is successful at its end only.
LEMMA BaseStep ==
  TypeOK /\ DriveInv /\ [Next]_vars
    => present \cap Fixed \subseteq present' /\ (wf'.st = "success" => wf'.cur > 3)
<1> SUFFICES ASSUME TypeOK, DriveInv, [Next]_vars
             PROVE  present \cap Fixed \subseteq present' /\ (wf'.st = "success" => wf'.cur > 3)
  OBVIOUS
<1>0. WfOK
  BY TypeParts
<1>1. present \cap Fixed \subseteq present'
  BY DEF Next, ImageToDiskStep, Image2Disk, ChooseDrive, GetToDrive, Answer, findDecompressor,
         CopyToDrive, SyncDrive, CompareHash, QemuStep, QemuNbdImage2Disk, GetToFile,
         createDecompressor, SaveImage, VerifyImage, AttachImage, WaitForPartition, DD, Reprobe,
         FileStep, MountForFile, MountRoot, WriteFile, CommandStep, MountForCommand, BackupFile,
         CreateResolv, MountSpecialDirs, Chroot, RunCommand, LeaveChroot, UmountSpecialDirs,
         RestoreFile, ScriptStep, SecureBootFlag, Eject, ListDisks, WipeDisk, Partprobe,
         PartitionDisk, UpgradeKernel, EnableSecurity, Efibootset, Reboot, GenerateWorkflowInputs,
         Timeout, PowerCycle, Attach, Keep, Untouched, Removable, Fixed, vars
<1>2. wf.cur \in Nat /\ (wf.cur <= 3 => wf.cur # Len(Tasks(wf.tmpl)))
  BY <1>0, TaskIs DEF WfOK
<1>3. ASSUME wf'.st = "success" PROVE wf'.cur > 3
  <2>1. CASE UNCHANGED wf
    BY <1>3, <2>1 DEF DriveInv
  <2>2. CASE Failed
    BY <1>0, <1>3, <2>2, FailedIs
  <2>3. CASE Done
    BY <1>0, <1>2, <1>3, <2>3, DoneIs DEF DriveInv
  <2> QED
    BY <1>3, <2>1, <2>2, <2>3, WfMoves
<1> QED
  BY <1>1, <1>3

\* The flag is read, or the erasure is over.
LEMMA CalmNext ==
  ASSUME WfOK, Calm, wf.cur \in {1, 2}, Done, UNCHANGED <<disk, present>>,
         wf.cur = 2 => \A d \in present \cap Fixed : disk[d].sys # "old"
  PROVE  Calm'
<1>1. op' = NewOp /\ wf'.cur = wf.cur + 1
  BY DoneIs, TaskIs
<1>2. op'.at = "start"
  BY <1>1 DEF NewOp
<1>3. Erasing'
  BY <1>1, <1>2 DEF Calm, Erasing, Begun
<1>4. Target'
  BY <1>2 DEF Target, StreamSteps
<1> QED
  BY <1>1, <1>3, <1>4 DEF Calm

\* Both ways of streaming, from the choice of the drive to the end.
LEMMA CalmChoose ==
  ASSUME TypeOK, Calm, UNCHANGED image, ~past'.moved, wf.cur = 3, wf.st # "success", ChooseDrive
  PROVE  Calm'
<1>0. WfOK /\ op \in OpType /\ RestOK /\ PastOK
  BY TypeParts
<1>1. CASE Failed
  <2>1. SameDisks /\ UNCHANGED present
    BY DEF ChooseDrive, SameDisks
  <2>2. op' = NewOp /\ wf'.tmpl = wf.tmpl /\ wf'.cur = wf.cur /\ wf'.st # "success"
    BY <1>0, <1>1, FailedIs
  <2> QED
    BY <1>0, <2>1, <2>2, CalmStays
<1>2. CASE ~Failed
  <2>1. PICK d \in Chosen : /\ op' = [op EXCEPT !.at = "get", !.drive = d]
                            /\ past' = [past EXCEPT !.moved = @ \/ \E e \in Drives \ {d} : Begun(e)]
    BY <1>2 DEF ChooseDrive
  <2>2. UNCHANGED <<wf, disk, present>>
    BY <1>2 DEF ChooseDrive
  <2>3. d \in present \cap Fixed
    BY <1>0, ChosenFixed
  <2>4. op'.at = "get" /\ op'.drive = d
    BY <1>0, <2>1 DEF OpType
  <2>5. Only(d)
    BY <1>0, <2>1 DEF PastOK, Only
  <2>6. WritesTo(d) /\ disk'[d].sys # "old"
    BY <2>2, <2>3 DEF WritesTo, Calm, Erasing
  <2>7. "get" \in StreamSteps \ {"sync", "hash", "reprobe"}
    BY DEF StreamSteps
  <2> QED
    BY <1>0, <2>2, <2>3, <2>4, <2>5, <2>6, <2>7, CalmStream
<1> QED
  BY <1>1, <1>2

LEMMA CalmStreaming ==
  ASSUME TypeOK, StreamInv, Calm, UNCHANGED image, ~past'.moved, wf.st # "success",
         ImageToDiskStep \/ QemuStep
  PROVE  Calm'
<1>0. WfOK /\ op \in OpType /\ DiskOK
  BY TypeParts
<1>1. Task.kind = "stream" /\ wf.cur = 3
  <2>1. Task.kind = "stream"
    BY DEF ImageToDiskStep, Image2Disk, GetToDrive, Answer, findDecompressor, CopyToDrive, SyncDrive,
           CompareHash, QemuStep, QemuNbdImage2Disk, GetToFile, createDecompressor, SaveImage,
           VerifyImage, AttachImage, WaitForPartition, DD, Reprobe, Streaming, At
  <2> QED
    BY <1>0, <2>1, TaskIs
<1>2. ASSUME ChooseDrive PROVE Calm'
  BY <1>1, <1>2, CalmChoose
<1>3. CASE Image2Disk \/ QemuNbdImage2Disk
  BY <1>2, <1>3 DEF Image2Disk, QemuNbdImage2Disk
<1>4. CASE ~(Image2Disk \/ QemuNbdImage2Disk)
  <2>1. op.at \in StreamSteps /\ UNCHANGED present
    BY <1>4
    DEF ImageToDiskStep, GetToDrive, Answer, findDecompressor, CopyToDrive, SyncDrive,
        CompareHash, QemuStep, GetToFile, createDecompressor, SaveImage, VerifyImage, AttachImage,
        WaitForPartition, DD, Reprobe, Streaming, At, Keep, Untouched, StreamSteps
  <2>2. PICK x \in present \cap Fixed : x = op.drive /\ Only(x)
    BY <2>1 DEF Calm, Target
  <2>3. x \in Drives
    BY <2>2 DEF Fixed
  <2>4. ASSUME UNCHANGED disk PROVE WritesTo(x) /\ disk'[x].sys = disk[x].sys /\ disk'[x].sys # "old"
    BY <1>1, <2>3, <2>4 DEF WritesTo, Calm, Erasing
  <2>5. ASSUME NEW sys, NEW known, Sys(x, sys, known) PROVE WritesTo(x) /\ disk'[x].sys = sys
    <3>1. \A e \in Drives :
            \/ e # x /\ disk'[e] = disk[e]
            \/ /\ e = x /\ disk'[e].sys = sys /\ disk'[e].files = {}
               /\ sys = "image" => disk'[e].resolv = "image"
      BY <1>0, <2>5, SysIs
    <3> QED
      BY <2>3, <3>1 DEF WritesTo
  <2>6. ASSUME disk' = [disk EXCEPT ![x].known = TRUE]
        PROVE  WritesTo(x) /\ disk'[x].sys = disk[x].sys /\ disk'[x].sys # "old"
    <3>1. \A e \in Drives : disk'[e].sys = disk[e].sys /\ disk'[e].files = disk[e].files
      BY <1>0, <2>6, KnownIs
    <3> QED
      BY <1>1, <2>2, <2>3, <3>1 DEF WritesTo, Calm, Erasing
  <2>7. ASSUME WritesTo(x), disk'[x].sys # "old", wf'.cur = wf.cur, wf'.tmpl = wf.tmpl,
               op' = NewOp \/ (op'.at \in StreamSteps /\ op'.drive = x),
               op'.at \in {"sync", "hash"} => disk'[x].sys \in Written(op'.body),
               op'.at = "reprobe" => disk'[x].sys = IF op'.body = "whole" THEN "image" ELSE "part"
        PROVE  Calm'
    BY <1>0, <1>1, <2>1, <2>2, <2>7, CalmStream
  <2>8. NewOp.at = "start"
    BY DEF NewOp
  <2>9. ASSUME Again, WritesTo(x), disk'[x].sys # "old" PROVE Calm'
    <3>1. wf'.cur = wf.cur /\ (op' = NewOp \/ (op'.at = "get" /\ op'.drive = x))
      BY <1>0, <2>2, <2>9, AgainIs
    <3>2. wf'.tmpl = wf.tmpl
      BY <1>0, <2>9, FailedIs DEF Again
    <3> QED
      BY <2>7, <2>8, <2>9, <3>1, <3>2 DEF StreamSteps
  <2>10. ASSUME NEW step \in StreamSteps \ {"sync", "hash", "reprobe"}, Goto(step), WritesTo(x),
                disk'[x].sys # "old"
         PROVE  Calm'
    <3>1. UNCHANGED wf /\ op'.at = step /\ op'.drive = x
      BY <1>0, <2>2, <2>10, GotoIs
    <3> QED
      BY <2>7, <2>10, <3>1
  <2>11. ASSUME NEW step \in StreamSteps \ {"sync", "hash", "reprobe"}, NEW b,
                op' = [op EXCEPT !.at = step, !.body = b], UNCHANGED wf, WritesTo(x),
                disk'[x].sys # "old"
         PROVE  Calm'
    <3>1. op'.at = step /\ op'.drive = x
      BY <1>0, <2>2, <2>11 DEF OpType
    <3> QED
      BY <2>7, <2>11, <3>1
  <2>12. \A b : Written(b) \subseteq {"scrap", "part", "image"}
    BY DEF Written
  <2>13. CASE GetToDrive
    <3>1. CASE Again /\ UNCHANGED disk
      BY <2>4, <2>9, <3>1
    <3>2. ASSUME NEW b, NEW p, NEW q, Sys(op.drive, "scrap", p /\ q),
                 op' = [op EXCEPT !.at = "copy", !.body = b], UNCHANGED wf
          PROVE  Calm'
      <4>1. WritesTo(x) /\ disk'[x].sys = "scrap"
        BY <2>2, <2>5, <3>2
      <4> QED
        BY <2>11, <3>2, <4>1 DEF StreamSteps
    <3> QED
      BY <2>13, <3>1, <3>2 DEF GetToDrive, Answer, Bodies
  <2>14. CASE findDecompressor \/ createDecompressor
    BY <2>4, <2>9, <2>14 DEF findDecompressor, createDecompressor, Keep, Untouched
  <2>15. CASE CopyToDrive
    <3>1. ASSUME NEW sys \in Written("cut"), Sys(op.drive, sys, disk[op.drive].known), Again PROVE Calm'
      <4>1. WritesTo(x) /\ disk'[x].sys = sys
        BY <2>2, <2>5, <3>1
      <4> QED
        BY <2>9, <2>12, <3>1, <4>1
    <3>2. ASSUME NEW sys \in Written(op.body), Sys(op.drive, sys, disk[op.drive].known), Goto("sync")
          PROVE  Calm'
      <4>1. WritesTo(x) /\ disk'[x].sys = sys
        BY <2>2, <2>5, <3>2
      <4>2. UNCHANGED wf /\ op'.at = "sync" /\ op'.drive = x /\ op'.body = op.body
        BY <1>0, <2>2, <3>2, GotoIs
      <4> QED
        BY <2>7, <2>12, <3>2, <4>1, <4>2 DEF StreamSteps
    <3> QED
      BY <2>15, <3>1, <3>2 DEF CopyToDrive
  <2>16. CASE SyncDrive
    <3>1. WritesTo(x) /\ disk'[x].sys = disk[x].sys /\ disk'[x].sys # "old"
      BY <2>2, <2>4, <2>6, <2>16 DEF SyncDrive
    <3>2. disk[x].sys \in Written(op.body)
      BY <2>2, <2>16 DEF SyncDrive, Streaming, At, Calm, Target
    <3>3. CASE Again
      BY <2>9, <3>1, <3>3
    <3>4. CASE Goto("hash")
      <4>1. UNCHANGED wf /\ op'.at = "hash" /\ op'.drive = x /\ op'.body = op.body
        BY <1>0, <2>2, <3>4, GotoIs
      <4> QED
        BY <2>7, <3>1, <3>2, <4>1 DEF StreamSteps
    <3> QED
      BY <2>16, <3>3, <3>4 DEF SyncDrive
  <2>17. CASE CompareHash
    <3>1. WritesTo(x) /\ disk'[x].sys = disk[x].sys /\ disk'[x].sys # "old"
      BY <2>4, <2>17 DEF CompareHash, Keep, Untouched
    <3>2. CASE Again
      BY <2>9, <3>1, <3>2
    <3>3. ASSUME Done, HashOk PROVE Calm'
      <4>1. disk[x].sys \in Written(op.body)
        BY <2>2, <2>17 DEF CompareHash, Streaming, At, Calm, Target
      <4>2. disk[x].sys = "part" => ~image.sha
        BY <3>3, <4>1 DEF Written, HashOk
      <4> QED
        BY <1>0, <1>1, <2>1, <2>2, <2>12, <3>1, <3>3, <4>1, <4>2, CalmStreamed
    <3> QED
      BY <2>17, <3>2, <3>3 DEF CompareHash
  <2>18. CASE GetToFile
    BY <2>4, <2>9, <2>11, <2>18 DEF GetToFile, Answer, Bodies, StreamSteps
  <2>19. CASE SaveImage \/ VerifyImage \/ AttachImage
    BY <2>4, <2>9, <2>10, <2>19 DEF SaveImage, VerifyImage, AttachImage, Keep, Untouched, StreamSteps
  <2>20. CASE WaitForPartition
    <3>1. ASSUME NEW p, NEW q, Sys(op.drive, "scrap", p /\ q) PROVE WritesTo(x) /\ disk'[x].sys = "scrap"
      BY <2>2, <2>5, <3>1
    <3> QED
      BY <2>10, <2>20, <3>1 DEF WaitForPartition, StreamSteps
  <2>21. CASE DD
    <3>1. ASSUME NEW sys \in {"scrap", "part"}, Sys(op.drive, sys, disk[op.drive].known), Again
          PROVE  Calm'
      <4>1. WritesTo(x) /\ disk'[x].sys = sys
        BY <2>2, <2>5, <3>1
      <4> QED
        BY <2>9, <3>1, <4>1
    <3>2. ASSUME NEW sys, sys = (IF op.body = "whole" THEN "image" ELSE "part"),
                 Sys(op.drive, sys, disk[op.drive].known), Goto("reprobe")
          PROVE  Calm'
      <4>1. WritesTo(x) /\ disk'[x].sys = sys
        BY <2>2, <2>5, <3>2
      <4>2. UNCHANGED wf /\ op'.at = "reprobe" /\ op'.drive = x /\ op'.body = op.body
        BY <1>0, <2>2, <3>2, GotoIs
      <4> QED
        BY <2>7, <3>2, <4>1, <4>2 DEF StreamSteps
    <3> QED
      BY <2>21, <3>1, <3>2 DEF DD
  <2>22. CASE Reprobe
    <3>1. WritesTo(x) /\ disk'[x].sys = disk[x].sys /\ disk'[x].sys # "old"
      BY <2>2, <2>4, <2>6, <2>22 DEF Reprobe
    <3>2. CASE Again
      BY <2>9, <3>1, <3>2
    <3>3. CASE Done
      <4>1. /\ disk[x].sys = IF op.body = "whole" THEN "image" ELSE "part"
            /\ image.sha => op.body = "whole"
        BY <2>2, <2>22 DEF Reprobe, Streaming, At, Calm, Target, StreamInv
      <4> QED
        BY <1>0, <1>1, <2>1, <2>2, <3>1, <3>3, <4>1, CalmStreamed
    <3> QED
      BY <2>22, <3>2, <3>3 DEF Reprobe
  <2> QED
    BY <1>4, <2>13, <2>14, <2>15, <2>16, <2>17, <2>18, <2>19, <2>20, <2>21, <2>22
    DEF ImageToDiskStep, QemuStep
<1> QED
  BY <1>3, <1>4

\* The actions before and around the stream.
LEMMA CalmErasing ==
  ASSUME TypeOK, Calm, UNCHANGED image, wf.st # "success",
         SecureBootFlag \/ Eject \/ ListDisks \/ WipeDisk \/ Partprobe
  PROVE  Calm'
<1>0. WfOK /\ op \in OpType /\ DiskOK
  BY TypeParts
<1>1. wf.cur \in {1, 2}
  BY <1>0, TaskIs DEF SecureBootFlag, Eject, ListDisks, WipeDisk, Partprobe, At
<1>2. ASSUME UNCHANGED present, Failed, SameDisks PROVE Calm'
  <2>1. op' = NewOp /\ wf'.tmpl = wf.tmpl /\ wf'.cur = wf.cur /\ wf'.st # "success"
    BY <1>0, <1>2, FailedIs
  <2> QED
    BY <1>0, <1>2, <2>1, CalmStays
<1>3. ASSUME UNCHANGED disk PROVE SameDisks
  BY <1>3 DEF SameDisks
<1>4. CASE SecureBootFlag
  <2>1. wf.cur = 1 /\ UNCHANGED <<disk, present>>
    BY <1>0, <1>4, TaskIs DEF SecureBootFlag, At, Untouched
  <2> QED
    BY <1>0, <1>2, <1>3, <1>4, <2>1, CalmNext DEF SecureBootFlag
<1>5. CASE Eject
  <2>1. CASE Failed /\ UNCHANGED present
    BY <1>2, <1>3, <1>5, <2>1 DEF Eject
  <2>2. ASSUME UNCHANGED <<wf, op, disk>>, NEW d \in Removable, present' = present \ {d} PROVE Calm'
    <3>1. present \cap Fixed \subseteq present' /\ (present' \cap Fixed) \ present = {}
      BY <2>2 DEF Removable, Fixed
    <3> QED
      BY <1>0, <1>3, <2>2, <3>1, CalmStays
  <2> QED
    BY <1>5, <2>1, <2>2 DEF Eject
<1>6. CASE ListDisks
  <2>1. wf.cur = 2 /\ UNCHANGED <<wf, disk, present>>
    BY <1>0, <1>6, TaskIs DEF ListDisks, At, Untouched
  <2>2. op'.at = "wipe" /\ op'.left = present \cap Fixed
    BY <1>0, <1>6 DEF ListDisks, OpType
  <2>3. Erasing'
    BY <2>1, <2>2 DEF Calm, Erasing, Begun
  <2>4. Target'
    BY <2>2 DEF Target, StreamSteps
  <2> QED
    BY <2>1, <2>3, <2>4 DEF Calm
<1>7. CASE WipeDisk
  <2>1. wf.cur = 2 /\ op.at = "wipe" /\ UNCHANGED present
    BY <1>0, <1>7, TaskIs DEF WipeDisk, At
  <2>2. PICK d \in op.left : \/ /\ op' = [op EXCEPT !.left = @ \ {d}] /\ UNCHANGED wf
                                /\ disk' = [disk EXCEPT ![d] = Disk("blank", TRUE)]
                             \/ Failed /\ disk' \in {disk, [disk EXCEPT ![d] = Disk("blank", TRUE)]}
    BY <1>7 DEF WipeDisk
  <2>3. d \in Drives
    BY <1>0, <2>2 DEF OpType
  <2>4. \A e \in Drives : \/ disk'[e].sys = disk[e].sys /\ disk'[e].files = disk[e].files
                          \/ e = d /\ disk'[e].sys = "blank" /\ disk'[e].files = {}
    BY <1>0, <2>2, <2>3 DEF DiskOK, Disk
  <2>5. \/ op' = NewOp /\ wf'.cur = wf.cur
        \/ /\ op'.at = "wipe" /\ op'.left = op.left \ {d} /\ wf'.cur = wf.cur
           /\ disk'[d].sys = "blank"
    <3>1. CASE Failed
      BY <1>0, <3>1, FailedIs
    <3>2. ASSUME op' = [op EXCEPT !.left = op.left \ {d}], UNCHANGED wf,
                 disk' = [disk EXCEPT ![d] = Disk("blank", TRUE)]
          PROVE  /\ op'.at = "wipe" /\ op'.left = op.left \ {d} /\ wf'.cur = wf.cur
                 /\ disk'[d].sys = "blank"
      BY <1>0, <2>1, <2>3, <3>2 DEF OpType, DiskOK, Disk
    <3> QED
      BY <2>2, <3>1, <3>2
  <2>6. NewOp.at = "start"
    BY DEF NewOp
  <2>7. Fixed \subseteq Drives
    BY DEF Fixed
  <2> HIDE <2>2
  <2>8. ASSUME NEW e \in present' \cap Fixed, disk'[e].sys = "old"
        PROVE  op'.at = "wipe" => e \in op'.left
    <3>1. disk[e].sys = "old"
      BY <2>4, <2>7, <2>8
    <3>2. e \in op.left
      BY <2>1, <2>8, <3>1 DEF Calm, Erasing
    <3>3. CASE op' = NewOp
      BY <2>6, <3>3
    <3>4. CASE op'.left = op.left \ {d} /\ disk'[d].sys = "blank"
      BY <2>8, <3>2, <3>4
    <3> QED
      BY <2>5, <3>3, <3>4
  <2>9. Erasing'
    BY <2>1, <2>4, <2>5, <2>8 DEF Calm, Erasing, Begun
  <2>10. Target'
    BY <2>5, <2>6 DEF Target, StreamSteps
  <2> QED
    BY <2>1, <2>5, <2>9, <2>10 DEF Calm
<1>8. CASE Partprobe
  <2>1. wf.cur = 2 /\ op.at = "wipe" /\ op.left = {} /\ UNCHANGED <<disk, present>>
    BY <1>0, <1>8, TaskIs DEF Partprobe, At, Untouched
  <2>2. \A d \in present \cap Fixed : disk[d].sys # "old"
    BY <2>1 DEF Calm, Erasing
  <2> QED
    BY <1>0, <1>2, <1>3, <1>8, <2>1, <2>2, CalmNext DEF Partprobe
<1> QED
  BY <1>4, <1>5, <1>6, <1>7, <1>8

\* A command goes on with the drive that it has mounted.
LEMMA MountedMoves ==
  ASSUME NEW x \in Drives, Mounted(x), Keeps(x), UNCHANGED wf, op.at \in MountSteps,
         op'.at \in ResolvSteps, op'.drive = op.drive,
         op'.at \in {"leave", "umount", "restore"} /\ op'.ok
           => wf.tmpl.os = "microvisor" \/ Task.file \in disk'[x].files
  PROVE  Mounted(x)'
<1>1. UNCHANGED Task
  BY SameTask
<1>2. op.drive = x /\ Bootable(x)' /\ disk'[x].known
  BY DEF Mounted, Keeps, Bootable
<1>3. op'.at # "kernel"
  BY DEF ResolvSteps
<1> QED
  BY <1>1, <1>2, <1>3 DEF Mounted

\* What a task that is done has left on x.
LEMMA HasNow ==
  ASSUME WfOK, wf'.tmpl = wf.tmpl, NEW x, NEW i \in Nat, i = wf.cur,
         /\ Task.kind \in {"writefile", "cexec"} /\ ~(Task.kind = "cexec" /\ wf.tmpl.os = "microvisor")
              => Task.file \in disk'[x].files
         /\ Task.kind = "kernelupgrade" => "partitions" \in disk'[x].files
         /\ Task.kind = "security" => "sealed" \in disk'[x].files
  PROVE  Has(x, i)'
BY DEF Has, Task

\* The actions after the stream.
LEMMA CalmAfter ==
  ASSUME TypeOK, Calm, UNCHANGED image, wf.st # "success",
         FileStep \/ CommandStep \/ PartitionDisk \/ UpgradeKernel \/ EnableSecurity \/ Efibootset \/ Reboot
  PROVE  Calm'
<1>0. WfOK /\ op \in OpType /\ DiskOK /\ RestOK /\ wf.cur \in Nat
  BY TypeParts DEF WfOK
<1>1. UNCHANGED present
  BY DEF FileStep, MountForFile, MountRoot, WriteFile, CommandStep, MountForCommand, BackupFile,
         CreateResolv, MountSpecialDirs, Chroot, RunCommand, LeaveChroot, UmountSpecialDirs,
         RestoreFile, PartitionDisk, UpgradeKernel, EnableSecurity, Efibootset, Reboot, Keep, Untouched
<1>2. wf.cur > 3 /\ (wf.cur > 4 \/ Task.kind = "writefile")
  <2>1. Task.kind \notin {"securebootflag", "erase", "stream"}
    BY DEF FileStep, MountForFile, MountRoot, WriteFile, CommandStep, MountForCommand, BackupFile,
           CreateResolv, MountSpecialDirs, Chroot, RunCommand, LeaveChroot, UmountSpecialDirs,
           RestoreFile, PartitionDisk, UpgradeKernel, EnableSecurity, Efibootset, Reboot, At
  <2>2. wf.cur \notin {0, 1, 2, 3} /\ (wf.cur = 4 => Task.kind = "writefile")
    BY <1>0, <2>1, TaskIs DEF WfOK
  <2> QED
    BY <1>0, <2>2
<1>3. PICK x \in Drives : Placed(x) /\ Mounted(x)
  BY <1>2 DEF Calm
<1>4. wf.cur > 4 => Bootable(x) /\ disk[x].known
  BY <1>3 DEF Placed
<1>5. ASSUME NEW d \in present \cap Fixed, Bootable(d) PROVE d = x
  <2>1. d \in Drives /\ disk[d].sys # "old"
    BY <1>0, <1>2, <1>5 DEF Fixed, Calm, Erasing
  <2> QED
    BY <1>3, <1>5, <2>1 DEF Placed, Only, Begun, Bootable
<1>6. ASSUME UNCHANGED disk PROVE SameDisks /\ Keeps(x)
  BY <1>3, <1>6 DEF SameDisks, Keeps, Placed
<1>7. ASSUME Failed, SameDisks PROVE Calm'
  <2>1. op' = NewOp /\ wf'.tmpl = wf.tmpl /\ wf'.cur = wf.cur /\ wf'.st # "success"
    BY <1>0, <1>7, FailedIs
  <2> QED
    BY <1>0, <1>1, <1>7, <2>1, CalmStays
<1>8. ASSUME Keeps(x), UNCHANGED wf, Mounted(x)', op'.at \in MountSteps PROVE Calm'
  <2>1. op'.at \notin StreamSteps \cup {"wipe"}
    BY <1>8 DEF MountSteps, StreamSteps, ResolvSteps
  <2> QED
    BY <1>0, <1>1, <1>2, <1>3, <1>8, <2>1, CalmGoes DEF GoesOn
<1>9. ASSUME Done, Keeps(x), Bootable(x), disk[x].known,
             /\ Task.kind \in {"writefile", "cexec"}
                /\ ~(Task.kind = "cexec" /\ wf.tmpl.os = "microvisor")
                  => Task.file \in disk'[x].files
             /\ Task.kind = "kernelupgrade" => "partitions" \in disk'[x].files
             /\ Task.kind = "security" => "sealed" \in disk'[x].files
      PROVE  Calm'
  <2>1. op' = NewOp /\ wf'.tmpl = wf.tmpl
    BY <1>0, <1>9, DoneIs
  <2>2. \A i \in Nat : i = wf.cur => Has(x, i)'
    BY <1>0, <1>9, <2>1, HasNow
  <2>3. Mounted(x)' /\ op'.at \notin StreamSteps \cup {"wipe"}
    BY <2>1 DEF Mounted, MountSteps, StreamSteps, ResolvSteps, NewOp
  <2> QED
    BY <1>0, <1>1, <1>2, <1>3, <1>9, <2>2, <2>3, CalmGoes DEF GoesOn
<1>10. ASSUME NEW kind, NEW step \in {"write", "backup", "special"}, MountRoot(kind, step)
       PROVE  Calm'
  <2>1. UNCHANGED disk
    BY <1>10 DEF MountRoot, Keep, Untouched
  <2>2. ASSUME NEW d \in Chosen, FindRootPartitionForDisk(d), UNCHANGED wf,
               op' = [op EXCEPT !.at = step, !.drive = d]
        PROVE  Calm'
    <3>1. d \in present \cap Fixed
      BY <1>0, ChosenFixed
    <3>2. d = x /\ Bootable(x) /\ disk[x].known
      BY <1>5, <2>2, <3>1 DEF FindRootPartitionForDisk
    <3>3. op'.at = step /\ op'.drive = x
      BY <1>0, <2>2, <3>2 DEF OpType
    <3>4. Bootable(x)' /\ disk'[x].known
      BY <2>1, <3>2 DEF Bootable
    <3>5. Mounted(x)'
      BY <3>3, <3>4 DEF Mounted
    <3>6. step \in MountSteps
      BY DEF MountSteps, ResolvSteps
    <3> QED
      BY <1>6, <1>8, <2>1, <2>2, <3>3, <3>5, <3>6
  <2> QED
    BY <1>6, <1>7, <1>10, <2>1, <2>2 DEF MountRoot
<1>11. CASE FileStep
  <2>1. ASSUME WriteFile PROVE Calm'
    <3>1. op.drive = x /\ Bootable(x) /\ disk[x].known /\ Task.kind = "writefile"
      BY <1>3, <2>1 DEF WriteFile, At, Mounted, MountSteps
    <3>2. ASSUME Done, disk' = [disk EXCEPT ![op.drive].files = disk[op.drive].files \cup {Task.file}]
          PROVE  Calm'
      <4> DEFINE F == disk[op.drive].files \cup {Task.file}
      <4>1. disk' = [disk EXCEPT ![x].files = F]
        BY <3>1, <3>2
      <4>2. F = disk[x].files \cup {Task.file}
        BY <3>1
      <4> HIDE DEF F
      <4> HIDE <3>2
      <4>3. \A e \in Drives :
              /\ disk'[e].sys = disk[e].sys /\ disk'[e].known = disk[e].known
              /\ disk'[e].files = IF e = x THEN F ELSE disk[e].files
        BY <1>0, <4>1 DEF DiskOK, DiskType
      <4>4. Keeps(x) /\ Task.file \in disk'[x].files
        BY <3>1, <4>2, <4>3 DEF Keeps
      <4>5. Done
        BY <3>2
      <4> QED
        BY <1>9, <3>1, <4>4, <4>5
    <3> QED
      BY <1>6, <1>7, <2>1, <3>2 DEF WriteFile
  <2> QED
    BY <1>10, <1>11, <2>1 DEF FileStep, MountForFile
<1>12. CASE CommandStep
  <2>0. Task.kind = "cexec"
    BY <1>12
    DEF CommandStep, MountForCommand, MountRoot, BackupFile, CreateResolv, MountSpecialDirs, Chroot,
        RunCommand, LeaveChroot, UmountSpecialDirs, RestoreFile, At
  <2>1. ASSUME NEW r, NEW b, disk' = [disk EXCEPT ![op.drive].backup = b, ![op.drive].resolv = r]
                             \/ disk' = [disk EXCEPT ![op.drive].resolv = r, ![op.drive].backup = b]
                             \/ disk' = [disk EXCEPT ![op.drive].resolv = r]
        PROVE  SameDisks /\ Keeps(x)
    <3>1. \A e \in Drives : /\ disk'[e].sys = disk[e].sys /\ disk'[e].files = disk[e].files
                            /\ disk'[e].known = disk[e].known
      BY <1>0, <2>1 DEF DiskOK, DiskType
    <3> HIDE <2>1
    <3> QED
      BY <1>3, <3>1 DEF SameDisks, Keeps, Placed
  <2>2. ASSUME op.at \in MountSteps, UNCHANGED wf, Keeps(x), op'.at \in ResolvSteps,
               op'.drive = op.drive,
               op'.at \in {"leave", "umount", "restore"} /\ op'.ok
                 => wf.tmpl.os = "microvisor" \/ Task.file \in disk'[x].files
        PROVE  Calm'
    <3>1. Mounted(x)'
      BY <1>3, <2>2, MountedMoves
    <3> QED
      BY <1>8, <2>2, <3>1 DEF MountSteps
  <2>3. ASSUME NEW step \in ResolvSteps, Goto(step), op.at \in MountSteps, Keeps(x),
               step \in {"leave", "umount", "restore"} =>
                 op.at = "leave" /\ UNCHANGED disk
        PROVE  Calm'
    <3>1. UNCHANGED wf /\ op'.at = step /\ op'.drive = op.drive /\ op'.ok = op.ok
      BY <1>0, <2>3, GotoIs
    <3>2. step \in {"leave", "umount", "restore"} /\ op.ok
            => wf.tmpl.os = "microvisor" \/ Task.file \in disk'[x].files
      BY <1>3, <2>3 DEF Mounted
    <3> QED
      BY <2>2, <2>3, <3>1, <3>2
  <2>4. ASSUME NEW step \in ResolvSteps, Unwind(step), op.at \in MountSteps, Keeps(x)
        PROVE  Calm'
    <3>1. UNCHANGED wf /\ op'.at = step /\ op'.drive = op.drive /\ ~op'.ok
      BY <1>0, <2>4, GotoIs
    <3> QED
      BY <2>2, <2>4, <3>1
  <2>5. ASSUME op.at \in {"leave", "umount", "restore"}, Returns(op.ok), SameDisks, Keeps(x)
        PROVE  Calm'
    <3>1. Bootable(x) /\ disk[x].known
      BY <1>3, <2>5 DEF Mounted, MountSteps, ResolvSteps
    <3>2. CASE op.ok
      <4>1. Done
        BY <2>5, <3>2 DEF Returns
      <4>2. wf.tmpl.os = "microvisor" \/ Task.file \in disk[x].files
        BY <1>3, <2>5, <3>2 DEF Mounted
      <4>3. disk'[x].files = disk[x].files
        BY <2>5 DEF SameDisks
      <4> QED
        BY <1>9, <2>0, <2>5, <3>1, <4>1, <4>2, <4>3
    <3>3. CASE ~op.ok
      BY <1>7, <2>5, <3>3 DEF Returns
    <3> QED
      BY <3>2, <3>3
  <2>6. CASE MountForCommand
    BY <1>10, <2>6 DEF MountForCommand
  <2>7. CASE BackupFile
    <3>1. op.at \in MountSteps
      BY <2>7 DEF BackupFile, At, MountSteps
    <3> QED
      BY <1>6, <1>7, <2>1, <2>3, <2>7, <3>1 DEF BackupFile, ResolvSteps
  <2>8. CASE CreateResolv
    <3>1. op.at \in MountSteps
      BY <2>8 DEF CreateResolv, At, MountSteps, ResolvSteps
    <3> QED
      BY <1>6, <2>1, <2>3, <2>4, <2>8, <3>1 DEF CreateResolv, ResolvSteps
  <2>9. CASE MountSpecialDirs
    <3>1. op.at \in MountSteps /\ UNCHANGED disk
      BY <2>9 DEF MountSpecialDirs, At, MountSteps, ResolvSteps, Keep, Untouched
    <3>2. ASSUME NEW b, op' = [op EXCEPT !.at = "chroot", !.bound = b], UNCHANGED wf PROVE Calm'
      <4>1. op'.at = "chroot" /\ op'.drive = op.drive
        BY <1>0, <3>2 DEF OpType
      <4> QED
        BY <1>6, <2>2, <3>1, <3>2, <4>1 DEF ResolvSteps
    <3> QED
      BY <1>6, <1>7, <2>4, <2>9, <3>1, <3>2 DEF MountSpecialDirs, ResolvSteps
  <2>10. CASE Chroot
    <3>1. op.at \in MountSteps /\ UNCHANGED disk
      BY <2>10 DEF Chroot, At, MountSteps, ResolvSteps, Keep, Untouched
    <3> QED
      BY <1>6, <2>3, <2>4, <2>10, <3>1 DEF Chroot, ResolvSteps
  <2>11. CASE RunCommand
    <3>1. op.at \in MountSteps /\ op.drive = x /\ Bootable(x) /\ UNCHANGED wf
      BY <1>3, <2>11 DEF RunCommand, At, MountSteps, ResolvSteps, Mounted
    <3>2. ASSUME NEW F, disk' = [disk EXCEPT ![op.drive].files = F],
                 disk[x].files \ {"custom.cfg"} \subseteq F
          PROVE  Keeps(x) /\ disk'[x].files = F
      <4>1. disk' = [disk EXCEPT ![x].files = F]
        BY <3>1, <3>2
      <4>2. disk[x].files \ {"custom.cfg"} \subseteq F
        BY <3>2
      <4> HIDE <3>2
      <4>3. \A e \in Drives :
              /\ disk'[e].sys = disk[e].sys /\ disk'[e].known = disk[e].known
              /\ disk'[e].files = IF e = x THEN F ELSE disk[e].files
        BY <1>0, <4>1 DEF DiskOK, DiskType
      <4> QED
        BY <3>1, <4>2, <4>3 DEF Keeps
    <3>3. ASSUME NEW b, op' = [op EXCEPT !.at = "leave", !.ok = b]
          PROVE  op'.at = "leave" /\ op'.drive = op.drive /\ (op'.ok <=> b)
      <4>1. op'.at = "leave" /\ op'.drive = op.drive
        BY <1>0, <3>3 DEF OpType
      <4>2. op'.ok = b
        BY <1>0, <3>3 DEF OpType
      <4> QED
        BY <4>1, <4>2
    <3> DEFINE A == (disk[op.drive].files \ {"custom.cfg"}) \cup {Task.file}
               B == IF Masked THEN disk[op.drive].files \ {"custom.cfg"} ELSE disk[op.drive].files
    <3>4. /\ disk[x].files \ {"custom.cfg"} \subseteq A
          /\ disk[x].files \ {"custom.cfg"} \subseteq B
          /\ Task.file \in A
      BY <3>1
    <3>5. \/ op' = [op EXCEPT !.at = "leave", !.ok = TRUE] /\ disk' = [disk EXCEPT ![op.drive].files = A]
          \/ op' = [op EXCEPT !.at = "leave", !.ok = Masked] /\ disk' = [disk EXCEPT ![op.drive].files = B]
      BY <2>11 DEF RunCommand
    <3> HIDE DEF A, B
    <3>6. disk' = [disk EXCEPT ![op.drive].files = A] => Keeps(x) /\ disk'[x].files = A
      BY <3>2, <3>4
    <3>7. disk' = [disk EXCEPT ![op.drive].files = B] => Keeps(x)
      BY <3>2, <3>4
    <3>8. \A b : op' = [op EXCEPT !.at = "leave", !.ok = b]
                 => op'.at = "leave" /\ op'.drive = op.drive /\ (op'.ok <=> b)
      BY <3>3
    <3>9. op'.at = "leave" /\ op'.drive = op.drive /\ Keeps(x)
      BY <3>5, <3>6, <3>7, <3>8
    <3>10. (op'.ok <=> Masked) \/ disk'[x].files = A
      BY <3>5, <3>6, <3>8
    <3>11. op'.ok => wf.tmpl.os = "microvisor" \/ Task.file \in disk'[x].files
      BY <3>4, <3>10 DEF Masked
    <3> QED
      BY <2>2, <3>1, <3>9, <3>11 DEF ResolvSteps
  <2>12. CASE LeaveChroot
    <3>1. op.at = "leave" /\ op.at \in MountSteps /\ UNCHANGED disk
      BY <2>12 DEF LeaveChroot, At, MountSteps, ResolvSteps
    <3> QED
      BY <1>6, <2>3, <2>5, <2>12, <3>1 DEF LeaveChroot, ResolvSteps
  <2>13. CASE UmountSpecialDirs
    <3>1. op.at = "umount" /\ op.at \in MountSteps /\ UNCHANGED disk
      BY <2>13 DEF UmountSpecialDirs, At, MountSteps, ResolvSteps
    <3>2. ASSUME NEW b, op' = [op EXCEPT !.at = "restore", !.bound = b], UNCHANGED wf PROVE Calm'
      <4>1. op'.at = "restore" /\ op'.drive = op.drive /\ op'.ok = op.ok
        BY <1>0, <3>2 DEF OpType
      <4>2. op.ok => wf.tmpl.os = "microvisor" \/ Task.file \in disk'[x].files
        BY <1>3, <3>1 DEF Mounted
      <4> QED
        BY <1>6, <2>2, <3>1, <3>2, <4>1, <4>2 DEF ResolvSteps
    <3> QED
      BY <1>6, <2>5, <2>13, <3>1, <3>2 DEF UmountSpecialDirs, AfterUmount
  <2>14. CASE RestoreFile
    <3>1. op.at = "restore" /\ Returns(op.ok)
      BY <2>14 DEF RestoreFile, At
    <3> QED
      BY <1>6, <2>1, <2>5, <2>14, <3>1 DEF RestoreFile
  <2> QED
    BY <1>12, <2>6, <2>7, <2>8, <2>9, <2>10, <2>11, <2>12, <2>13, <2>14 DEF CommandStep
<1>13. ASSUME NEW f, NEW d \in Drives, d = x, Bootable(x),
              disk' = [TakeOthers(d) EXCEPT ![d].files = @ \cup {f}]
       PROVE  Keeps(x) /\ f \in disk'[x].files
  <2>1. PICK g \in [Drives -> DiskType] : g = TakeOthers(d)
    BY <1>0, TakeOthersType
  <2>2. disk' = [g EXCEPT ![d].files = g[d].files \cup {f}]
    BY <1>13, <2>1
  <2>3. Bootable(x) /\ d = x
    BY <1>13
  <2> HIDE <1>13
  <2>4. \A e \in Drives :
          \/ /\ e \in (present \cap Fixed) \ {d} /\ disk'[e].sys = "blank" /\ disk'[e].files = {}
          \/ /\ e \notin (present \cap Fixed) \ {d}
             /\ disk'[e].sys = disk[e].sys /\ disk'[e].known = disk[e].known
             /\ disk'[e].resolv = disk[e].resolv /\ disk'[e].backup = disk[e].backup
             /\ disk'[e].files = IF e = d THEN disk[e].files \cup {f} ELSE disk[e].files
    BY <1>0, <2>1, <2>2, TakeOthersIs
  <2> QED
    BY <2>3, <2>4 DEF Keeps
<1>14. CASE PartitionDisk
  <2>1. Bootable(x) /\ disk[x].known /\ x \in present
    BY <1>2, <1>3, <1>4, <1>14 DEF PartitionDisk, At, Placed
  <2>2. ASSUME NEW d \in present, RootDisks(d), UNCHANGED wf,
               op' = [op EXCEPT !.at = "kernel", !.drive = d],
               disk' = [TakeOthers(d) EXCEPT ![d].files = @ \cup {"partitions"}]
        PROVE  Calm'
    <3>1. d = x
      BY <2>1, <2>2 DEF RootDisks, FindRootPartitionForDisk
    <3>2. op'.at = "kernel" /\ op'.drive = x
      BY <1>0, <2>2, <3>1 DEF OpType
    <3>3. Keeps(x) /\ "partitions" \in disk'[x].files
      BY <1>13, <2>1, <2>2, <3>1
    <3>4. Bootable(x)' /\ disk'[x].known
      BY <2>1, <3>3 DEF Keeps, Bootable
    <3>5. Mounted(x)' /\ "kernel" \in MountSteps
      BY <3>2, <3>3, <3>4 DEF Mounted, MountSteps
    <3> QED
      BY <1>8, <2>2, <3>2, <3>3, <3>5
  <2> QED
    BY <1>6, <1>7, <1>14, <2>2 DEF PartitionDisk
<1>15. CASE UpgradeKernel
  <2>1. Bootable(x) /\ disk[x].known /\ "partitions" \in disk[x].files /\ Task.kind = "kernelupgrade"
    BY <1>3, <1>15 DEF UpgradeKernel, At, Mounted, MountSteps
  <2>2. SameDisks
    <3>1. UNCHANGED disk \/ disk' = [disk EXCEPT ![op.drive].resolv = "empty"]
      BY <1>15 DEF UpgradeKernel
    <3>2. \A e \in Drives : /\ disk'[e].sys = disk[e].sys /\ disk'[e].files = disk[e].files
                            /\ disk'[e].known = disk[e].known
      BY <1>0, <3>1 DEF DiskOK, DiskType
    <3> QED
      BY <3>2 DEF SameDisks
  <2>3. Keeps(x) /\ "partitions" \in disk'[x].files
    BY <2>1, <2>2 DEF SameDisks, Keeps
  <2> QED
    BY <1>7, <1>9, <1>15, <2>1, <2>2, <2>3 DEF UpgradeKernel
<1>16. CASE EnableSecurity
  <2>1. Bootable(x) /\ disk[x].known /\ Task.kind = "security"
    BY <1>2, <1>4, <1>16 DEF EnableSecurity, At
  <2>2. ASSUME NEW d \in present \cap Fixed, Bootable(d), Done,
               disk' = [TakeOthers(d) EXCEPT ![d].files = @ \cup {"sealed"}]
        PROVE  Calm'
    <3>1. d = x
      BY <1>5, <2>2
    <3>2. Keeps(x) /\ "sealed" \in disk'[x].files
      BY <1>13, <2>1, <2>2, <3>1
    <3> QED
      BY <1>9, <2>1, <2>2, <3>2
  <2> QED
    BY <1>6, <1>7, <1>16, <2>2 DEF EnableSecurity
<1>17. CASE Efibootset \/ Reboot
  <2>1. Task.kind \in {"efibootset", "reboot"} /\ Done /\ UNCHANGED disk
    BY <1>17 DEF Efibootset, Reboot, At, Keep, Untouched
  <2> QED
    BY <1>2, <1>4, <1>6, <1>9, <2>1
<1> QED
  BY <1>11, <1>12, <1>14, <1>15, <1>16, <1>17

LEMMA DriveInvStep == TypeOK /\ StreamInv /\ DriveInv /\ [Next]_vars => DriveInv'
<1> SUFFICES ASSUME TypeOK, StreamInv, DriveInv, [Next]_vars PROVE DriveInv'
  OBVIOUS
<1>0. WfOK /\ op \in OpType /\ DiskOK /\ PastOK
  BY TypeParts
<1>1. /\ present \cap Fixed \subseteq present' /\ (wf'.st = "success" => wf'.cur > 3)
      /\ UNCHANGED image /\ wf'.tmpl = wf.tmpl
  BY BaseStep, ImageStays, TmplStays
<1>2. (Fixed \ Late \subseteq present)'
  BY <1>1 DEF DriveInv
<1>3. SUFFICES ASSUME ~past'.moved PROVE Calm'
  BY <1>1, <1>2 DEF DriveInv
<1>4. Calm
  BY <1>3, PastGrows DEF DriveInv
<1>5. ASSUME UNCHANGED disk PROVE SameDisks
  BY <1>5 DEF SameDisks
<1>6. CASE ImageToDiskStep \/ QemuStep
  <2>1. wf.st # "success"
    BY <1>6
    DEF ImageToDiskStep, Image2Disk, GetToDrive, Answer, findDecompressor, CopyToDrive, SyncDrive,
        CompareHash, QemuStep, QemuNbdImage2Disk, GetToFile, createDecompressor, SaveImage,
        VerifyImage, AttachImage, WaitForPartition, DD, Reprobe, Streaming, At
  <2> QED
    BY <1>1, <1>3, <1>4, <1>6, <2>1, CalmStreaming
<1>7. CASE FileStep \/ CommandStep \/ ScriptStep
  <2>1. wf.st # "success"
    BY <1>7
    DEF FileStep, MountForFile, MountRoot, WriteFile, CommandStep, MountForCommand, BackupFile,
        CreateResolv, MountSpecialDirs, Chroot, RunCommand, LeaveChroot, UmountSpecialDirs,
        RestoreFile, ScriptStep, SecureBootFlag, Eject, ListDisks, WipeDisk, Partprobe,
        PartitionDisk, UpgradeKernel, EnableSecurity, Efibootset, Reboot, At
  <2> QED
    BY <1>1, <1>4, <1>7, <2>1, CalmErasing, CalmAfter DEF ScriptStep
<1>8. CASE Timeout
  <2>1. op' = NewOp /\ wf'.cur = wf.cur /\ wf'.st # "success"
    BY <1>0, <1>8, FailedIs DEF Timeout
  <2>2. UNCHANGED <<present, disk>>
    BY <1>8 DEF Timeout
  <2> QED
    BY <1>0, <1>1, <1>4, <1>5, <2>1, <2>2, CalmStays
<1>9. ASSUME NEW d \in Drives, Attach(d) PROVE Calm'
  <2>1. UNCHANGED <<wf, disk, op>> /\ present' = present \cup {d}
    BY <1>9 DEF Attach
  <2>2. ~(Erased /\ d \in Fixed /\ disk[d].sys # "blank")
    BY <1>0, <1>3, <1>9 DEF Attach, PastOK
  <2>3. ASSUME NEW e \in (present' \cap Fixed) \ present, disk[e].sys = "old"
        PROVE  wf.cur = 1 \/ (wf.cur = 2 /\ op.at # "wipe")
    <3>1. wf.cur \in Nat \ {0} /\ e = d
      BY <1>0, <2>1, <2>3 DEF WfOK
    <3>2. ~Erased
      BY <2>2, <2>3, <3>1
    <3> HIDE <2>3
    <3> QED
      BY <3>1, <3>2 DEF Erased
  <2> QED
    BY <1>0, <1>1, <1>4, <1>5, <2>1, <2>3, CalmStays
<1>10. CASE PowerCycle
  <2>1. wf'.cur = wf.cur /\ (wf'.st = "success" => wf.st = "success") /\ op' = NewOp
    BY <1>0, <1>10 DEF PowerCycle, WfOK
  <2>2. SameDisks
    BY <1>0, <1>10 DEF PowerCycle, SameDisks, DiskOK, DiskType
  <2>3. (present' \cap Fixed) \ present = {}
    BY <1>10 DEF PowerCycle, Fixed
  <2> QED
    BY <1>0, <1>1, <1>4, <2>1, <2>2, <2>3, CalmStays
<1>11. CASE GenerateWorkflowInputs
  <2>1. wf'.cur = wf.cur /\ (wf'.st = "success" => wf.st = "success")
    BY <1>0, <1>11 DEF GenerateWorkflowInputs, WfOK
  <2>2. UNCHANGED <<op, disk, present>>
    BY <1>11 DEF GenerateWorkflowInputs, Untouched
  <2> QED
    BY <1>0, <1>1, <1>4, <1>5, <2>1, <2>2, CalmStays
<1>12. CASE UNCHANGED vars
  BY <1>0, <1>1, <1>4, <1>5, <1>12, CalmStays DEF vars
<1> QED
  BY <1>6, <1>7, <1>8, <1>9, <1>10, <1>11, <1>12 DEF Next

LEMMA DrivesInductive == Spec => [](TypeOK /\ DriveInv)
<1>1. TypeOK /\ StreamInv /\ DriveInv /\ [Next]_vars => DriveInv'
  BY DriveInvStep
<1> QED
  BY <1>1, Inductive, InitDrive, PTL DEF Spec

\* What a list that is done has left on x is what its template wants there.
LEMMA AllWanted ==
  ASSUME WfOK, NEW x, \A i \in 1..Len(Tasks(wf.tmpl)) : Has(x, i)
  PROVE  Wanted(wf.tmpl) \subseteq disk[x].files
<1> DEFINE t == wf.tmpl
           n == Len(Tasks(t))
           last == IF t.os = "ubuntu" THEN "partitions" ELSE "sealed"
<1>1. t \in Templates /\ t.os \in {"ubuntu", "microvisor"}
  BY TemplatesAssumption DEF WfOK
<1>2. /\ \A i \in 1..3 : Tasks(t)[i].file = "none"
      /\ \A i \in 4..n : Tasks(t)[i] \in RestTasks(t)
      /\ \E i \in 1..n : Tasks(t)[i].kind = IF t.os = "ubuntu" THEN "kernelupgrade" ELSE "security"
      /\ n \in Nat /\ DOMAIN Tasks(t) = 1..n
  BY <1>1, TemplateShape, TasksType, LenProperties
<1>3. last \in disk[x].files
  BY <1>1, <1>2 DEF Has
<1>4. ASSUME NEW i \in 1..n, Tasks(t)[i].file \notin {"none", "custom.cfg"},
             t.os = "microvisor" => Tasks(t)[i].file # "split"
      PROVE  Tasks(t)[i].file \in disk[x].files
  <2>1. i \in 4..n
    BY <1>2, <1>4
  <2>2. PICK k \in RestTasks(t) : k = Tasks(t)[i]
    BY <1>2, <2>1
  <2>3. k.kind \in {"writefile", "cexec"} /\ ~(k.kind = "cexec" /\ t.os = "microvisor")
    BY <1>1, <1>4, <2>2, RestKinds
  <2> QED
    BY <1>4, <2>2, <2>3 DEF Has
<1>5. ASSUME NEW f \in Wanted(t) PROVE f \in disk[x].files
  <2>1. CASE f = last
    BY <1>3, <2>1
  <2>2. CASE f # last
    <3>1. /\ f \in {Tasks(t)[i].file : i \in 1..n} /\ f \notin {"none", "custom.cfg"}
          /\ t.os = "microvisor" => f # "split"
      BY <1>1, <1>2, <1>5, <2>2 DEF Wanted
    <3> QED
      BY <1>4, <3>1
  <2> QED
    BY <2>1, <2>2
<1> QED
  BY <1>5

-----------------------------------------------------------------------------
(* The theorems.                                                           *)

\* Types, for any drives, templates and bounds: what an action remembers is of its
\* type at every step, also when it is tried again (template_data.go, the actions).
THEOREM TypesHold == Spec => []TypeOK
BY Inductive, PTL

\* The firewall section of the cloud-init file lets in what the rules say, for every
\* list of clear rules, on both kinds of system (curation.go).
THEOREM FirewallHolds == Spec => []FirewallAsAsked
<1>1. FirewallAsAsked
  <2>1. SUFFICES ASSUME NEW p \in Packet, ~wf.tmpl.standalone
                 PROVE  LetsIn(p) <=> \E r \in Rules : Matches(r, p)
    BY DEF FirewallAsAsked
  <2>2. UfwAdmits(Rules, p) <=> \E r \in Rules : Matches(r, p)
    BY ClearRule, RulesAssumption DEF UfwAdmits
  <2>3. IptablesAdmits(Rules, p) <=> \E r \in Rules : Matches(r, p)
    BY ClearRule, RulesAssumption DEF IptablesAdmits
  <2> QED
    BY <2>1, <2>2, <2>3 DEF LetsIn
<1> QED
  BY <1>1, PTL

\* However cexec ends, the resolv.conf of the image is back in its place, unless the
\* way back itself fails or the action is killed; only in between is it somewhere else
\* (cexec: the deferred restoreFile, umountSpecialDirs and exitChroot).
THEOREM ResolvIsKept == Spec => []ResolvKept
<1>1. TypeOK /\ ResolvInv /\ [Next]_vars => ResolvInv'
  BY ResolvInvStep
<1>2. ResolvInv => ResolvKept
  BY DEF ResolvInv, ResolvKept, OwnResolv, Swapped, ResolvSteps
<1> QED
  BY <1>1, <1>2, Inductive, InitResolv, PTL DEF Spec

\* The actions find the disk anew each time, by its partitions, and still no file of
\* the template is ever written beside the image: for any number of drives that change
\* their names at every restart, any template, any failures and restarts (writefile,
\* cexec: FindRootPartitionForDisk; kernel_upgrade.sh and its like).
THEOREM FilesAreOnOneDisk == Spec => []OneDisk
<1>1. ASSUME TypeOK, DriveInv PROVE OneDisk
  <2> SUFFICES ASSUME ~past.moved, NEW d \in Drives, disk[d].files # {}
               PROVE  disk[d].sys = "image" \/ (~image.sha /\ disk[d].sys = "part")
    BY DEF OneDisk
  <2>1. Erasing /\ wf.cur \in Nat
    BY <1>1 DEF DriveInv, Calm, TypeOK
  <2>2. wf.cur > 3
    BY <2>1 DEF Erasing
  <2>3. PICK x \in Drives : Placed(x)
    BY <1>1, <2>2 DEF DriveInv, Calm
  <2>4. d = x /\ Bootable(x) /\ Begun(x) /\ (disk[x].sys = "part" => ~image.sha)
    BY <2>3 DEF Placed
  <2> QED
    BY <2>4 DEF Bootable, Begun
<1> QED
  BY <1>1, DrivesInductive, PTL

\* A workflow that is successful has installed its image: the whole of it on one disk,
\* with every file of its template, and no older system is left to boot from on a disk
\* that was there from the start (the actions of a workflow, one after another).
THEOREM SuccessInstalls == Spec => []SuccessIsInstalled
<1>1. ASSUME TypeOK, DriveInv PROVE SuccessIsInstalled
  <2> SUFFICES ASSUME wf.st = "success", image.sha, ~past.moved
               PROVE  \E d \in present : InstalledOn(d)
    BY DEF SuccessIsInstalled
  <2>1. WfOK /\ DiskOK /\ wf.cur > 3 /\ Erasing /\ Fixed \ Late \subseteq present
    BY <1>1, TypeParts DEF DriveInv, Calm
  <2>2. PICK x \in Drives : Placed(x)
    BY <1>1, <2>1 DEF DriveInv, Calm
  <2>3. x \in present /\ Only(x) /\ Begun(x) /\ disk[x].sys # "part"
    BY <2>2 DEF Placed
  <2>4. Wanted(wf.tmpl) \subseteq disk[x].files
    BY <2>1, <2>2, AllWanted DEF Placed
  <2>5. disk[x].files # {}
    BY <2>4 DEF Wanted
  <2>6. disk[x].sys = "image"
    BY <2>2, <2>3, <2>5 DEF Placed, Begun, Bootable
  <2>7. ASSUME NEW e \in (Fixed \ Late) \ {x} PROVE disk[e].sys \notin {"old", "part", "image"}
    <3>1. e \in Drives /\ e \in present \cap Fixed
      BY <2>1 DEF Fixed
    <3>2. disk[e].sys # "old"
      BY <2>1, <3>1 DEF Erasing, WfOK
    <3> QED
      BY <2>3, <3>1, <3>2 DEF Only, Begun
  <2> QED
    BY <2>3, <2>4, <2>6, <2>7 DEF InstalledOn
<1> QED
  BY <1>1, DrivesInductive, PTL

\* No stream writes a byte of a server whose certificate is not valid, and the qcow2
\* variant writes only a download whose checksum was right, whichever calls fail and
\* however often the node restarts (image.go of both actions).
THEOREM StreamsAreVerified == Spec => VerifiedFirst
<1>1. TypeOK /\ StreamInv /\ [Next]_vars
      => [Task.kind = "stream" /\ wf.st = "running"
            => \A d \in Drives : disk'[d].sys # disk[d].sys =>
                 /\ image.ca # "invalid"
                 /\ wf.stream = "qemu" /\ image.sha => op.body = "whole"]_vars
  BY StreamStep
<1> QED
  BY <1>1, Inductive, PTL DEF Spec, VerifiedFirst

=============================================================================
