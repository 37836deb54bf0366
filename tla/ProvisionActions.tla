-------------------------- MODULE ProvisionActions --------------------------
(***************************************************************************)
(* What the actions of a provisioning workflow do to the disks of an edge  *)
(* node: the template, the format of the image, erasing, streaming with    *)
(* its retries, writing files, commands in a chroot, the kernel upgrade.   *)
(* Each action finds the disk by itself; calls fail, downloads are cut,    *)
(* drives appear late, and the node loses power between any two steps.     *)
(* TinkWorker models how the worker runs the actions one after another.    *)
(***************************************************************************)
EXTENDS DriveDetection, FirewallRules, Sequences, FiniteSets

CONSTANTS
  Drives,     \* the drives of the node
  Attr,       \* rank, size and whether removable, of each drive
  Late,       \* drives that appear, or are plugged in, at any time
  Old,        \* the sets of drives that may have an older system
  Orders,     \* the ways in which the kernel may name the drives
  Templates,  \* the workflows to check
  Rules,      \* the firewall rules of the configuration
  MaxTries,   \* bound: how often the image is tried again within ten minutes
  MaxFaults,  \* bound: how many calls fail
  MaxCrashes  \* bound: how many power cycles

ASSUME DrivesAssumption ==
  /\ Late \subseteq Drives /\ Old \subseteq SUBSET Drives
  /\ Attr \in [Drives -> [rank : 0..2, size : Nat, rm : BOOLEAN]]
  /\ Orders # {} /\ Orders \subseteq [Drives -> Nat \ {0}]
  /\ \A o \in Orders : \A d, e \in Drives : o[d] = o[e] => d = e
ASSUME TemplatesAssumption ==
  Templates \subseteq
    [os : {"ubuntu", "microvisor"}, custom : BOOLEAN, standalone : BOOLEAN,
     feature : {"NONE", "UNSPECIFIED", "FDE"}, skipKernel : BOOLEAN]
ASSUME RulesAssumption == Rules \subseteq {r \in FirewallRule : Clear(r)}
ASSUME BoundsAssumption ==
  MaxTries \in Nat /\ MaxFaults \in Nat /\ MaxCrashes \in Nat

VARIABLES
  wf,      \* the workflow: template, how it streams, current action, status
  image,   \* the image: its format, whether a checksum and which CA are given
  present, \* the drives that are attached
  name,    \* the kernel's names of the drives
  disk,    \* what is on each drive
  op,      \* the running action: its next step and what it has found out
  bootDisk,\* the firmware boots from disk
  past,    \* history: drives moved (a late system, a second place for the image),
           \* a resolv.conf was left moved
  budget   \* faults and power cycles so far

vars == <<wf, image, present, name, disk, op, bootDisk, past, budget>>

-----------------------------------------------------------------------------
(* The workflow.                                                           *)

Script(k) == [kind |-> k, file |-> "none", resolv |-> FALSE]
Write(f) == [kind |-> "writefile", file |-> f, resolv |-> FALSE]
Exec(f, r) == [kind |-> "cexec", file |-> f, resolv |-> r]

\* templates/ubuntu.yaml; without full disk encryption.
UbuntuActions(t) ==
  <<Script("securebootflag"), Script("erase"), Script("stream"),
    Write("apt.conf"), Write("99_infra.cfg")>>
  \o (IF t.custom THEN <<Write("custom.cfg"), Exec("split", FALSE)>> ELSE <<>>)
  \o <<Write("ds-identify.cfg"), Write("installer.sh"), Write("service"),
       Exec("system-configuration", FALSE), Script("kernelupgrade"),
       Script("efibootset"), Script("reboot")>>

\* templates/microvisor.yaml.
MicrovisorActions(t) ==
  <<Script("securebootflag"), Script("erase"), Script("stream"), Write("99_infra.cfg")>>
  \o (IF t.custom THEN <<Write("custom.cfg"), Exec("split", t.standalone)>> ELSE <<>>)
  \o <<Write("ds-identify.cfg"), Script("security"), Script("efibootset"), Script("reboot")>>

Tasks(t) == IF t.os = "ubuntu" THEN UbuntuActions(t) ELSE MicrovisorActions(t)
Task == Tasks(wf.tmpl)[wf.cur]

\* The files a finished workflow leaves on the disk; that the microvisor's script
\* has split the custom configurations, nobody checks.
Files == {"apt.conf", "99_infra.cfg", "custom.cfg", "split", "ds-identify.cfg",
          "installer.sh", "service", "system-configuration", "partitions", "sealed"}
Wanted(t) ==
  LET files == {Tasks(t)[i].file : i \in DOMAIN Tasks(t)} IN
  IF t.os = "ubuntu" THEN (files \ {"none", "custom.cfg"}) \cup {"partitions"}
  ELSE (files \ {"none", "custom.cfg", "split"}) \cup {"sealed"}

-----------------------------------------------------------------------------
(* Disks.                                                                  *)

\* sys: blank, an older system, bytes without a partition table, the beginning of
\* the image with its partition table, or all of it.  known: the kernel has read
\* the partition table.  resolv, backup: resolv.conf and resolv.conf.backup.
Resolvs == {"absent", "image", "empty"}
DiskType == [sys : {"blank", "old", "scrap", "part", "image"}, known : BOOLEAN,
             files : SUBSET Files, resolv : Resolvs, backup : Resolvs]
Disk(sys, known) ==
  [sys |-> sys, known |-> known, files |-> {}, backup |-> "absent",
   resolv |-> IF sys \in {"part", "image"} THEN "image" ELSE "absent"]

Bootable(d) == disk[d].sys \in {"old", "part", "image"}

Fixed == {d \in Drives : Attr[d].size # 0 /\ ~Attr[d].rm}

\* lsblk.
Info(d) == [rank |-> Attr[d].rank, size |-> Attr[d].size, type |-> "disk",
            rm |-> Attr[d].rm, name |-> name[d]]
GetDrives == {Info(d) : d \in present}

\* The drive an action works on; none if no drive is left to choose from.
Chosen == {d \in present : name[d] = DriveDetect(GetDrives)}

\* There is a partition with a rootfs label, or with ext4.
FindRootPartitionForDisk(d) == disk[d].known /\ Bootable(d)

-----------------------------------------------------------------------------
(* The types, and the initial state.                                       *)

Steps == {"start", "wipe", "get", "copy", "sync", "hash", "save", "verify", "attach",
          "wait", "dd", "reprobe", "write", "backup", "create", "special", "chroot",
          "run", "leave", "umount", "restore", "kernel"}
Bodies == {"whole", "cut", "other"}
OpType == [at : Steps, drive : Drives \cup {NoDrive}, left : SUBSET Drives,
           body : Bodies, tries : 0..MaxTries, ok : BOOLEAN, bound : BOOLEAN]
NewOp == [at |-> "start", drive |-> NoDrive, left |-> {}, body |-> "whole",
          tries |-> 0, ok |-> TRUE, bound |-> FALSE]

TypeOK ==
  /\ wf \in [tmpl : Templates, stream : {"image2disk", "qemu"}, cur : Nat \ {0},
             st : {"none", "running", "failed", "success", "left"}]
  /\ wf.cur <= Len(Tasks(wf.tmpl))
  /\ image \in [fmt : {"raw", "qcow2"}, sha : BOOLEAN, ca : {"none", "valid", "invalid"}]
  /\ present \subseteq Drives /\ name \in Orders
  /\ disk \in [Drives -> DiskType] /\ op \in OpType /\ bootDisk \in BOOLEAN
  /\ past \in [moved : BOOLEAN, torn : BOOLEAN]
  /\ budget \in [faults : 0..MaxFaults, crashes : 0..MaxCrashes]

Init ==
  /\ wf \in [tmpl : Templates, stream : {"image2disk"}, cur : {1}, st : {"none"}]
  /\ image \in [fmt : {"raw", "qcow2"}, sha : BOOLEAN, ca : {"none", "valid", "invalid"}]
  /\ present = Drives \ Late /\ name \in Orders
  /\ \E S \in Old : disk = [d \in Drives |-> Disk(IF d \in S THEN "old" ELSE "blank", TRUE)]
  /\ op = NewOp /\ bootDisk = FALSE
  /\ past = [moved |-> FALSE, torn |-> FALSE]
  /\ budget = [faults |-> 0, crashes |-> 0]

Fault == /\ budget.faults < MaxFaults
         /\ budget' = [budget EXCEPT !.faults = @ + 1]
NoFault == UNCHANGED budget

\* The action kind is at step.
At(kind, step) == wf.st = "running" /\ Task.kind = kind /\ op.at = step

Goto(step) == op' = [op EXCEPT !.at = step] /\ UNCHANGED wf
Failed == wf' = [wf EXCEPT !.st = "failed"] /\ op' = NewOp
Done == /\ op' = NewOp
        /\ wf' = IF wf.cur = Len(Tasks(wf.tmpl)) THEN [wf EXCEPT !.st = "success"]
                 ELSE [wf EXCEPT !.cur = @ + 1]

Same == UNCHANGED <<image, name, bootDisk>>
Untouched == UNCHANGED <<present, disk, past>>

-----------------------------------------------------------------------------
(* The Onboarding Manager makes the workflow.                              *)

\* Every error, also a status that was not expected, counts as raw.
detectImageFormat ==
  IF image.fmt = "qcow2" THEN {<<"qcow2", FALSE>>, <<"raw", TRUE>>} ELSE {<<"raw", FALSE>>}

StreamAction(fmt) == IF fmt = "qcow2" THEN "qemu" ELSE "image2disk"

\* Without its inputs (platform bundle, cloud-init) there is no workflow, until
\* the next attempt.
GenerateWorkflowInputs ==
  /\ wf.st = "none"
  /\ \/ Fault /\ UNCHANGED wf
     \/ \E f \in detectImageFormat :
          /\ IF f[2] THEN Fault ELSE NoFault
          /\ wf' = [wf EXCEPT !.stream = StreamAction(f[1]), !.st = "running"]
  /\ UNCHANGED op /\ Untouched /\ Same

-----------------------------------------------------------------------------
(* Secure boot flag, erasing.                                              *)

\* A mismatch is an error of the script around the action.
Mismatch(enabled) ==
  \/ ~enabled /\ wf.tmpl.feature \in {"FDE", "UNSPECIFIED"}
  \/ enabled /\ wf.tmpl.feature = "NONE"

SecureBootFlag ==
  /\ At("securebootflag", "start") /\ NoFault
  /\ \E enabled \in BOOLEAN : IF Mismatch(enabled) THEN Failed ELSE Done
  /\ Untouched /\ Same

Removable == {d \in present : Attr[d].rm}

Eject ==
  /\ At("erase", "start") /\ Removable # {}
  /\ \/ Fault /\ Failed /\ UNCHANGED present
     \/ /\ NoFault /\ UNCHANGED <<wf, op>>
        /\ \E d \in Removable : present' = present \ {d}
  /\ UNCHANGED <<disk, past>> /\ Same

ListDisks ==
  /\ At("erase", "start") /\ Removable = {} /\ NoFault
  /\ op' = [op EXCEPT !.at = "wipe", !.left = present \cap Fixed]
  /\ UNCHANGED wf /\ Untouched /\ Same

WipeDisk ==
  /\ At("erase", "wipe") /\ op.left # {}
  /\ \E d \in op.left :
       \/ NoFault /\ op' = [op EXCEPT !.left = @ \ {d}] /\ UNCHANGED wf
          /\ disk' = [disk EXCEPT ![d] = Disk("blank", TRUE)]
       \/ Fault /\ Failed /\ disk' \in {disk, [disk EXCEPT ![d] = Disk("blank", TRUE)]}
  /\ UNCHANGED <<present, past>> /\ Same

Partprobe ==
  /\ At("erase", "wipe") /\ op.left = {}
  /\ (NoFault /\ Done) \/ (Fault /\ Failed)
  /\ Untouched /\ Same

-----------------------------------------------------------------------------
(* Streaming the image.                                                    *)

Streaming(by, step) == wf.stream = by /\ At("stream", step)

Sys(d, sys, known) == disk' = [disk EXCEPT ![d] = Disk(sys, known)]
Keep == Untouched /\ Same

\* The ten minutes are not looked at.
AgainMutant ==
  /\ op' = [NewOp EXCEPT !.at = "get", !.drive = op.drive, !.tries = op.tries + 1]
  /\ UNCHANGED wf

\* An error of Write: RetryNotify tries again, from the download on, until the
\* ten minutes are over.
Again ==
  \/ /\ op.tries < MaxTries
     /\ op' = [NewOp EXCEPT !.at = "get", !.drive = op.drive, !.tries = op.tries + 1]
     /\ UNCHANGED wf
  \/ Failed

\* main chooses the drive once, before the first try; after a power cycle, anew.
Begun(d) == disk[d].sys \in {"scrap", "part", "image"}
ChooseDrive ==
  /\ \/ (Fault \/ (Chosen = {} /\ NoFault)) /\ Failed /\ UNCHANGED past
     \/ /\ NoFault /\ UNCHANGED wf
        /\ \E d \in Chosen :
             /\ op' = [op EXCEPT !.at = "get", !.drive = d]
             /\ past' = [past EXCEPT !.moved = @ \/ \E e \in Drives \ {d} : Begun(e)]
  /\ UNCHANGED <<present, disk>> /\ Same
Image2Disk == Streaming("image2disk", "start") /\ ChooseDrive
QemuNbdImage2Disk == Streaming("qemu", "start") /\ ChooseDrive

\* Any certificate authority will do.
validate_certMutant == image.ca \in {"none", "valid", "invalid"}

\* Without a certificate authority the system's are used.
validate_cert == image.ca # "invalid"

\* The answer to the request: a certificate that is not valid, no connection or
\* an error status, or a body.  A body that is cut off or not the image at all
\* counts as a fault.
Answer(by, next) ==
  /\ Streaming(by, "get")
  /\ \/ (IF validate_cert THEN Fault ELSE NoFault) /\ Again /\ UNCHANGED disk
     \/ /\ validate_cert
        /\ \E b \in Bodies : /\ IF b = "whole" THEN NoFault ELSE Fault
                             /\ next[b]
  /\ UNCHANGED <<present, past>> /\ Same

\* image2disk opens the drive and writes while it downloads.  The kernel keeps
\* the partition table it knows.
GetToDrive ==
  LET d == op.drive
      write == /\ Sys(d, "scrap", disk[d].known /\ disk[d].sys \in {"part", "image"}) IN
  Answer("image2disk", [b \in Bodies |->
    /\ write /\ op' = [op EXCEPT !.at = "copy", !.body = b] /\ UNCHANGED wf])

\* findDecompressor fails before anything is written.
findDecompressor ==
  /\ Streaming("image2disk", "get") /\ validate_cert /\ Fault /\ Again
  /\ Keep

\* What a drive holds after all of body was written to it as it is: an image in
\* the format qcow2 has no partition table.
Written(body) ==
  IF image.fmt = "qcow2" \/ body = "other" THEN {"scrap"}
  ELSE IF body = "whole" THEN {"image"} ELSE {"scrap", "part"}

\* io.Copy: the end of a truncated body (ErrUnexpectedEOF) is no error, a lost
\* connection or a failed write is.
CopyToDrive ==
  /\ Streaming("image2disk", "copy")
  /\ \/ NoFault /\ Goto("sync")
        /\ \E sys \in Written(op.body) : Sys(op.drive, sys, disk[op.drive].known)
     \/ Fault /\ Again
        /\ \E sys \in Written("cut") : Sys(op.drive, sys, disk[op.drive].known)
  /\ UNCHANGED <<present, past>> /\ Same

\* Sync and BLKRRPART; that the partition table is not read again is ignored.
SyncDrive ==
  /\ Streaming("image2disk", "sync")
  /\ \/ Fault /\ Again /\ UNCHANGED disk
     \/ Fault /\ Goto("hash") /\ UNCHANGED disk
     \/ NoFault /\ Goto("hash") /\ disk' = [disk EXCEPT ![op.drive].known = TRUE]
  /\ UNCHANGED <<present, past>> /\ Same

\* The checksum is logged but not compared.
HashOkMutant == op.body \in Bodies

\* The checksum of the download, if one was given.
HashOk == image.sha => op.body = "whole"

CompareHash ==
  /\ Streaming("image2disk", "hash") /\ NoFault
  /\ IF HashOk THEN Done ELSE Again
  /\ Keep

\* qemu_nbd_image2disk saves the image first.
GetToFile ==
  Answer("qemu", [b \in Bodies |->
    op' = [op EXCEPT !.at = "save", !.body = b] /\ UNCHANGED <<wf, disk>>])
createDecompressor ==
  /\ Streaming("qemu", "get") /\ validate_cert /\ Fault /\ Again
  /\ Keep
SaveImage ==
  /\ Streaming("qemu", "save")
  /\ (NoFault /\ Goto("verify")) \/ (Fault /\ Again)
  /\ Keep

VerifyImage ==
  /\ Streaming("qemu", "verify") /\ NoFault
  /\ IF HashOk THEN Goto("attach") ELSE Again
  /\ Keep

AttachImage ==
  /\ Streaming("qemu", "attach")
  /\ (NoFault /\ Goto("wait")) \/ (Fault /\ Again)
  /\ Keep

\* The loop has no end of its own: what is no image has no partition, and a
\* truncated one may have none.
WaitForPartition ==
  /\ Streaming("qemu", "wait") /\ op.body # "other" /\ NoFault
  /\ Sys(op.drive, "scrap", disk[op.drive].known /\ disk[op.drive].sys \in {"part", "image"})
  /\ Goto("dd")
  /\ UNCHANGED <<present, past>> /\ Same

DD ==
  /\ Streaming("qemu", "dd")
  /\ LET d == op.drive IN
     \/ /\ NoFault /\ Goto("reprobe")
        /\ Sys(d, IF op.body = "whole" THEN "image" ELSE "part", disk[d].known)
     \/ /\ Fault /\ Again
        /\ \E sys \in {"scrap", "part"} : Sys(d, sys, disk[d].known)
  /\ UNCHANGED <<present, past>> /\ Same

Reprobe ==
  /\ Streaming("qemu", "reprobe")
  /\ \/ Fault /\ Again /\ UNCHANGED disk
     \/ NoFault /\ Done /\ disk' = [disk EXCEPT ![op.drive].known = TRUE]
  /\ UNCHANGED <<present, past>> /\ Same

-----------------------------------------------------------------------------
(* Writing a file, and commands in a chroot.                               *)

\* Both actions look for the disk and its root partition, and mount it.
MountRoot(kind, next) ==
  /\ At(kind, "start")
  /\ LET found == {d \in Chosen : FindRootPartitionForDisk(d)} IN
     \/ (Fault \/ (found = {} /\ NoFault)) /\ Failed
     \/ /\ NoFault /\ UNCHANGED wf
        /\ \E d \in found : op' = [op EXCEPT !.at = next, !.drive = d]
  /\ Keep

MountForFile == MountRoot("writefile", "write")

\* recursiveEnsureDir, WriteFile, Chown.
WriteFile ==
  /\ At("writefile", "write")
  /\ \/ NoFault /\ Done /\ disk' = [disk EXCEPT ![op.drive].files = @ \cup {Task.file}]
     \/ Fault /\ Failed /\ UNCHANGED disk
  /\ UNCHANGED <<present, past>> /\ Same

MountForCommand == MountRoot("cexec", IF Task.resolv THEN "backup" ELSE "special")

\* The error, or the success, with which cexec returns.
Unwind(step) == op' = [op EXCEPT !.at = step, !.ok = FALSE] /\ UNCHANGED wf
Returns(ok) == IF ok THEN Done ELSE Failed
Torn == past' = [past EXCEPT !.torn = @ \/ Task.resolv]

BackupFile ==
  /\ At("cexec", "backup")
  /\ LET d == op.drive IN
     \/ (Fault \/ (disk[d].resolv = "absent" /\ NoFault)) /\ Failed /\ UNCHANGED disk
     \/ /\ disk[d].resolv # "absent" /\ NoFault /\ Goto("create")
        /\ disk' = [disk EXCEPT ![d].backup = disk[d].resolv, ![d].resolv = "absent"]
  /\ UNCHANGED <<present, past>> /\ Same

CreateResolv ==
  /\ At("cexec", "create")
  /\ \/ Fault /\ Unwind("restore") /\ UNCHANGED disk
     \/ NoFault /\ Goto("special") /\ disk' = [disk EXCEPT ![op.drive].resolv = "empty"]
  /\ UNCHANGED <<present, past>> /\ Same

\* A failed mount leaves the earlier ones; resolv.conf is the last.
MountSpecialDirs ==
  /\ At("cexec", "special")
  /\ \/ /\ NoFault /\ UNCHANGED wf
        /\ op' = [op EXCEPT !.at = "chroot", !.bound = Task.resolv]
     \/ Fault /\ IF Task.resolv THEN Unwind("restore") ELSE Failed
  /\ Keep

Chroot ==
  /\ At("cexec", "chroot")
  /\ (NoFault /\ Goto("run")) \/ (Fault /\ Unwind("umount"))
  /\ Keep

\* Only the last command of the microvisor's script has an exit code.
Masked == wf.tmpl.os = "microvisor"
RunCommand ==
  /\ At("cexec", "run")
  /\ LET d == op.drive
         runs == Task.file = "split" => "custom.cfg" \in disk[d].files
         exits(ok) == op' = [op EXCEPT !.at = "leave", !.ok = ok] /\ UNCHANGED wf IN
     \/ /\ NoFault /\ runs /\ exits(TRUE)
        /\ disk' = [disk EXCEPT ![d].files = (@ \ {"custom.cfg"}) \cup {Task.file}]
     \/ /\ IF runs THEN Fault ELSE NoFault
        /\ exits(Masked)
        /\ disk' = [disk EXCEPT ![d].files = IF Masked THEN @ \ {"custom.cfg"} ELSE @]
  /\ UNCHANGED <<present, past>> /\ Same

\* The deferred calls.  If the way back out of the chroot fails, the paths of the
\* other two do not exist there.
LeaveChroot ==
  /\ At("cexec", "leave")
  /\ \/ NoFault /\ Goto("umount") /\ UNCHANGED past
     \/ Fault /\ Returns(op.ok) /\ Torn
  /\ UNCHANGED <<present, disk>> /\ Same

\* The file is restored before resolv.conf is unmounted.
AfterUmountMutant(bound) ==
  IF Task.resolv THEN op' = [op EXCEPT !.at = "restore", !.bound = TRUE] /\ UNCHANGED wf
  ELSE Returns(op.ok)

AfterUmount(bound) ==
  IF Task.resolv THEN op' = [op EXCEPT !.at = "restore", !.bound = bound] /\ UNCHANGED wf
  ELSE Returns(op.ok)

\* umountSpecialDirs stops at its first error, and nobody looks at it.
UmountSpecialDirs ==
  /\ At("cexec", "umount")
  /\ \/ NoFault /\ AfterUmount(FALSE) /\ UNCHANGED past
     \/ Fault /\ AfterUmount(op.bound) /\ Torn
  /\ UNCHANGED <<present, disk>> /\ Same

\* A file that something is mounted on cannot be replaced; the error is logged.
RestoreFile ==
  /\ At("cexec", "restore") /\ Returns(op.ok)
  /\ LET d == op.drive IN
     \/ Fault /\ Torn /\ UNCHANGED disk
     \/ NoFault /\ op.bound /\ UNCHANGED <<disk, past>>
     \/ /\ NoFault /\ ~op.bound /\ UNCHANGED past
        /\ disk' = [disk EXCEPT ![d].resolv = disk[d].backup, ![d].backup = "absent"]
  /\ UNCHANGED present /\ Same

-----------------------------------------------------------------------------
(* The scripts after the files: each finds the disk in its own way.        *)

\* blkid finds root file systems on all drives, removable ones too; with two of
\* them the partition number is no number.
RootDisks(d) == {e \in present : FindRootPartitionForDisk(e)} = {d}

\* The other drives become volumes of LVM.
TakeOthers(d) ==
  [e \in Drives |-> IF e \in (present \cap Fixed) \ {d} THEN Disk("blank", TRUE) ELSE disk[e]]

\* Partitions that are there already make it fail.
PartitionDisk ==
  /\ At("kernelupgrade", "start")
  /\ LET found == {d \in present : RootDisks(d) /\ "partitions" \notin disk[d].files} IN
     \/ (Fault \/ (found = {} /\ NoFault)) /\ Failed /\ UNCHANGED disk
     \/ /\ NoFault /\ UNCHANGED wf
        /\ \E d \in found :
             /\ op' = [op EXCEPT !.at = "kernel", !.drive = d]
             /\ disk' = [TakeOthers(d) EXCEPT ![d].files = @ \cup {"partitions"}]
  /\ UNCHANGED <<present, past>> /\ Same

\* It leaves an empty resolv.conf.
UpgradeKernel ==
  /\ At("kernelupgrade", "kernel")
  /\ \/ Fault /\ ~wf.tmpl.skipKernel /\ Failed
        /\ disk' \in {disk, [disk EXCEPT ![op.drive].resolv = "empty"]}
     \/ NoFault /\ Done
        /\ disk' = IF wf.tmpl.skipKernel THEN disk
                   ELSE [disk EXCEPT ![op.drive].resolv = "empty"]
  /\ UNCHANGED <<present, past>> /\ Same

\* The last drive with a boot partition that lsblk lists, whatever its order is.
EnableSecurity ==
  /\ At("security", "start")
  /\ LET found == {d \in present \cap Fixed : Bootable(d)} IN
     \/ (Fault \/ (found = {} /\ NoFault)) /\ Failed /\ UNCHANGED disk
     \/ /\ NoFault /\ Done
        /\ \E d \in found :
             disk' = [TakeOthers(d) EXCEPT ![d].files = @ \cup {"sealed"}]
  /\ UNCHANGED <<present, past>> /\ Same

\* A failure of efibootmgr is not noticed.
Efibootset ==
  /\ At("efibootset", "start") /\ Done
  /\ (NoFault /\ bootDisk' = TRUE) \/ (Fault /\ UNCHANGED bootDisk)
  /\ Untouched /\ UNCHANGED <<image, name>>

Reboot ==
  /\ At("reboot", "start") /\ NoFault /\ Done
  /\ Keep

-----------------------------------------------------------------------------
(* The environment.                                                        *)

Killed == Task.kind = "cexec" /\ Task.resolv

\* An action is over its time: the worker kills it, and the workflow has failed.
Timeout ==
  /\ wf.st = "running" /\ NoFault /\ Failed
  /\ past' = [past EXCEPT !.torn = @ \/ Killed]
  /\ UNCHANGED <<present, disk>> /\ Same

Erased == wf.cur > 2 \/ (wf.cur = 2 /\ op.at = "wipe")

\* A drive appears late, or is plugged in.
Attach(d) ==
  /\ d \in Late \ present /\ wf.st = "running"
  /\ present' = present \cup {d}
  /\ past' = [past EXCEPT !.moved = @ \/ (Erased /\ d \in Fixed /\ disk[d].sys # "blank")]
  /\ UNCHANGED <<wf, disk, op, budget>> /\ Same

\* The node restarts, with all its drives, perhaps under other names.  It boots
\* from the network again, where the action that was running is run again, or
\* from its disk.
PowerCycle ==
  /\ wf.st = "running" /\ budget.crashes < MaxCrashes
  /\ budget' = [budget EXCEPT !.crashes = @ + 1]
  /\ wf' = IF bootDisk THEN [wf EXCEPT !.st = "left"] ELSE wf
  /\ op' = NewOp
  /\ present' = present \cup {d \in Drives \ Late : Attr[d].rm}
  /\ name' \in Orders
  /\ disk' = [d \in Drives |-> [disk[d] EXCEPT !.known = TRUE]]
  /\ past' = [past EXCEPT !.torn = @ \/ Killed]
  /\ UNCHANGED <<image, bootDisk>>

-----------------------------------------------------------------------------
ImageToDiskStep ==
  \/ Image2Disk \/ GetToDrive \/ findDecompressor \/ CopyToDrive \/ SyncDrive \/ CompareHash
QemuStep ==
  \/ QemuNbdImage2Disk \/ GetToFile \/ createDecompressor \/ SaveImage \/ VerifyImage
  \/ AttachImage \/ WaitForPartition \/ DD \/ Reprobe
FileStep == MountForFile \/ WriteFile
CommandStep ==
  \/ MountForCommand \/ BackupFile \/ CreateResolv \/ MountSpecialDirs \/ Chroot
  \/ RunCommand \/ LeaveChroot \/ UmountSpecialDirs \/ RestoreFile
ScriptStep ==
  \/ SecureBootFlag \/ Eject \/ ListDisks \/ WipeDisk \/ Partprobe
  \/ PartitionDisk \/ UpgradeKernel \/ EnableSecurity \/ Efibootset \/ Reboot

Next ==
  \/ GenerateWorkflowInputs
  \/ ImageToDiskStep \/ QemuStep \/ FileStep \/ CommandStep \/ ScriptStep
  \/ Timeout \/ PowerCycle
  \/ \E d \in Drives : Attach(d)

Spec == Init /\ [][Next]_vars

-----------------------------------------------------------------------------
(* Properties.                                                             *)

\* A workflow whose image has a checksum is successful only if the whole image
\* is on a disk, with every file of the template on that same disk, and no older
\* system is left on a disk that was there from the start: the actions agree on
\* the disk although each looks for it anew, and a truncated image, or one in a
\* format that was not detected, is caught, if not by its own action.  Drives may change
\* their names; one that brings a system after the erasure leads it astray, and so does
\* a stream that is interrupted and goes on to another drive (image.go,
\* drive_detection.go, kernel_upgrade.sh, os_selection.sh).
InstalledOn(d) ==
  /\ disk[d].sys = "image" /\ Wanted(wf.tmpl) \subseteq disk[d].files
  /\ \A e \in (Fixed \ Late) \ {d} : disk[e].sys \notin {"old", "part", "image"}
SuccessIsInstalled ==
  wf.st = "success" /\ image.sha /\ ~past.moved
    => \E d \in present : InstalledOn(d)

\* No file is written next to the image: unless drives moved in that sense, every
\* file is on a disk that holds the image, whole if there is a checksum (writefile,
\* cexec: FindRootPartitionForDisk).
OneDisk ==
  ~past.moved => \A d \in Drives :
    disk[d].files # {} => disk[d].sys = "image" \/ (~image.sha /\ disk[d].sys = "part")

\* The qcow2 variant touches a disk only after the checksum of the download was
\* found right, and neither variant writes one byte of a server whose CA
\* certificate is not valid (Write in both image.go, validate_cert).
VerifiedFirst ==
  [][Task.kind = "stream" /\ wf.st = "running"
       => \A d \in Drives : disk'[d].sys # disk[d].sys =>
            /\ image.ca # "invalid"
            /\ wf.stream = "qemu" /\ image.sha => op.body = "whole"]_vars

\* A new connection that the node lets in once its cloud-init file is on the disk; a
\* standalone node has no firewall, and ssh for a local account is left out.
LetsIn(p) ==
  \/ wf.tmpl.standalone
  \/ IF wf.tmpl.os = "ubuntu" THEN UfwAdmits(Rules, p) ELSE IptablesAdmits(Rules, p)

\* The cloud-init file of either system opens what the rules say and nothing else
\* (curation.go; 99_infra.cfg).
FirewallAsAsked ==
  \A d \in Drives : "99_infra.cfg" \in disk[d].files /\ ~wf.tmpl.standalone
    => \A p \in Packet : LetsIn(p) <=> \E r \in Rules : Matches(r, p)

\* Whichever call fails, cexec leaves the resolv.conf of the image in its place,
\* unless the way back itself fails, or it is killed (cexec: the deferred
\* restoreFile, umountSpecialDirs and exitChroot run in this order).
ResolvKept ==
  wf.tmpl.os = "microvisor" /\ ~past.torn
    => \A d \in Drives : disk[d].resolv # "image" /\ disk[d].sys = "image"
         => op.at \in {"create", "special", "chroot", "run", "leave", "umount", "restore"}

=============================================================================
