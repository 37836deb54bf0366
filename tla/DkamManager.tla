----------------------------- MODULE DkamManager -----------------------------
(***************************************************************************)
(* DKAM: it builds the boot artifacts of edge nodes, iPXE and the MicroOS, *)
(* from the CA certificates and the configuration, signs them with keys of *)
(* the build, and puts them on the volume from which devices boot.  The    *)
(* certificates and the configuration change at any moment, steps fail,    *)
(* commands of the scripts fail unnoticed, and the process is restarted    *)
(* between any two steps.                                                  *)
(***************************************************************************)
EXTENDS Naturals, FiniteSets

CONSTANTS
  Oam,         \* an OAM server is configured
  MaxCerts,    \* bound: versions of the CA certificates
  MaxConfs,    \* bound: versions of the configuration file
  VproConfs,   \* the versions with skipOSProvisioning
  MaxFaults,   \* bound: steps that fail with an error
  MaxMasked,   \* bound: commands of a script that fail without an error
  MaxCrashes   \* bound: restarts for another reason

ASSUME ConfAssumption == Oam \in BOOLEAN /\ VproConfs \subseteq Nat
ASSUME BoundsAssumption ==
  {MaxCerts, MaxConfs, MaxFaults, MaxMasked, MaxCrashes} \subseteq Nat

VARIABLES
  certs,   \* version of the CA certificate files
  conf,    \* version of the configuration file
  events,  \* file events that the process has not handled
  proc,    \* main, and the configuration that GetInfraConfig returns
  build,   \* BuildBinaries, and what it has read
  pvc,     \* the artifacts on the volume /data
  masked,  \* history: a command failed unnoticed since keys were made last
  budget   \* faults, masked failures and crashes so far

vars == <<certs, conf, events, proc, build, pvc, masked, budget>>

\* read: the version of the configuration that updateConfig is working on; vpro:
\* main found skipOSProvisioning set and made the vPro installer instead.
MainSteps == {"down", "watching", "reading", "configured", "artifacts", "serving"}
ProcType == [at : MainSteps, read : Nat, conf : Nat, vpro : BOOLEAN, wg : 0..1]
Down == [at |-> "down", read |-> 0, conf |-> 0, vpro |-> FALSE, wg |-> 0]

BuildSteps == {"none", "chain", "keys", "db", "server", "ipxe",
               "config", "certs", "initramfs", "vmlinuz", "done"}
BuildType == [at : BuildSteps, cert : Nat, conf : Nat]
NoBuild == [at |-> "none", cert |-> 0, conf |-> 0]

\* by: the build that signed the artifact, the latest one with keys or an older
\* one; cert, conf: what is embedded in it.
Signed == {"db", "server", "ipxe", "initramfs", "vmlinuz"}
Artifacts == Signed \cup {"installer"}
ArtifactType == [by : {"none", "old", "this"}, cert : Nat, conf : Nat]

TypeOK ==
  /\ certs \in Nat /\ conf \in Nat
  /\ events \in [certs : BOOLEAN, conf : BOOLEAN]
  /\ proc \in ProcType /\ build \in BuildType
  /\ pvc \in [Artifacts -> ArtifactType] /\ masked \in BOOLEAN
  /\ budget \in [faults : Nat, masked : Nat, crashes : Nat]

NoEvents == [certs |-> FALSE, conf |-> FALSE]

Init ==
  /\ certs = 1 /\ conf = 1 /\ events = NoEvents
  /\ proc = Down /\ build = NoBuild /\ masked = FALSE
  /\ pvc = [a \in Artifacts |-> [by |-> "none", cert |-> 0, conf |-> 0]]
  /\ budget = [faults |-> 0, masked |-> 0, crashes |-> 0]

NoFault == UNCHANGED budget
Fault == /\ budget.faults < MaxFaults
         /\ budget' = [budget EXCEPT !.faults = @ + 1]

\* A command fails in a script that goes on, or that exits with code 0.
Masked == /\ budget.masked < MaxMasked
          /\ budget' = [budget EXCEPT !.masked = @ + 1]
          /\ masked' = TRUE

\* What was started before goes on being counted.
FatalMutant ==
  /\ proc' = [Down EXCEPT !.wg = proc.wg] /\ build' = NoBuild /\ events' = NoEvents
  /\ UNCHANGED <<certs, conf, pvc, masked>>

\* The process ends, by Fatal or a panic; Kubernetes starts it again.
Fatal ==
  /\ proc' = Down /\ build' = NoBuild /\ events' = NoEvents
  /\ UNCHANGED <<certs, conf, pvc, masked>>

-----------------------------------------------------------------------------
(* main.                                                                   *)

MainGoto(step) == proc' = [proc EXCEPT !.at = step]

\* The certificate files must exist.
SetWatcher ==
  /\ proc.at = "down" /\ NoFault /\ MainGoto("watching")
  /\ UNCHANGED <<certs, conf, events, build, pvc, masked>>

\* config.Read, in three steps: the file is read; the manifest is downloaded and
\* the configuration set; only then are its changes watched.
ReadInConfig ==
  /\ proc.at = "watching" /\ NoFault
  /\ proc' = [proc EXCEPT !.at = "reading", !.read = conf]
  /\ UNCHANGED <<certs, conf, events, build, pvc, masked>>
UpdateConfig ==
  /\ proc.at = "reading"
  /\ \/ Fault /\ Fatal
     \/ /\ NoFault /\ proc' = [proc EXCEPT !.at = "configured", !.conf = proc.read]
        /\ UNCHANGED <<certs, conf, events, build, pvc, masked>>
WatchConfig ==
  /\ proc.at = "configured" /\ NoFault /\ MainGoto("artifacts")
  /\ UNCHANGED <<certs, conf, events, build, pvc, masked>>

\* GetArtifacts downloads the MicroOS; then the build is started and the process
\* reports that it is ready, long before the build ends.
GetArtifacts ==
  /\ proc.at = "artifacts" /\ proc.conf \notin VproConfs
  /\ \/ Fault /\ Fatal
     \/ /\ NoFault /\ build' = [NoBuild EXCEPT !.at = "chain"]
        /\ proc' = [proc EXCEPT !.at = "serving", !.wg = IF Oam THEN @ + 1 ELSE @]
        /\ UNCHANGED <<certs, conf, events, pvc, masked>>

CurateVProInstaller ==
  /\ proc.at = "artifacts" /\ proc.conf \in VproConfs
  /\ \/ Fault /\ Fatal
     \/ /\ NoFault
        /\ pvc' = [pvc EXCEPT !["installer"] =
                     [by |-> "none", cert |-> certs, conf |-> proc.conf]]
        /\ proc' = [proc EXCEPT !.at = "serving", !.vpro = TRUE,
                                !.wg = IF Oam THEN @ + 1 ELSE @]
        /\ UNCHANGED <<certs, conf, events, build, masked>>

-----------------------------------------------------------------------------
(* BuildBinaries, beside main.                                             *)

BuildGoto(step) == build' = [build EXCEPT !.at = step]
buildOnly == <<certs, conf, events, proc>>

\* The goroutine ends with wg.Done, which panics if nothing is counted.
EndBuild ==
  IF proc.wg = 0 THEN proc' = Down /\ build' = NoBuild /\ events' = NoEvents
  ELSE proc' = [proc EXCEPT !.wg = @ - 1] /\ BuildGoto("done") /\ UNCHANGED events

Publish(a) == pvc' = [pvc EXCEPT ![a] = [by |-> "this", cert |-> build.cert,
                                         conf |-> build.conf]]
Outdate == pvc' = [a \in Artifacts |->
                     [pvc[a] EXCEPT !.by = IF @ = "this" THEN "old" ELSE @]]

\* BuildSignIpxe: the URL of the provisioning server goes into chain.ipxe.
CopyChain ==
  /\ build.at = "chain"
  /\ \/ Fault /\ Fatal
     \/ /\ NoFault /\ build' = [build EXCEPT !.at = "keys", !.conf = proc.conf]
        /\ UNCHANGED <<buildOnly, pvc, masked>>

\* build_sign_ipxe.sh: new keys and the CA certificate; it exits with code 0 when
\* the certificate file is empty.
GenerateKeys ==
  /\ build.at = "keys"
  /\ \/ Fault /\ Fatal
     \/ /\ NoFault /\ build' = [build EXCEPT !.at = "db", !.cert = certs]
        /\ Outdate /\ masked' = FALSE /\ UNCHANGED buildOnly
     \/ Masked /\ BuildGoto("config") /\ Outdate /\ UNCHANGED buildOnly

\* It publishes three files, and does not stop when one cannot be made.
PublishIpxe ==
  /\ \E a \in {"db", "server", "ipxe"} :
       /\ build.at = a
       /\ BuildGoto(CASE a = "db" -> "server" [] a = "server" -> "ipxe"
                      [] OTHER -> "config")
       /\ \/ NoFault /\ Publish(a) /\ UNCHANGED masked
          \/ Masked /\ UNCHANGED pvc
  /\ UNCHANGED buildOnly

\* Keys of its own are made for the MicroOS.
ReplaceConfigMutant ==
  /\ build.at = "config"
  /\ NoFault /\ build' = [build EXCEPT !.at = "certs", !.conf = proc.conf]
  /\ Outdate /\ UNCHANGED <<buildOnly, masked>>

\* SignMicroOS reads the configuration again, ...
ReplaceConfig ==
  /\ build.at = "config"
  /\ \/ Fault /\ Fatal
     \/ /\ NoFault /\ build' = [build EXCEPT !.at = "certs", !.conf = proc.conf]
        /\ UNCHANGED <<buildOnly, pvc, masked>>

\* ... update_initramfs.sh the certificates; again an empty file ends it with code 0,
\* and a bad archive with an error.
GetCert ==
  /\ build.at = "certs"
  /\ \/ Fault /\ Fatal
     \/ /\ NoFault /\ build' = [build EXCEPT !.at = "initramfs", !.cert = certs]
        /\ UNCHANGED <<buildOnly, pvc, masked>>
     \/ Masked /\ EndBuild /\ UNCHANGED <<certs, conf, pvc>>

\* secure_uos.sh signs both files, with code 0 if it cannot, and publishes them.
PublishInitramfs ==
  /\ build.at = "initramfs"
  /\ \/ Fault /\ Fatal
     \/ NoFault /\ Publish("initramfs") /\ BuildGoto("vmlinuz")
        /\ UNCHANGED <<buildOnly, masked>>
     \/ Masked /\ EndBuild /\ UNCHANGED <<certs, conf, pvc>>

PublishVmlinuz ==
  /\ build.at = "vmlinuz"
  /\ \/ Fault /\ Fatal
     \/ NoFault /\ Publish("vmlinuz") /\ EndBuild /\ UNCHANGED <<certs, conf, masked>>

-----------------------------------------------------------------------------
(* Files and their watchers.                                               *)

\* The files are watched once the artifacts are there.
WatchingMutant == build.at = "done"
Watching == proc.at # "down"

ChangeCerts ==
  /\ certs < MaxCerts /\ certs' = certs + 1
  /\ events' = [events EXCEPT !.certs = @ \/ Watching]
  /\ UNCHANGED <<conf, proc, build, pvc, masked, budget>>

ChangeConf ==
  /\ conf < MaxConfs /\ conf' = conf + 1
  /\ events' = [events EXCEPT !.conf = @ \/ proc.at \in {"artifacts", "serving"}]
  /\ UNCHANGED <<certs, proc, build, pvc, masked, budget>>

\* The change is only logged.
CertificateChangedMutant ==
  /\ events.certs /\ events' = [events EXCEPT !.certs = FALSE]
  /\ UNCHANGED <<certs, conf, proc, build, pvc, masked, budget>>

\* "Restart DKAM".
CertificateChanged == events.certs /\ NoFault /\ Fatal

\* OnConfigChange.
ConfigChanged ==
  /\ events.conf
  /\ \/ Fault /\ Fatal
     \/ /\ NoFault /\ proc' = [proc EXCEPT !.conf = conf]
        /\ events' = [events EXCEPT !.conf = FALSE]
        /\ UNCHANGED <<certs, conf, build, pvc, masked>>

Crash ==
  /\ proc.at # "down" /\ budget.crashes < MaxCrashes /\ Fatal
  /\ budget' = [budget EXCEPT !.crashes = @ + 1]

-----------------------------------------------------------------------------
Main == SetWatcher \/ ReadInConfig \/ UpdateConfig \/ WatchConfig
        \/ GetArtifacts \/ CurateVProInstaller
BuildBinaries ==
  \/ CopyChain \/ GenerateKeys \/ PublishIpxe
  \/ ReplaceConfig \/ GetCert \/ PublishInitramfs \/ PublishVmlinuz

Next == \/ Main \/ BuildBinaries \/ CertificateChanged \/ ConfigChanged
        \/ ChangeCerts \/ ChangeConf \/ Crash

Spec == Init /\ [][Next]_vars

\* Every goroutine goes on.
FairSpec == Spec /\ WF_vars(Main) /\ WF_vars(BuildBinaries)
                 /\ WF_vars(CertificateChanged) /\ WF_vars(ConfigChanged)

-----------------------------------------------------------------------------
(* Properties.                                                             *)

\* What the process has made or is making, and has certificates in it.
Embedding == IF proc.vpro THEN {"installer"} ELSE Signed \ {"db", "vmlinuz"}
Finished == IF proc.vpro THEN proc.at = "serving" ELSE build.at = "done"
Current == \A a \in Embedding : pvc[a].cert = certs

\* Once a build has ended without a failure, and no event is waiting, every
\* artifact embeds the certificates of now, whenever they changed (SetWatcher is
\* called first, the scripts read the certificates twice).
BuiltIsCurrent == Finished /\ ~masked /\ ~events.certs => Current

\* A volume whose kernel was signed with the latest keys has the certificate of
\* these keys and an iPXE signed with them, also after a restart in the middle of
\* a later build (build_sign_ipxe.sh, secure_uos.sh).
KeysMatch ==
  ~masked /\ pvc["vmlinuz"].by = "this" => \A a \in Signed : pvc[a].by = "this"

\* "Certificate file changed. Rebuilding iPXE and microOS" (main.go:239): the
\* artifacts of the mode the process is in embed the certificates in the end,
\* unless a script fails unnoticed.
CertsArrive == <>[](Current \/ masked)

\* "Signed MicroOS and moved to PVC" (main.go:190) is said of artifacts that are
\* on the volume.
SignedAndMoved == build.at = "done" => \A a \in Signed : pvc[a].by = "this"

=============================================================================
