-------------------------- MODULE DkamManager_proofs --------------------------
(***************************************************************************)
(* Theorems about DkamManager, for any number of changes of certificates   *)
(* and configuration, failures and restarts, with and without OAM server.  *)
(***************************************************************************)
EXTENDS DkamManager, TLAPS

-----------------------------------------------------------------------------
(* The inductive invariant.                                                *)

\* A build, or the vPro installer, belongs to a process that serves; what is
\* counted was counted by it.
ProcInv ==
  /\ build.at # "none" => proc.at = "serving" /\ ~proc.vpro
  /\ proc.vpro => proc.at = "serving"
  /\ proc.wg = 1 => proc.at = "serving"
  /\ proc.at = "down" => ~events.certs

AfterCerts == {"initramfs", "vmlinuz", "done"}

\* What is embedded so far is as of now, unless an event waits or a command has
\* failed; the files of iPXE are made before those of the MicroOS.
EmbedInv ==
  ~masked /\ ~events.certs =>
    /\ build.at \in {"db", "server", "ipxe", "config", "certs"} \cup AfterCerts
         => build.cert = certs
    /\ build.at \in {"ipxe", "config", "certs"} \cup AfterCerts => pvc["server"].cert = certs
    /\ build.at \in {"config", "certs"} \cup AfterCerts => pvc["ipxe"].cert = certs
    /\ build.at \in {"vmlinuz", "done"} => pvc["initramfs"].cert = certs
    /\ proc.vpro => pvc["installer"].cert = certs

\* Between the making of new keys and the last signature no kernel is signed
\* with them; what has been published is.
KeysInv ==
  ~masked =>
    /\ build.at \in BuildSteps \ {"none", "chain", "keys", "done"} => pvc["vmlinuz"].by # "this"
    /\ build.at \in {"server", "ipxe", "config", "certs"} \cup AfterCerts => pvc["db"].by = "this"
    /\ build.at \in {"ipxe", "config", "certs"} \cup AfterCerts => pvc["server"].by = "this"
    /\ build.at \in {"config", "certs"} \cup AfterCerts => pvc["ipxe"].by = "this"
    /\ build.at = "vmlinuz" => pvc["initramfs"].by = "this"

IInv == TypeOK /\ ProcInv /\ EmbedInv /\ KeysInv /\ KeysMatch

-----------------------------------------------------------------------------
(* Types.                                                                  *)

LEMMA DownType ==
  /\ Down \in ProcType /\ NoBuild \in BuildType
  /\ NoEvents \in [certs : BOOLEAN, conf : BOOLEAN]
BY DEF Down, ProcType, MainSteps, NoBuild, BuildType, BuildSteps, NoEvents

LEMMA PublishType ==
  ASSUME TypeOK, NEW a \in Artifacts, Publish(a)
  PROVE  pvc' \in [Artifacts -> ArtifactType]
BY DEF TypeOK, Publish, ArtifactType, BuildType

LEMMA OutdateType == ASSUME TypeOK, Outdate PROVE pvc' \in [Artifacts -> ArtifactType]
<1>1. ASSUME NEW a \in Artifacts
      PROVE  [pvc[a] EXCEPT !.by = IF @ = "this" THEN "old" ELSE @] \in ArtifactType
  BY DEF TypeOK, ArtifactType
<1> QED
  BY <1>1 DEF Outdate

LEMMA BudgetType ==
  ASSUME TypeOK, Fault \/ NoFault \/ Masked
  PROVE  budget' \in [faults : Nat, masked : Nat, crashes : Nat]
BY DEF TypeOK, Fault, NoFault, Masked

LEMMA FatalTypes ==
  ASSUME TypeOK, Fatal
  PROVE  /\ certs' \in Nat /\ conf' \in Nat
         /\ events' \in [certs : BOOLEAN, conf : BOOLEAN]
         /\ proc' \in ProcType /\ build' \in BuildType
         /\ pvc' \in [Artifacts -> ArtifactType] /\ masked' \in BOOLEAN
BY DownType DEF TypeOK, Fatal

LEMMA EndBuildTypes ==
  ASSUME TypeOK, EndBuild
  PROVE  /\ proc' \in ProcType /\ build' \in BuildType
         /\ events' \in [certs : BOOLEAN, conf : BOOLEAN]
<1>1. CASE proc.wg = 0
  BY <1>1, DownType DEF EndBuild
<1>2. CASE proc.wg # 0
  BY <1>2 DEF TypeOK, EndBuild, BuildGoto, ProcType, BuildType, BuildSteps
<1> QED
  BY <1>1, <1>2

\* main goes to its next step, with what it has read.
LEMMA MoveType ==
  ASSUME proc \in ProcType, NEW step \in MainSteps, NEW n \in Nat
  PROVE  /\ [proc EXCEPT !.at = step] \in ProcType
         /\ [proc EXCEPT !.conf = n] \in ProcType
         /\ [proc EXCEPT !.at = step, !.read = n] \in ProcType
         /\ [proc EXCEPT !.at = step, !.conf = n] \in ProcType
BY DEF ProcType

\* The process serves; the build is counted if there is an OAM server.
LEMMA ServeType ==
  ASSUME proc \in ProcType, proc.wg = 1 => proc.at = "serving", proc.at = "artifacts",
         \/ proc' = [proc EXCEPT !.at = "serving", !.wg = IF Oam THEN @ + 1 ELSE @]
         \/ proc' = [proc EXCEPT !.at = "serving", !.vpro = TRUE, !.wg = IF Oam THEN @ + 1 ELSE @]
  PROVE  proc' \in ProcType
<1> DEFINE w == IF Oam THEN proc.wg + 1 ELSE proc.wg
<1>1. w \in 0..1 /\ "serving" \in MainSteps
  BY DEF ProcType, MainSteps
<1>2. \/ proc' = [proc EXCEPT !.at = "serving", !.wg = w]
      \/ proc' = [proc EXCEPT !.at = "serving", !.vpro = TRUE, !.wg = w]
  OBVIOUS
<1> HIDE DEF w
<1> QED
  BY <1>1, <1>2 DEF ProcType

LEMMA TypeOKStep == TypeOK /\ ProcInv /\ [Next]_vars => TypeOK'
<1> SUFFICES ASSUME TypeOK, ProcInv, [Next]_vars PROVE TypeOK'
  OBVIOUS
<1>0. proc \in ProcType /\ conf \in Nat /\ proc.conf \in Nat /\ proc.read \in Nat
  BY DEF TypeOK, ProcType
<1>1. CASE UNCHANGED vars
  BY <1>1 DEF TypeOK, vars
<1>2. ASSUME Fatal, budget' \in [faults : Nat, masked : Nat, crashes : Nat] PROVE TypeOK'
  BY <1>2, FatalTypes DEF TypeOK
<1>3. ASSUME Fault /\ Fatal PROVE TypeOK'
  BY <1>2, <1>3, BudgetType
<1>4. CASE Main
  <2>1. ASSUME proc' \in ProcType, UNCHANGED <<certs, conf, events, build, pvc, masked, budget>>
        PROVE  TypeOK'
    BY <2>1 DEF TypeOK
  <2>2. CASE SetWatcher \/ WatchConfig
    <3>1. proc' \in ProcType
      BY <1>0, <2>2, MoveType DEF SetWatcher, WatchConfig, MainGoto, MainSteps
    <3> QED
      BY <2>1, <2>2, <3>1 DEF SetWatcher, WatchConfig, NoFault
  <2>3. CASE ReadInConfig
    <3>1. proc' \in ProcType
      BY <1>0, <2>3, MoveType DEF ReadInConfig, MainSteps
    <3> QED
      BY <2>1, <2>3, <3>1 DEF ReadInConfig, NoFault
  <2>4. ASSUME UpdateConfig, ~(Fault /\ Fatal) PROVE TypeOK'
    <3>1. proc' \in ProcType
      BY <1>0, <2>4, MoveType DEF UpdateConfig, MainSteps
    <3> QED
      BY <2>1, <2>4, <3>1 DEF UpdateConfig, NoFault
  <2>5. ASSUME GetArtifacts, ~(Fault /\ Fatal) PROVE TypeOK'
    <3>1. proc' \in ProcType
      BY <1>0, <2>5, ServeType DEF GetArtifacts, ProcInv
    <3>2. build' \in BuildType
      BY <2>5 DEF GetArtifacts, NoBuild, BuildType, BuildSteps
    <3> QED
      BY <2>5, <3>1, <3>2 DEF GetArtifacts, NoFault, TypeOK
  <2>6. ASSUME CurateVProInstaller, ~(Fault /\ Fatal) PROVE TypeOK'
    <3>1. proc' \in ProcType
      BY <1>0, <2>6, ServeType DEF CurateVProInstaller, ProcInv
    <3>2. [by |-> "none", cert |-> certs, conf |-> proc.conf] \in ArtifactType
      BY DEF TypeOK, ArtifactType, ProcType
    <3>3. pvc' \in [Artifacts -> ArtifactType]
      BY <2>6, <3>2 DEF CurateVProInstaller, TypeOK
    <3> QED
      BY <2>6, <3>1, <3>3 DEF CurateVProInstaller, NoFault, TypeOK
  <2> QED
    BY <1>3, <1>4, <2>2, <2>3, <2>4, <2>5, <2>6 DEF Main
<1>5. CASE BuildBinaries
  <2>1. CASE CopyChain \/ ReplaceConfig
    BY <1>3, <2>1
    DEF CopyChain, ReplaceConfig, buildOnly, NoFault, TypeOK, BuildType, BuildSteps, ProcType
  <2>2. CASE GenerateKeys
    BY <1>3, <2>2, OutdateType, BudgetType
    DEF GenerateKeys, BuildGoto, buildOnly, Masked, TypeOK, BuildType, BuildSteps
  <2>3. CASE PublishIpxe
    <3>1. PICK a \in {"db", "server", "ipxe"} :
            /\ BuildGoto(CASE a = "db" -> "server" [] a = "server" -> "ipxe" [] OTHER -> "config")
            /\ (NoFault /\ Publish(a) /\ UNCHANGED masked) \/ (Masked /\ UNCHANGED pvc)
      BY <2>3 DEF PublishIpxe
    <3>2. build' \in BuildType
      BY <3>1 DEF BuildGoto, TypeOK, BuildType, BuildSteps
    <3>3. pvc' \in [Artifacts -> ArtifactType]
      BY <3>1, PublishType DEF TypeOK, Artifacts, Signed
    <3> QED
      BY <2>3, <3>1, <3>2, <3>3, BudgetType DEF PublishIpxe, buildOnly, TypeOK, Masked
  <2>4. CASE GetCert
    BY <1>3, <2>4, EndBuildTypes, BudgetType
    DEF GetCert, buildOnly, NoFault, Masked, TypeOK, BuildType, BuildSteps
  <2>5. CASE PublishInitramfs
    BY <1>3, <2>5, EndBuildTypes, PublishType, BudgetType
    DEF PublishInitramfs, buildOnly, BuildGoto, NoFault, Masked, TypeOK, BuildType, BuildSteps,
        Artifacts, Signed
  <2>6. CASE PublishVmlinuz
    BY <1>3, <2>6, EndBuildTypes, PublishType, BudgetType
    DEF PublishVmlinuz, NoFault, TypeOK, Artifacts, Signed
  <2> QED
    BY <1>5, <2>1, <2>2, <2>3, <2>4, <2>5, <2>6 DEF BuildBinaries
<1>6. CASE CertificateChanged
  BY <1>2, <1>6, BudgetType DEF CertificateChanged
<1>7. ASSUME ConfigChanged, ~(Fault /\ Fatal) PROVE TypeOK'
  <2>1. proc' \in ProcType
    BY <1>0, <1>7, MoveType DEF ConfigChanged, MainSteps
  <2>2. events' \in [certs : BOOLEAN, conf : BOOLEAN]
    BY <1>7 DEF ConfigChanged, TypeOK
  <2> QED
    BY <1>7, <2>1, <2>2 DEF ConfigChanged, NoFault, TypeOK
<1>8. CASE ChangeCerts \/ ChangeConf
  <2>1. ASSUME NEW b \in BOOLEAN, events' = [events EXCEPT !.certs = b] \/ events' = [events EXCEPT !.conf = b]
        PROVE  events' \in [certs : BOOLEAN, conf : BOOLEAN]
    BY <2>1 DEF TypeOK
  <2>2. (events.certs \/ Watching) \in BOOLEAN /\ (events.conf \/ proc.at \in {"artifacts", "serving"}) \in BOOLEAN
    OBVIOUS
  <2>3. events' \in [certs : BOOLEAN, conf : BOOLEAN]
    BY <1>8, <2>1, <2>2 DEF ChangeCerts, ChangeConf
  <2>4. certs' \in Nat /\ conf' \in Nat
    BY <1>8 DEF ChangeCerts, ChangeConf, TypeOK
  <2> QED
    BY <1>8, <2>3, <2>4 DEF ChangeCerts, ChangeConf, TypeOK
<1>9. CASE Crash
  <2>1. budget' \in [faults : Nat, masked : Nat, crashes : Nat]
    BY <1>9 DEF Crash, TypeOK
  <2> QED
    BY <1>2, <1>9, <2>1 DEF Crash
<1> QED
  BY <1>1, <1>3, <1>4, <1>5, <1>6, <1>7, <1>8, <1>9 DEF Next

-----------------------------------------------------------------------------
(* What is embedded, and what the keys have signed.                        *)

\* Nothing is in the making after a restart, and nothing on the volume changes.
LEMMA FatalStep ==
  ASSUME IInv, Fatal
  PROVE  (ProcInv /\ EmbedInv /\ KeysInv /\ KeysMatch)'
BY DEF IInv, Fatal, Down, NoBuild, NoEvents, ProcInv, EmbedInv, AfterCerts, KeysInv, KeysMatch

LEMMA MainStep ==
  ASSUME IInv, Main, ~Fatal
  PROVE  (ProcInv /\ EmbedInv /\ KeysInv /\ KeysMatch)'
<1> USE DEF IInv, TypeOK
<1>1. CASE SetWatcher \/ ReadInConfig \/ UpdateConfig \/ WatchConfig
  <2>1. /\ proc.at # "serving" /\ proc'.at \notin {"down", "serving"}
        /\ proc'.vpro = proc.vpro /\ proc'.wg = proc.wg
        /\ UNCHANGED <<certs, conf, events, build, pvc, masked>>
    BY <1>1 DEF SetWatcher, ReadInConfig, UpdateConfig, WatchConfig, MainGoto, ProcType
  <2> QED
    BY <2>1 DEF ProcInv, EmbedInv, KeysInv, KeysMatch
<1>2. CASE GetArtifacts
  <2>1. /\ proc.at = "artifacts" /\ proc'.at = "serving" /\ proc'.vpro = proc.vpro
        /\ build'.at = "chain" /\ UNCHANGED <<certs, conf, events, pvc, masked>>
    BY <1>2 DEF GetArtifacts, NoBuild, ProcType
  <2>2. ProcInv'
    BY <2>1 DEF ProcInv
  <2>3. EmbedInv'
    BY <2>1 DEF ProcInv, EmbedInv, AfterCerts
  <2>4. KeysInv' /\ KeysMatch'
    BY <2>1 DEF KeysInv, AfterCerts, KeysMatch, Signed
  <2> QED
    BY <2>2, <2>3, <2>4
<1>3. CASE CurateVProInstaller
  <2>1. /\ proc.at = "artifacts" /\ proc'.at = "serving" /\ proc'.vpro = TRUE
        /\ build = build' /\ build.at = "none"
        /\ pvc'["installer"].cert = certs /\ \A a \in Signed : pvc'[a] = pvc[a]
        /\ UNCHANGED <<certs, events, masked>>
    <3>1. proc.at = "artifacts" /\ UNCHANGED <<certs, events, masked, build>>
      BY <1>3 DEF CurateVProInstaller
    <3>2. proc'.at = "serving" /\ proc'.vpro = TRUE
      BY <1>3 DEF CurateVProInstaller, ProcType
    <3>3. build.at = "none"
      BY <3>1 DEF ProcInv
    <3>4. pvc' = [pvc EXCEPT !["installer"] = [by |-> "none", cert |-> certs, conf |-> proc.conf]]
      BY <1>3 DEF CurateVProInstaller
    <3>5. pvc'["installer"].cert = certs /\ \A a \in Signed : pvc'[a] = pvc[a]
      BY <3>4 DEF Artifacts, Signed
    <3> QED
      BY <3>1, <3>2, <3>3, <3>5
  <2>2. ProcInv'
    BY <2>1 DEF ProcInv
  <2>3. EmbedInv'
    BY <2>1 DEF EmbedInv, AfterCerts
  <2>4. KeysInv' /\ KeysMatch'
    BY <2>1 DEF KeysInv, AfterCerts, KeysMatch, Signed
  <2> QED
    BY <2>2, <2>3, <2>4
<1> QED
  BY <1>1, <1>2, <1>3 DEF Main

\* The end of a build, with what the volume has then.
LEMMA EndBuildStep ==
  ASSUME IInv, EndBuild, build.at # "none", certs' = certs,
         ~masked' => masked' = masked /\ build.at = "vmlinuz" /\ Publish("vmlinuz"),
         masked' => UNCHANGED pvc \/ Publish("vmlinuz")
  PROVE  (ProcInv /\ EmbedInv /\ KeysInv /\ KeysMatch)'
<1> USE DEF IInv, TypeOK
<1>1. /\ ProcInv'
      /\ ~proc'.vpro /\ build'.at \in {"none", "done"}
      /\ build'.at = "done" => UNCHANGED events /\ build'.cert = build.cert
  BY DEF EndBuild, BuildGoto, Down, NoBuild, NoEvents, ProcType, BuildType, ProcInv
<1>2. CASE masked'
  BY <1>1, <1>2 DEF EmbedInv, KeysInv, KeysMatch
<1>3. CASE ~masked'
  <2>1. /\ ~masked /\ build.at = "vmlinuz" /\ pvc'["vmlinuz"].by = "this"
        /\ \A a \in Artifacts \ {"vmlinuz"} : pvc'[a] = pvc[a]
    BY <1>3 DEF Publish, Artifacts, Signed
  <2>2. KeysMatch' /\ KeysInv'
    BY <1>1, <2>1 DEF KeysMatch, KeysInv, AfterCerts, Artifacts, Signed
  <2>3. EmbedInv'
    BY <1>1, <2>1 DEF EmbedInv, AfterCerts, Artifacts, Signed
  <2> QED
    BY <1>1, <2>2, <2>3
<1> QED
  BY <1>2, <1>3

LEMMA BuildStep ==
  ASSUME IInv, BuildBinaries, ~Fatal
  PROVE  (ProcInv /\ EmbedInv /\ KeysInv /\ KeysMatch)'
<1> USE DEF IInv, TypeOK
<1>1. CASE CopyChain \/ ReplaceConfig
  BY <1>1 DEF CopyChain, ReplaceConfig, buildOnly, BuildType,
              ProcInv, EmbedInv, AfterCerts, KeysInv, KeysMatch, BuildSteps
<1>2. CASE GenerateKeys
  <2>1. ProcInv' /\ certs' = certs /\ build.at = "keys" /\ ~proc'.vpro
    BY <1>2 DEF GenerateKeys, BuildGoto, buildOnly, BuildType, ProcInv
  <2>2. \/ masked'
        \/ /\ build'.at = "db" /\ build'.cert = certs
           /\ \A a \in Artifacts : pvc'[a].by # "this"
    <3>1. ASSUME Outdate, NEW a \in Artifacts PROVE pvc'[a].by # "this"
      BY <3>1 DEF Outdate, ArtifactType
    <3> QED
      BY <1>2, <3>1 DEF GenerateKeys, Masked, BuildType
  <2> QED
    BY <2>1, <2>2 DEF EmbedInv, AfterCerts, KeysInv, KeysMatch, Artifacts, Signed
<1>3. CASE PublishIpxe
  <2>1. PICK a \in {"db", "server", "ipxe"} :
          /\ build.at = a
          /\ BuildGoto(CASE a = "db" -> "server" [] a = "server" -> "ipxe" [] OTHER -> "config")
          /\ (NoFault /\ Publish(a) /\ UNCHANGED masked) \/ (Masked /\ UNCHANGED pvc)
    BY <1>3 DEF PublishIpxe
  <2>2. /\ UNCHANGED <<certs, events, proc>> /\ build'.cert = build.cert
        /\ build'.at = CASE a = "db" -> "server" [] a = "server" -> "ipxe" [] OTHER -> "config"
    BY <1>3, <2>1 DEF PublishIpxe, buildOnly, BuildGoto, BuildType
  <2>3. ProcInv' /\ ~proc'.vpro
    BY <2>1, <2>2 DEF ProcInv
  <2>4. CASE masked'
    BY <2>2, <2>3, <2>4 DEF EmbedInv, KeysInv, KeysMatch
  <2>5. CASE ~masked'
    <3>1. /\ ~masked /\ pvc'[a].by = "this" /\ pvc'[a].cert = build.cert
          /\ \A x \in Artifacts \ {a} : pvc'[x] = pvc[x]
      BY <2>1, <2>5 DEF Masked, Publish, Artifacts, Signed
    <3>2. KeysInv' /\ KeysMatch'
      BY <2>1, <2>2, <3>1 DEF KeysInv, AfterCerts, KeysMatch, Artifacts, Signed, BuildSteps
    <3>3. ASSUME ~events.certs
          PROVE  /\ build'.cert = certs
                 /\ build'.at \in {"ipxe", "config"} => pvc'["server"].cert = certs
                 /\ build'.at = "config" => pvc'["ipxe"].cert = certs
      BY <2>1, <2>2, <3>1, <3>3 DEF EmbedInv, AfterCerts, Artifacts, Signed
    <3>4. EmbedInv'
      BY <2>1, <2>2, <2>3, <3>1, <3>3 DEF EmbedInv, AfterCerts
    <3> QED
      BY <2>3, <3>2, <3>4
  <2> QED
    BY <2>4, <2>5
<1>4. CASE GetCert
  <2>1. ASSUME Masked, EndBuild, UNCHANGED <<certs, conf, pvc>>, build.at = "certs"
        PROVE  (ProcInv /\ EmbedInv /\ KeysInv /\ KeysMatch)'
    BY <2>1, EndBuildStep DEF Masked
  <2>2. ASSUME build.at = "certs", build' = [build EXCEPT !.at = "initramfs", !.cert = certs],
               UNCHANGED <<buildOnly, pvc, masked>>
        PROVE  (ProcInv /\ EmbedInv /\ KeysInv /\ KeysMatch)'
    BY <2>2 DEF buildOnly, BuildType, ProcInv, EmbedInv, AfterCerts, KeysInv, KeysMatch, BuildSteps
  <2> QED
    BY <1>4, <2>1, <2>2 DEF GetCert
<1>5. CASE PublishInitramfs
  <2>1. ASSUME Masked, EndBuild, UNCHANGED <<certs, conf, pvc>>, build.at = "initramfs"
        PROVE  (ProcInv /\ EmbedInv /\ KeysInv /\ KeysMatch)'
    BY <2>1, EndBuildStep DEF Masked
  <2>2. ASSUME build.at = "initramfs", Publish("initramfs"), BuildGoto("vmlinuz"),
               UNCHANGED <<buildOnly, masked>>
        PROVE  (ProcInv /\ EmbedInv /\ KeysInv /\ KeysMatch)'
    <3>1. /\ UNCHANGED <<certs, events, proc, masked>>
          /\ build'.at = "vmlinuz" /\ build'.cert = build.cert
          /\ pvc'["initramfs"].by = "this" /\ pvc'["initramfs"].cert = build.cert
          /\ \A x \in Artifacts \ {"initramfs"} : pvc'[x] = pvc[x]
      BY <2>2 DEF buildOnly, BuildGoto, BuildType, Publish, Artifacts, Signed
    <3>2. ProcInv'
      BY <2>2, <3>1 DEF ProcInv
    <3>3. KeysInv' /\ KeysMatch'
      BY <2>2, <3>1 DEF KeysInv, AfterCerts, KeysMatch, Artifacts, Signed, BuildSteps
    <3>4. EmbedInv'
      BY <2>2, <3>1 DEF EmbedInv, AfterCerts, ProcInv, Artifacts, Signed
    <3> QED
      BY <3>2, <3>3, <3>4
  <2> QED
    BY <1>5, <2>1, <2>2 DEF PublishInitramfs
<1>6. CASE PublishVmlinuz
  BY <1>6, EndBuildStep DEF PublishVmlinuz
<1> QED
  BY <1>1, <1>2, <1>3, <1>4, <1>5, <1>6 DEF BuildBinaries

LEMMA FileStep ==
  ASSUME IInv, ChangeCerts \/ ChangeConf \/ ConfigChanged, ~Fatal
  PROVE  (ProcInv /\ EmbedInv /\ KeysInv /\ KeysMatch)'
<1> USE DEF IInv, TypeOK
<1>1. CASE ChangeCerts
  <2>1. /\ UNCHANGED <<proc, build, pvc, masked>>
        /\ Watching => events'.certs
        /\ ~Watching => events'.certs = events.certs
    BY <1>1 DEF ChangeCerts
  <2> QED
    BY <2>1 DEF Watching, ProcInv, EmbedInv, AfterCerts, KeysInv, KeysMatch
<1>2. CASE ChangeConf \/ ConfigChanged
  <2>1. /\ UNCHANGED <<certs, build, pvc, masked>> /\ events'.certs = events.certs
        /\ proc'.at = proc.at /\ proc'.vpro = proc.vpro /\ proc'.wg = proc.wg
    BY <1>2 DEF ChangeConf, ConfigChanged, ProcType
  <2> QED
    BY <2>1 DEF ProcInv, EmbedInv, KeysInv, KeysMatch
<1> QED
  BY <1>1, <1>2

\* The invariant holds in every reachable state.
THEOREM Inductive == Spec => []IInv
<1>1. Init => IInv
  <2> SUFFICES ASSUME Init PROVE IInv
    OBVIOUS
  <2>1. TypeOK
    BY DownType DEF Init, TypeOK, ArtifactType
  <2> QED
    BY <2>1 DEF Init, IInv, Down, NoBuild, NoEvents, ProcInv, EmbedInv, AfterCerts, KeysInv,
                KeysMatch, Artifacts, Signed
<1>2. IInv /\ [Next]_vars => IInv'
  <2> SUFFICES ASSUME IInv, [Next]_vars PROVE IInv'
    OBVIOUS
  <2>1. TypeOK'
    BY TypeOKStep DEF IInv
  <2>2. (ProcInv /\ EmbedInv /\ KeysInv /\ KeysMatch)'
    <3>1. CASE Fatal
      BY <3>1, FatalStep
    <3>2. ASSUME ~Fatal, Next PROVE (ProcInv /\ EmbedInv /\ KeysInv /\ KeysMatch)'
      BY <3>2, MainStep, BuildStep, FileStep DEF Next, CertificateChanged, Crash
    <3>3. CASE UNCHANGED vars
      BY <3>3 DEF vars, IInv, ProcInv, EmbedInv, KeysInv, KeysMatch
    <3> QED
      BY <3>1, <3>2, <3>3
  <2> QED
    BY <2>1, <2>2 DEF IInv
<1> QED
  BY <1>1, <1>2, PTL DEF Spec

-----------------------------------------------------------------------------
(* The results.                                                            *)

\* Every state of main, of a build and of the volume is one that the code can be
\* in; in particular the WaitGroup (main.go) never counts more than the one
\* build or installer that was started.
THEOREM TypesHold == Spec => []TypeOK
<1>1. IInv => TypeOK
  BY DEF IInv
<1> QED
  BY Inductive, <1>1, PTL

\* However often certificates change, steps fail and the process restarts: when
\* a build or the installer has ended without a command that failed unnoticed
\* and no certificate event waits, all that was made embeds the certificates of
\* now, although the scripts read them twice and main started the watcher first.
THEOREM FinishedIsCurrent == Spec => []BuiltIsCurrent
<1>1. IInv => BuiltIsCurrent
  BY DEF IInv, TypeOK, ProcInv, EmbedInv, AfterCerts, BuiltIsCurrent, Finished, Current,
         Embedding, Signed
<1> QED
  BY Inductive, <1>1, PTL

\* A volume with a kernel signed by the latest keys never has an older iPXE,
\* certificate or initramfs beside it, whatever restart fell into a later
\* build: the scripts publish the kernel last and replace the keys first.
THEOREM KeysAlwaysMatch == Spec => []KeysMatch
<1>1. IInv => KeysMatch
  BY DEF IInv
<1> QED
  BY Inductive, <1>1, PTL

=============================================================================
