--------------------------- MODULE DriveDetection ---------------------------
(***************************************************************************)
(* How the actions of a workflow find the disk of the operating system     *)
(* (tinker-actions/pkg/drive_detection): every action lists the drives and *)
(* sorts them anew, none is told what an earlier one has chosen.           *)
(***************************************************************************)
EXTENDS Naturals

\* DriveDetection's error.
NoDrive == 0

\* What lsblk says of a drive.  rank is getDiskType and driveTypeRanking in one:
\* 0 for sd, 1 for nvme, 2 for others; name numbers the names by their order.
DriveInfo == [rank : 0..2, size : Nat, type : {"disk", "rom"}, rm : BOOLEAN, name : Nat \ {0}]

\* The removable drives stay in the list.
filterDrivesMutant(drives) == {a \in drives : a.size # 0 /\ a.type = "disk"}

filterDrives(drives) == {a \in drives : a.size # 0 /\ a.type = "disk" /\ ~a.rm}

Less(a, b) ==
  IF a.rank # b.rank THEN a.rank < b.rank
  ELSE IF a.size # b.size THEN a.size < b.size
  ELSE a.name < b.name

IsFirst(a, S) == a \in S /\ \A b \in S : b # a => Less(a, b)

\* The name of the first drive in the order of sort.Sort, NoDrive for the error.
DriveDetect(drives) ==
  LET S == filterDrives(drives) IN
  IF S = {} THEN NoDrive ELSE (CHOOSE a \in S : IsFirst(a, S)).name

=============================================================================
