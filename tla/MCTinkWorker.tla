---------------------------- MODULE MCTinkWorker ----------------------------
(* A workflow of three or four actions, and enough containers for all of   *)
(* them that a fault or a crash leaves behind.                             *)
EXTENDS TinkWorker

MCBoxes == 1..8
MCMine == {1, 2, 4}
MCAll == 1..N
MCLast == {N}
MCFirst == {1}
MCNone == {}

=============================================================================
