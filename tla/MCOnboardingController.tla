------------------------ MODULE MCOnboardingController ------------------------
(* Instances of OnboardingController for TLC. *)
EXTENDS OnboardingController

CONSTANTS h1, i1

MCOneHost == {h1}
MCEitherMode == BOOLEAN
MCInstances == {i1}
MCOwner == [i \in {i1} |-> h1]

=============================================================================
