---------------------------- MODULE MCCoordinator ----------------------------
(* Instances of Coordinator for TLC. *)
EXTENDS Coordinator

ThreeStarts == 1 .. 3
TwoCalls == 1 .. 2
=============================================================================
