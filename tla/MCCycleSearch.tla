---------------------------- MODULE MCCycleSearch ----------------------------
(* Instances of CycleSearch for TLC. *)
EXTENDS CycleSearch

MCThree == 1 .. 3
MCFrames == {2, 4}
==============================================================================
