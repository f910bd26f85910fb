-------------------------- MODULE MCStateRecovery --------------------------
(* Instances of StateRecovery for TLC.                                     *)
EXTENDS StateRecovery

CONSTANTS d0, a, b
TwoScreens == {d0, a}
ThreeScreens == {d0, a, b}
=============================================================================
