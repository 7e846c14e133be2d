----------------------------- MODULE MCPlanner -----------------------------
(***************************************************************************)
(* Constants of the TLC configurations of the planner.                     *)
(***************************************************************************)
EXTENDS SimOdom

TwoIds == {1, 2}
GroundAndHover == {"ground", "hover"}
=============================================================================
