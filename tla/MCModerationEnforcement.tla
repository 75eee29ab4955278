----------------------- MODULE MCModerationEnforcement ------------------------
(***************************************************************************)
(* ModerationEnforcement for TLC.                                          *)
(***************************************************************************)
EXTENDS ModerationEnforcement

SameDuration == [m \in Messages |-> 1]
=============================================================================
