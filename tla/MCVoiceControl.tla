--------------------------- MODULE MCVoiceControl ---------------------------
(***************************************************************************)
(* VoiceControl for TLC.  The users who neither found the room nor manage  *)
(* it are interchangeable, and so are the processes.                       *)
(***************************************************************************)
EXTENDS VoiceControl, TLC

Symmetry == Permutations(Users \ (Managers \cup {Founder})) \cup Permutations(Procs)
=============================================================================
