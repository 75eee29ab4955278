---------------------------- MODULE MCVoiceRooms ----------------------------
(***************************************************************************)
(* VoiceRooms for TLC.  Channels, slots and timers are interchangeable, and *)
(* so are patient users no room denies.                                    *)
(***************************************************************************)
EXTENDS VoiceRooms, TLC

Symmetry ==
    Permutations(Patient \ Outcasts) \cup Permutations(Channels)
        \cup Permutations(Slots) \cup Permutations(Timers)
=============================================================================
