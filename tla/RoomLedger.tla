------------------------------ MODULE RoomLedger ------------------------------
(***************************************************************************)
(* What the voice rooms promise about each channel id: it becomes a room   *)
(* at most once, has one owner at a time while it is a room, may change    *)
(* hands, and once retired is never a room again.                          *)
(***************************************************************************)
CONSTANTS Channels, Users, NoUser

VARIABLES phase,   \* "unborn", "live" or "gone"
          owner

Init ==
    /\ phase = [c \in Channels |-> "unborn"]
    /\ owner = [c \in Channels |-> NoUser]

Found(c, u) ==
    /\ phase[c] = "unborn"
    /\ phase' = [phase EXCEPT ![c] = "live"]
    /\ owner' = [owner EXCEPT ![c] = u]

\* The owner of a room changes; whether the old owner was away is the
\* business of the detailed specification.
HandOver(c, u) ==
    /\ phase[c] = "live"
    /\ owner' = [owner EXCEPT ![c] = u]
    /\ UNCHANGED phase

Retire(c) ==
    /\ phase[c] = "live"
    /\ phase' = [phase EXCEPT ![c] = "gone"]
    /\ owner' = [owner EXCEPT ![c] = NoUser]

\* Channels whose creation failed or was cut short by a restart.
Discard(cs) ==
    /\ \A c \in cs : phase[c] = "unborn"
    /\ phase' = [c \in Channels |-> IF c \in cs THEN "gone" ELSE phase[c]]
    /\ UNCHANGED owner

Next ==
    \/ \E c \in Channels, u \in Users : Found(c, u) \/ HandOver(c, u)
    \/ \E c \in Channels : Retire(c)
    \/ \E cs \in SUBSET Channels : Discard(cs)

Spec == Init /\ [][Next]_<<phase, owner>>
=============================================================================
