---------------------------- MODULE MCGuildEvents ----------------------------
\* Instances of GuildEvents for TLC.
EXTENDS GuildEvents, TLC

CONSTANTS m1, m2

MCMessages == {m1, m2}
MCPurposes == {"MESSAGE_LOG", "MOD_LOG"}

\* The fourth event only follows messages and their deletion, whose handlers share nothing with
\* those of other events; a call fails while there are two, and nothing is counted after a purge of
\* one message.
Happened == Len(written) + Len(events)
Bound ==
    /\ Happened > 3 =>
         /\ \A e \in DOMAIN events : events[e].kind = "delete"
         /\ \A c \in DOMAIN counting : counting[c].at = 1
         /\ clock = 0
    /\ Happened > 2 => failed = 0
    /\ (\E m \in Messages : there[m] = "purge") =>
         failed = 0 /\ clock = 0 /\ \A c \in DOMAIN counting : counting[c].at = 1
Symmetry == Permutations(MCMessages)
=============================================================================
