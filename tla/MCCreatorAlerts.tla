-------------------------- MODULE MCCreatorAlerts --------------------------
\* Instances of CreatorAlerts for TLC: one platform, with its credentials or without, one stream.
EXTENDS CreatorAlerts, TLC

CONSTANTS twitch, t, u1

MCUsers == {u1}
MCStreams == {t}
MCPlatforms == {twitch}
MCPlatform == t :> twitch
MCKinds == {"stream"}
=============================================================================
