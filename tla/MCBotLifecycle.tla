--------------------------- MODULE MCBotLifecycle ---------------------------
\* Instances of BotLifecycle for TLC.
EXTENDS BotLifecycle, TLC

CONSTANTS c1, c2

MCCallers == {c1, c2}
\* one caller runs every kind of statement, the other one those an answer could be mistaken with
MCStatements == c1 :> Kinds @@ c2 :> {"insert", "other"}
\* one module that only forgets its cog besides those that do more
MCModules == <<"voice", "ai_moderation", "labeling">>
MCNames == <<"play", "help">>
MCRegistered == "play" :> "old" @@ "help" :> "none"
MCLegacy == "g1" :> <<"other", "play", "help">>
=============================================================================
