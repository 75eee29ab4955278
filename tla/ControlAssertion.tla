-------------------------- MODULE ControlAssertion --------------------------
(***************************************************************************)
(* What the Control API of the Activity server accepts from the Console:    *)
(* verify_control_assertion and the four endpoints of routers/control.py.    *)
(* Nothing is kept: an assertion may be presented as often as its times      *)
(* allow.  Times are seconds.  Identifiers are values; that a signature is    *)
(* right, and that ids have their form, is a field of the assertion.         *)
(***************************************************************************)
EXTENDS Integers

CONSTANTS Identifiers, None

Skew == 15      \* iat may be ahead of the clock
Lifetime == 120 \* exp may be after iat

Assertion == [signed : BOOLEAN, exp : Int, iat : Int,
              iss : Identifiers, aud : Identifiers, resource : Identifiers, action : Identifiers,
              organization : Identifiers, platform_subject : Identifiers \cup {None},
              platform_resource_id : Identifiers \cup {None}]

\* The endpoints, what each expects of an assertion and what it requires besides.
Endpoints == {"verify", "modules", "health", "dashboard"}
ExpectedResource(e) == IF e = "verify" THEN "console.platform_connections" ELSE "console.control_modules"
ExpectedAction(e) == IF e = "verify" THEN "manage" ELSE "read"

\* verify_control_assertion
Verified(a, e, now) ==
    /\ a.signed
    /\ a.exp > now /\ a.iat <= now + Skew /\ a.exp - a.iat <= Lifetime
    /\ a.iss = "muxivo-console" /\ a.aud = "muxivo-discord-control"
    /\ a.resource = ExpectedResource(e) /\ a.action = ExpectedAction(e)
    /\ e = "verify" => a.platform_subject # None
    /\ e = "dashboard" => a.platform_resource_id # None

\* _verify_request_assertion, _require_assertion_organization, and of the dashboard its own check
Allowed(a, e, organization, guild, now) ==
    /\ Verified(a, e, now)
    /\ a.organization = organization
    /\ e = "dashboard" => a.platform_resource_id = guild
=============================================================================
