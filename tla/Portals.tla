------------------------------- MODULE Portals -------------------------------
(***************************************************************************)
(* The tenants' portal and the platform's console in one core-api: the two *)
(* keep their users, their tokens and their second factors apart.          *)
(***************************************************************************)
EXTENDS TenantSessions, PlatformSessions

\* Either portal goes on while the other does not.
PortalsSpec == Spec /\ PlatformSpec

\* Both portals: a second factor that is on has its secret (routers/tenant_mfa.py, mfa.py).
SecondFactorUsable == TotpUsable /\ SecretIsThere
=============================================================================
