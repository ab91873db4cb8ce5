----------------------------- MODULE MCRouting -----------------------------
(***************************************************************************)
(* Two workers, requests on the first only: an edit made through the       *)
(* second leaves the first's cache to expire.  opus and fable speak this   *)
(* route's protocol, mini another; fable needs a grant and is global.      *)
(***************************************************************************)
EXTENDS Routing

CONSTANTS w1, w2, r1, opus, mini, fable

MCAt == [r \in Requests |-> w1]
MCScopeOf == (opus :> "us") @@ (mini :> "us") @@ (fable :> "global")

Doc(allowlist, chain, quotas, fallback, scopes) ==
  [allowlist |-> allowlist, chain |-> chain, quotas |-> quotas,
   fallback |-> fallback, scopes |-> scopes]
Override(preferred, chain, fallback, scopes) ==
  [preferred |-> preferred, chain |-> chain, fallback |-> fallback,
   scopes |-> scopes]

MCPolicies ==
  { Doc({}, <<opus, mini, fable>>, {opus}, TRUE, None),
    Doc({opus}, <<opus>>, {}, FALSE, {"us"}) }

MCOverrides ==
  { Override(opus, <<opus>>, FALSE, {"us"}),
    Override(None, <<fable>>, None, None) }

MCAsked == {<<opus, "alias">>, <<fable, "id">>}
MCPins == {<<mini, "alias">>, <<opus, "id">>}
=============================================================================
