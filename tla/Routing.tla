------------------------------- MODULE Routing -------------------------------
(***************************************************************************)
(* Which model a request may reach.  A tenant's routing document, a user's *)
(* override of it and the tenant's entitlement grants are rows of one      *)
(* table; every worker caches the two documents for CacheTTL, serves what  *)
(* it last read for StaleRetry when the table cannot be read, and refuses  *)
(* a request whose documents it has never read.  A request turns the       *)
(* documents into a list of candidates (a pin, the tenant's chain, the     *)
(* user's chain, or just the model named) and tries them in order: each is *)
(* checked against policy, grants and scopes before it is reserved, and    *)
(* only an exhausted per-model quota moves on to the next.                 *)
(* Sources: routing/config.py, routing/model_resolver.py, routing/saar.py, *)
(* eligibility.py, admin_routing.py, admin_entitlements.py and the         *)
(* routing half of _pipeline.py (reserve_credit_for_model).                *)
(***************************************************************************)
EXTENDS Naturals, Sequences, SequencesExt

CONSTANTS
  Workers,       \* gateway processes, each with caches of its own
  Requests,      \* request slots, used again and again
  At,            \* [Requests -> Workers]: the process that serves a slot
  Models,        \* entries of the model registry
  Speaks,        \* those that can be served on this route's wire protocol
  Gated,         \* those with access = "entitlement_required"
  ScopeOf,       \* [Models -> profile scope]
  Bounded,       \* the scopes bound to one jurisdiction
  Policies,      \* the tenant documents an operator may put
  Overrides,     \* the user documents an operator may put
  Asked,         \* names a client may request
  Pins,          \* names a client (or the external advisor) may pin
  None,          \* an absent row, field or value
  Unknown,       \* a key this worker has never read
  CacheTTL,      \* _CACHE_TTL_S, in ticks
  StaleRetry,    \* _STALE_RETRY_S, in ticks
  Warm,          \* models some session's memory names
  MaxEdits,      \* bound: documents put
  MaxOutages,    \* bound: times the table becomes unreadable
  MaxChanges     \* bound: entitlements granted or revoked

ASSUME SpeaksAssumption == Speaks \subseteq Models /\ Gated \subseteq Models
ASSUME TimesAssumption ==
  /\ CacheTTL \in Nat \ {0} /\ StaleRetry \in Nat \ {0}

VARIABLES
  stored,    \* the two documents as last written
  behind,    \* ... and as a replica that lags still answers
  grants,    \* models the tenant holds an entitlement row for
  index,     \* ... and as the tenant-id-index still answers
  down,      \* reads of the table fail
  cache,     \* per worker and key: the document and the ticks it has left
  known,     \* per worker and key: _last_known_good
  req,       \* the request in each slot
  edit,      \* a user override validated and not yet put, or None
  age,       \* ticks since a read could last return each document
  sinceUp,   \* ticks since a read last failed
  edits, outages, changes

vars == <<stored, behind, grants, index, down, cache, known, req, edit, age,
          sinceUp, edits, outages, changes>>
tableVars == <<stored, behind, grants, index, down, edit, age, sinceUp,
               edits, outages, changes>>

Keys == {"tenant", "user"}
RoutingConfig == [allowlist |-> {}, chain |-> <<>>, quotas |-> {},
                  fallback |-> FALSE, scopes |-> None]
UserRoutingConfig == [preferred |-> None, chain |-> <<>>, fallback |-> None,
                      scopes |-> None]

Documents == [tenant |-> Policies \cup {RoutingConfig, None},
              user |-> Overrides \cup {None}]

\* The ages that matter: past Old a document is only "once stored".
Old == CacheTTL
Never == Old + 1
RecoveryCap == StaleRetry

\* A model is spelled by its primary alias or by its Bedrock id; the two name
\* the same registry entry (canonical_model_id).
Alias(m) == <<m, "alias">>
BedrockId(m) == <<m, "id">>
ModelOf(name) == name[1]
AliasesOf(chain) == [i \in 1..Len(chain) |-> Alias(chain[i])]

-----------------------------------------------------------------------------
(* The documents.                                                          *)

tenant_cfg(d) == IF d = None THEN RoutingConfig ELSE d
user_cfg(d) == IF d = None THEN UserRoutingConfig ELSE d

ValidScopes(scopes) ==
  scopes # None =>
    scopes # {} /\ scopes \cap Bounded \in {scopes, {}}

validate_tenant_routing(t) ==
  /\ IsInjective(t.chain)
  /\ t.allowlist # {} => ToSet(t.chain) \subseteq t.allowlist
  /\ ValidScopes(t.scopes)

\* The user's chain keeps the order of the tenant's, its scopes only narrow.
validate_user_routing(u, t) ==
  /\ u.preferred # None /\ t.allowlist # {} => u.preferred \in t.allowlist
  /\ IsInjective(u.chain)
  /\ u.chain = SelectSeq(t.chain, LAMBDA m : m \in ToSet(u.chain))
  /\ ValidScopes(u.scopes)
  /\ u.scopes # None /\ t.scopes # None => u.scopes \subseteq t.scopes

effective_profile_scopes(t, u) ==
  CASE t.scopes = None -> u.scopes
    [] t.scopes # None /\ u.scopes = None -> t.scopes
    [] OTHER -> t.scopes \cap u.scopes

-----------------------------------------------------------------------------
(* Eligibility and the candidate list.                                     *)

PolicySet(t) == IF t.allowlist # {} THEN t.allowlist ELSE ToSet(t.chain)

ModelAxisAllows(m, t, u) ==
  /\ PolicySet(t) # {} => m \in PolicySet(t)
  /\ u.chain # <<>> => m \in ToSet(u.chain)

ScopeAllows(m, t, u) ==
  LET scopes == effective_profile_scopes(t, u)
  IN  scopes # None => ScopeOf[m] \in scopes

\* refusal_for: granted is what the entitlement query answered.
Eligible(m, t, u, granted) ==
  /\ ModelAxisAllows(m, t, u)
  /\ m \in Gated => m \in granted
  /\ ScopeAllows(m, t, u)

\* The chain from the model the user prefers, or else the one requested.
ResolveChain(name, t, u) ==
  LET base == IF u.chain # <<>> THEN u.chain ELSE t.chain
      want == IF u.preferred # None THEN u.preferred ELSE ModelOf(name)
      from == {i \in 1..Len(base) : base[i] = want}
  IN  IF base = <<>> THEN <<name>>
      ELSE AliasesOf(IF from = {} THEN base
                     ELSE SubSeq(base, CHOOSE i \in from : TRUE, Len(base)))

FallbackAllowed(t, u) == IF u.fallback # None THEN u.fallback ELSE t.fallback

\* Allowlist, then the fallback switch, then what this route can serve.
Candidates(name, t, u) ==
  LET allowed == SelectSeq(ResolveChain(name, t, u),
                   LAMBDA c : t.allowlist # {} => ModelOf(c) \in t.allowlist)
      tried   == IF FallbackAllowed(t, u) \/ allowed = <<>>
                 THEN allowed ELSE <<Head(allowed)>>
  IN  SelectSeq(tried, LAMBDA c : c = name \/ ModelOf(c) \in Speaks)

\* The session's warm model heads the list when the list spells it so.
Preferring(candidates, prefer) ==
  IF prefer \in ToSet(candidates)
  THEN <<prefer>> \o SelectSeq(candidates, LAMBDA c : c # prefer)
  ELSE candidates

\* What the session's memory asks for: a lock on the model that holds the
\* provider's state or waits for a tool's result, a preference, or nothing.
\* idle is 0 when fresh, 1 past the idle reset, 2 past the hard cap as well.
decide(phase, model, idle, echoes, toolResult) ==
  LET continues == phase = "provider-state" /\ echoes /\ idle < 2
      answers   == phase = "tool-loop" /\ toolResult /\ idle = 0
  IN  CASE model = None -> [hard |-> None, prefer |-> None]
        [] model # None /\ (continues \/ answers) ->
             [hard |-> BedrockId(model), prefer |-> None]
        [] OTHER -> [hard |-> None,
                     prefer |-> IF idle = 0 THEN BedrockId(model) ELSE None]

\* Every opinion some session's memory holds; a read that fails has none.
SessionOpinions ==
  {decide(phase, model, idle, echoes, toolResult) :
     phase \in {"normal", "tool-loop", "provider-state"},
     model \in Warm \cup {None}, idle \in 0..2,
     echoes \in BOOLEAN, toolResult \in BOOLEAN}

-----------------------------------------------------------------------------
(* State.                                                                  *)

NoEntry == [doc |-> None, left |-> 0]
Idle == [stage |-> "idle", name |-> None, pinned |-> FALSE, prefer |-> None,
         got |-> Unknown, t |-> None, u |-> None, left |-> <<>>, model |-> None]

InFlight == {"tenant", "user", "route", "walk"}

\* An age per document: 0 while a read can return it.
Aged(k) == [d \in Documents[k] |-> IF d = None THEN 0 ELSE Never]

Init ==
  /\ stored = [k \in Keys |-> None] /\ behind = stored
  /\ grants = {} /\ index = {} /\ down = FALSE
  /\ cache = [w \in Workers |-> [k \in Keys |-> NoEntry]]
  /\ known = [w \in Workers |-> [k \in Keys |-> Unknown]]
  /\ req = [r \in Requests |-> Idle]
  /\ edit = None
  /\ age = [k \in Keys |-> Aged(k)]
  /\ sinceUp = RecoveryCap
  /\ edits = 0 /\ outages = 0 /\ changes = 0

-----------------------------------------------------------------------------
(* The administrator's handlers, on any worker.                            *)

\* Put one document: the row, and this process's own cache entry dropped.
Write(w, k, d) ==
  /\ stored' = [stored EXCEPT ![k] = d]
  /\ age' = [age EXCEPT ![k] = [e \in Documents[k] |->
                IF e = d THEN 0 ELSE @[e]]]
  /\ cache' = [cache EXCEPT ![w][k] = NoEntry]
  /\ UNCHANGED <<behind, grants, index, down, known, req, sinceUp, outages,
                 changes>>

Edit == edits < MaxEdits /\ edits' = edits + 1

put_tenant_routing(w, t) ==
  /\ Edit
  /\ validate_tenant_routing(t)
  /\ Write(w, "tenant", t)
  /\ UNCHANGED edit

\* A new tenant's shadow flag: sets one attribute, keeps the others, and
\* leaves an empty document where there was none.
provision_shadow_default_config(w) ==
  /\ Edit
  /\ stored["tenant"] = None
  /\ Write(w, "tenant", RoutingConfig)
  /\ UNCHANGED edit

\* A user's override is checked against the tenant's document as stored ...
CheckUserRouting(u) ==
  /\ edit = None /\ Edit
  /\ validate_user_routing(u, tenant_cfg(stored["tenant"]))
  /\ edit' = u
  /\ UNCHANGED <<stored, behind, grants, index, down, cache, known, req, age,
                 sinceUp, outages, changes>>

\* ... and put later, whatever the tenant's document has become.
put_user_routing(w) ==
  /\ edit # None
  /\ Write(w, "user", edit)
  /\ edit' = None
  /\ UNCHANGED edits

\* A grant is for a registry entry that needs one; one the discovery pass or
\* the price floor refuses leaves no trace, and granting twice changes nothing.
validate_grant_target(m) == m \in Gated

grant_entitlement(m) ==
  /\ validate_grant_target(m)
  /\ m \notin grants /\ changes < MaxChanges
  /\ grants' = grants \cup {m}
  /\ changes' = changes + 1
  /\ UNCHANGED <<stored, behind, index, down, cache, known, req, edit, age,
                 sinceUp, edits, outages>>

revoke_entitlement(m) ==
  /\ m \in grants /\ changes < MaxChanges
  /\ grants' = grants \ {m}
  /\ changes' = changes + 1
  /\ UNCHANGED <<stored, behind, index, down, cache, known, req, edit, age,
                 sinceUp, edits, outages>>

-----------------------------------------------------------------------------
(* The request.                                                            *)

\* Where a request goes once it holds the document under key k.
WithDocument(q, k, d) ==
  IF k = "tenant" THEN [q EXCEPT !.stage = "user", !.t = d, !.got = Unknown]
  ELSE [q EXCEPT !.stage = "route", !.u = d, !.got = Unknown]

Become(r, q) ==
  /\ req' = [req EXCEPT ![r] = q]
  /\ UNCHANGED tableVars

\* The client's pin wins, then the session's lock, then its preference.
Start(r) ==
  /\ req[r].stage = "idle"
  /\ \/ \E pin \in Pins :
          Become(r, [Idle EXCEPT !.stage = "tenant", !.name = pin,
                                 !.pinned = TRUE])
     \/ \E name \in Asked, s \in SessionOpinions :
          Become(r, [Idle EXCEPT !.stage = "tenant",
                       !.name = IF s.hard # None THEN s.hard ELSE name,
                       !.pinned = (s.hard # None),
                       !.prefer = s.prefer])
  /\ UNCHANGED <<cache, known>>

\* get_tenant_routing_config, get_user_routing_config: the cache first ...
get_cached(w, k) == cache[w][k].left > 0

Misses(r, k) ==
  req[r].stage = k /\ req[r].got = Unknown /\ ~get_cached(At[r], k)

ReadCache(r, k) ==
  /\ req[r].stage = k /\ req[r].got = Unknown
  /\ get_cached(At[r], k)
  /\ Become(r, WithDocument(req[r], k, cache[At[r]][k].doc))
  /\ UNCHANGED <<cache, known>>

\* ... then an eventually consistent read ...
ReadTable(r, k) ==
  /\ Misses(r, k) /\ ~down
  /\ \E d \in {stored[k], behind[k]} : Become(r, [req[r] EXCEPT !.got = d])
  /\ UNCHANGED <<cache, known>>

\* ... whose answer is kept when the call comes back, other threads having
\* run in between ...
set_cached(w, k, d) ==
  /\ cache' = [cache EXCEPT ![w][k] = [doc |-> d, left |-> CacheTTL]]
  /\ known' = [known EXCEPT ![w][k] = d]

Keep(r, k) ==
  /\ req[r].stage = k /\ req[r].got # Unknown
  /\ set_cached(At[r], k, req[r].got)
  /\ Become(r, WithDocument(req[r], k, req[r].got))

\* ... and, when the read fails, what this worker last read, for a moment,
\* or a refusal when it has read nothing.
\* The same when the old answer is kept like a fresh one, for a whole CacheTTL.
serve_stale_or_raiseM(w, k) == set_cached(w, k, known[w][k])

serve_stale_or_raise(w, k) ==
  /\ cache' = [cache EXCEPT ![w][k] = [doc |-> known[w][k], left |-> StaleRetry]]
  /\ UNCHANGED known

ServeStale(r, k) ==
  /\ Misses(r, k) /\ down
  /\ known[At[r]][k] # Unknown
  /\ serve_stale_or_raise(At[r], k)
  /\ Become(r, WithDocument(req[r], k, known[At[r]][k]))

Refuse(r) == Become(r, Idle) /\ UNCHANGED <<cache, known>>

Unavailable(r, k) ==
  /\ Misses(r, k) /\ down
  /\ known[At[r]][k] = Unknown
  /\ Refuse(r)

Reading(r) ==
  \E k \in Keys : \/ ReadCache(r, k) \/ ReadTable(r, k) \/ Keep(r, k)
                  \/ ServeStale(r, k) \/ Unavailable(r, k)

T(r) == tenant_cfg(req[r].t)
U(r) == user_cfg(req[r].u)

\* refusal_for over the entitlements the index answers at this moment.
MayReach(r, name) == Eligible(ModelOf(name), T(r), U(r), index)

Serve(r, name) ==
  /\ Become(r, [Idle EXCEPT !.stage = "served", !.model = name])
  /\ UNCHANGED <<cache, known>>

\* A tenant with no chain, allowlist or quota reserves the model it names.
Passthrough(r) ==
  ~req[r].pinned /\ T(r).chain = <<>> /\ T(r).allowlist = {} /\ T(r).quotas = {}

Direct(r) ==
  /\ req[r].stage = "route" /\ Passthrough(r)
  /\ MayReach(r, req[r].name)
  /\ Serve(r, req[r].name)

validate_model_pin(r) ==
  LET m == ModelOf(req[r].name) IN
  /\ m \in Speaks
  /\ PolicySet(T(r)) # {} => m \in PolicySet(T(r))
  /\ MayReach(r, req[r].name)

\* The list this request will try: its pin alone, or its candidates.
Choice(r) ==
  IF req[r].pinned THEN <<req[r].name>>
  ELSE Preferring(Candidates(req[r].name, T(r), U(r)), req[r].prefer)

Route(r) ==
  /\ req[r].stage = "route" /\ ~Passthrough(r)
  /\ req[r].pinned => validate_model_pin(r)
  /\ Choice(r) # <<>>
  /\ Become(r, [Idle EXCEPT !.stage = "walk", !.t = req[r].t, !.u = req[r].u,
                                !.left = Choice(r)])
  /\ UNCHANGED <<cache, known>>

RefuseRoute(r) ==
  /\ req[r].stage = "route"
  /\ \/ Passthrough(r) /\ ~MayReach(r, req[r].name)
     \/ req[r].pinned /\ ~validate_model_pin(r)
     \/ ~req[r].pinned /\ ~Passthrough(r) /\ Choice(r) = <<>>
  /\ Refuse(r)

\* _reserve_over_candidates: the head is checked, then reserved; only an
\* exhausted quota of its own moves on to the next.
\* The same when the list is trusted: whatever made it has checked its models.
ReserveM(r) ==
  /\ req[r].stage = "walk"
  /\ Serve(r, Head(req[r].left))

Reserve(r) ==
  /\ req[r].stage = "walk"
  /\ MayReach(r, Head(req[r].left))
  /\ Serve(r, Head(req[r].left))

QuotaExhausted(r) ==
  /\ req[r].stage = "walk"
  /\ MayReach(r, Head(req[r].left))
  /\ ModelOf(Head(req[r].left)) \in T(r).quotas
  /\ Become(r, IF Len(req[r].left) = 1 THEN Idle
               ELSE [req[r] EXCEPT !.left = Tail(@)])
  /\ UNCHANGED <<cache, known>>

RefuseCandidate(r) ==
  /\ req[r].stage = "walk"
  /\ ~MayReach(r, Head(req[r].left))
  /\ Refuse(r)

End(r) ==
  /\ req[r].stage = "served"
  /\ Refuse(r)

RequestStep(r) ==
  \/ Reading(r) \/ Direct(r) \/ Route(r) \/ RefuseRoute(r)
  \/ Reserve(r) \/ QuotaExhausted(r) \/ RefuseCandidate(r) \/ End(r)

-----------------------------------------------------------------------------
(* Time, the table and its replicas.                                       *)

CatchUp(k) ==
  /\ behind[k] # stored[k]
  /\ behind' = [behind EXCEPT ![k] = stored[k]]
  /\ UNCHANGED <<stored, grants, index, down, cache, known, req, edit, age,
                 sinceUp, edits, outages, changes>>

IndexCatchesUp ==
  /\ index # grants
  /\ index' = grants
  /\ UNCHANGED <<stored, behind, grants, down, cache, known, req, edit, age,
                 sinceUp, edits, outages, changes>>

Outage ==
  /\ ~down /\ outages < MaxOutages
  /\ down' = TRUE /\ sinceUp' = 0 /\ outages' = outages + 1
  /\ UNCHANGED <<stored, behind, grants, index, cache, known, req, edit, age,
                 edits, changes>>

Recover ==
  /\ down
  /\ down' = FALSE
  /\ UNCHANGED <<stored, behind, grants, index, cache, known, req, edit, age,
                 sinceUp, edits, outages, changes>>

Older(k, d) ==
  CASE d = stored[k] -> 0
    [] age[k][d] >= Old -> age[k][d]
    [] OTHER -> age[k][d] + 1

\* A tick is long (half a minute to CacheTTL's minute): within one, requests
\* and edits in flight end and replicas converge, in every order.
Tick ==
  /\ \A r \in Requests : req[r].stage = "idle"
  /\ behind = stored /\ index = grants /\ edit = None
  /\ cache' = [w \in Workers |-> [k \in Keys |->
                 IF cache[w][k].left <= 1 THEN NoEntry
                 ELSE [cache[w][k] EXCEPT !.left = @ - 1]]]
  /\ age' = [k \in Keys |-> [d \in Documents[k] |-> Older(k, d)]]
  /\ sinceUp' = IF down THEN 0
                ELSE IF sinceUp = RecoveryCap THEN sinceUp ELSE sinceUp + 1
  /\ UNCHANGED <<stored, behind, grants, index, down, known, req, edit, edits,
                 outages, changes>>

Administer ==
  \/ \E w \in Workers :
       \/ \E t \in Policies : put_tenant_routing(w, t)
       \/ provision_shadow_default_config(w)
       \/ put_user_routing(w)
  \/ \E u \in Overrides : CheckUserRouting(u)
  \/ \E m \in Models : grant_entitlement(m) \/ revoke_entitlement(m)

Next ==
  \/ Administer
  \/ \E r \in Requests : Start(r) \/ RequestStep(r)
  \/ \E k \in Keys : CatchUp(k)
  \/ IndexCatchesUp \/ Outage \/ Recover \/ Tick

Spec == Init /\ [][Next]_vars

-----------------------------------------------------------------------------
(* Properties.                                                             *)

Admits(r) == req[r].stage # "served" /\ req'[r].stage = "served"

\* The document d was what a read could answer not longer ago than a cache
\* entry lasts; a document past that is served only
\* by a worker that read it once, while reads fail or just after.
InForce(k, d) ==
  \/ age[k][d] < Old
  \/ age[k][d] = Old /\ sinceUp < RecoveryCap

\* No request is admitted under a policy that was replaced longer ago than
\* the cache can hold it, nor under an empty one that was never stored: the
\* cache's expiry, another worker's put, a read in flight across it, a
\* lagging replica and an outage all included (config.py:58, 70, 98, 130).
PolicyIsRecent ==
  [][\A r \in Requests : Admits(r) =>
       /\ InForce("tenant", req[r].t)
       /\ InForce("user", req[r].u)]_vars

\* Whatever made the list (a pin, a session's lock or preference, either
\* chain, or no document at all) and however far a quota has pushed the
\* request along it, the model reserved is one this route serves, inside
\* both documents' models and scopes, and granted when it needs a grant
\* (eligibility.py:114, _pipeline.py:2328).
AdmittedIsAllowed ==
  [][\A r \in Requests : Admits(r) =>
       LET m == ModelOf(req'[r].model) IN
       /\ m \in Speaks
       /\ T(r).allowlist # {} => m \in T(r).allowlist
       /\ T(r).allowlist = {} /\ T(r).chain # <<>> => m \in ToSet(T(r).chain)
       /\ U(r).chain # <<>> => m \in ToSet(U(r).chain)
       /\ \A scopes \in {T(r).scopes, U(r).scopes} :
            scopes # None => ScopeOf[m] \in scopes
       /\ m \in Gated => m \in grants \cup index]_vars
=============================================================================
