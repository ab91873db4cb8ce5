----------------------------- MODULE Discovery -----------------------------
(***************************************************************************)
(* How a model that nobody configured comes to be served.  A pass over the *)
(* account observes inference profiles and stores what it saw.  A person   *)
(* promotes an observation to a candidate, which reserves its names.  A    *)
(* probe calls the model once, with a reservation of its own, and a charge *)
(* that can be attributed leaves a verdict.  Activation turns candidate    *)
(* and verdict into an entry in one transaction, and every worker composes *)
(* the entries with the registry it was built with, from a cache.  Traffic *)
(* that contradicts a verdict withdraws it.                                *)
(***************************************************************************)
EXTENDS Integers, FiniteSets

CONSTANTS
  None,         \* no row, no owner, no model
  Profiles,     \* inference profiles; a profile's id is also a name of its model
  Aliases,      \* names that people give to models
  Known,        \* profiles that an earlier pass has stored
  Builds,       \* the registries that builds of the code may bring: sets of entries
  RateRows,     \* pricing keys that the bundled rates know
  Shapes,       \* what each profile can come to be: [where, bounded]
  Offered,      \* what each profile is at first
  Wishes,       \* promotions that people ask for: [p, aliases, key]
  PricedKeys,   \* pricing keys with a row of rates
  Invocations,  \* ways to call a model
  Workers,      \* processes, each with its cache of entries
  Operators,    \* requests of people in flight
  WorkerOf,     \* the worker that serves each of them
  Traffic,      \* endings of served requests in flight
  ProbeLimit,   \* probes in a window of the rate limit
  MaxStamps,    \* bound: observations and verdicts that get a new time
  MaxMoves,     \* bound: changes of a profile by its provider
  MaxRestarts   \* bound: restarts of a worker

Names == Aliases \cup Profiles

(***************************************************************************)
(* The registry that a build brings.  It is read once, when the process    *)
(* starts; a process whose registry is refused does not start.             *)
(***************************************************************************)
entry_names(e) == e.aliases \cup {e.id}

\* Required fields are there; the scope agrees with the prefix of the id; a jurisdiction is
\* named if and only if it binds; a route that goes to one region names one that serves it;
\* a virtual entry names its pool, and one served elsewhere its endpoint.
parse_entry(e) ==
  /\ e.aliases # {} /\ e.prefix \in {e.scope, "none"}
  /\ (e.jurisdiction # "none") <=> e.bounded
  /\ (e.protocol = "responses" /\ e.served_by = "bedrock") => e.region_serves
  /\ (e.virtual <=> e.served_by = "semantic-router") /\ (e.served_by = "vllm" => e.endpoint)

load_registry(build) ==
  /\ build # {} /\ \A e \in build : parse_entry(e) /\ e.key \in RateRows
  /\ \A e, f \in build : e # f =>
       entry_names(e) \cap entry_names(f) = {} /\ <<e.family, e.scope>> # <<f.family, f.scope>>

StartingBuilds == {b \in Builds : load_registry(b)}

\* Where a profile is, and whether it is bound to its jurisdiction.
Shape == [where : STRING, bounded : BOOLEAN]

ASSUME DiscoveryAssumption ==
  /\ None \notin Profiles /\ Offered \in [Profiles -> Shape] /\ Shapes \in [Profiles -> SUBSET Shape]
  /\ Wishes \subseteq [p : Profiles, aliases : SUBSET Aliases, key : STRING]
  /\ WorkerOf \in [Operators -> Workers] /\ Known \subseteq Profiles
  /\ \A n \in {ProbeLimit, MaxStamps, MaxMoves, MaxRestarts} : n \in Nat

VARIABLES
  offered,    \* what each profile is, which only the provider knows
  pass,       \* the records that the running pass has built
  records,    \* stored observations
  candidates, \* promotions
  reserved,   \* who reserved a name for a candidate
  verdicts,   \* the last verdict for a profile and an invocation
  active,     \* activated entries
  claims,     \* who serves a name
  registry,   \* the composed registry of each worker
  op,         \* operators' requests
  ending,     \* endings of served requests that withdraw a verdict
  probed,     \* probes so far in this window
  now,        \* the clock
  paid,       \* what the charged probes called, which nobody stores
  moves, restarts

vars == <<offered, pass, records, candidates, reserved, verdicts, active, claims, registry,
          op, ending, probed, now, paid, moves, restarts>>
world == <<offered, moves>>
served == <<active, claims>>
promoted == <<candidates, reserved>>

Idle == [pc |-> "idle"]
Entries == [p \in Profiles |-> None]

Init ==
  /\ offered = Offered
  /\ records = [p \in Profiles |->
       IF p \in Known THEN [shape |-> offered[p], observed_at |-> 0, permanent |-> FALSE] ELSE None]
  /\ pass = Entries /\ candidates = Entries
  /\ reserved = [n \in Names |-> None]
  /\ verdicts = [p \in Profiles |-> [i \in Invocations |-> None]]
  /\ active = Entries /\ claims = [n \in Names |-> None]
  /\ \E b \in StartingBuilds :
       registry = [w \in Workers |-> [static |-> b, entries |-> Entries, fresh |-> FALSE]]
  /\ op = [o \in Operators |-> Idle] /\ ending = [t \in Traffic |-> Idle]
  /\ probed = 0 /\ now = 0 /\ paid = {} /\ moves = 0 /\ restarts = 0

tick == now < MaxStamps /\ now' = now + 1

(***************************************************************************)
(* A pass over the account.                                                *)
(***************************************************************************)

\* External: the provider changes what a profile is.
profile_moves(p) ==
  /\ moves < MaxMoves /\ moves' = moves + 1
  /\ \E s \in Shapes[p] \ {offered[p]} : offered' = [offered EXCEPT ![p] = s]
  /\ UNCHANGED <<pass, records, promoted, verdicts, served, registry, op, ending, probed, now, paid, restarts>>

\* What the two calls about a model can say.
Details == {"text", "other", "unreadable"}
Offers == {"card", "not_marketplace_metered", "not_authorized", "empty_rate_card", "call_failed"}
Cards == {"priced", "unparseable", "no_tokens", "selector_refused"}

gate_output_is_text(details) ==
  IF details = "other" THEN {"unsupported_output_modality"} ELSE {}
gate_card_prices_tokens(card) == IF card = "no_tokens" THEN {"no_token_pricing"} ELSE {}
fetch_rate_card(offer) ==
  IF offer = "card" THEN {}
  ELSE {IF offer = "not_authorized" THEN "no_model_access" ELSE offer}
build_card(card) ==
  CASE card = "unparseable" -> {"price_dimensions_unknown"}
    [] card = "selector_refused" -> {"no_token_pricing"}
    [] OTHER -> {}

\* Time does not cure these.
is_actionable_blocker(b) ==
  b \notin {"unsupported_output_modality", "no_token_pricing", "not_marketplace_metered"}

build_record(p, details, offer, card) ==
  LET blockers == gate_output_is_text(details)
        \cup (IF fetch_rate_card(offer) # {} THEN fetch_rate_card(offer)
              ELSE IF gate_card_prices_tokens(card) # {} THEN gate_card_prices_tokens(card)
              ELSE build_card(card))
  IN [shape |-> offered[p], observed_at |-> now + 1,
      permanent |-> \E b \in blockers : ~is_actionable_blocker(b)]

Sightings(p) ==
  {build_record(p, details, offer, card) : details \in Details, offer \in Offers, card \in Cards}

\* A profile whose record cannot be built, or that the listing did not reach, is not in
\* the pass at all.
run_pass(p) ==
  /\ tick /\ pass[p] = None
  /\ \E rec \in Sightings(p) : pass' = [pass EXCEPT ![p] = rec]
  /\ UNCHANGED <<world, records, promoted, verdicts, served, registry, op, ending, probed, paid, restarts>>

\* Without --apply, or when the store does not answer, nothing is stored.
main_applies(p) ==
  /\ pass[p] # None /\ pass' = [pass EXCEPT ![p] = None]
  /\ records' \in {records, [records EXCEPT ![p] = pass[p]]}
  /\ UNCHANGED <<world, promoted, verdicts, served, registry, op, ending, probed, now, paid, restarts>>

(***************************************************************************)
(* The composed registry of a worker.                                      *)
(***************************************************************************)
public_identifiers(p, entry) == entry.aliases \cup {p}

\* The entries of a worker that carry a name.
Named(w, n) ==
  {p \in Profiles : registry[w].entries[p] # None
                    /\ n \in public_identifiers(p, registry[w].entries[p])}

\* An activated entry shadows the registry of the code.
resolve_model(w, n) ==
  LET static == {e \in registry[w].static : n \in entry_names(e)} IN
  CASE Named(w, n) # {} -> CHOOSE p \in Named(w, n) : TRUE
    [] Named(w, n) = {} /\ static # {} -> (CHOOSE e \in static : TRUE).id
    [] OTHER -> None

registry_entries(w) ==
  UNION {entry_names(e) : e \in registry[w].static}
    \cup UNION {public_identifiers(p, registry[w].entries[p]) :
                    p \in {q \in Profiles : registry[w].entries[q] # None}}

refresh(w) == registry' = [registry EXCEPT ![w].entries = active, ![w].fresh = TRUE]

\* A read after the lifetime of the cache refreshes it; when the store does not answer, the
\* entries of the last refresh are kept for another lifetime.
ensure_freshM(w) == FALSE   \* the cache never expires
ensure_fresh(w) == ~registry[w].fresh

registry_refreshes(w) ==
  /\ ensure_fresh(w) /\ refresh(w)
  /\ UNCHANGED <<world, pass, records, promoted, verdicts, served, op, ending, probed, now, paid, restarts>>
registry_is_kept(w) ==
  /\ ensure_fresh(w) /\ registry' = [registry EXCEPT ![w].fresh = TRUE]
  /\ UNCHANGED <<world, pass, records, promoted, verdicts, served, op, ending, probed, now, paid, restarts>>
\* The age of a cache matters once its refresh would change it.
registry_ages(w) ==
  /\ registry[w].fresh /\ registry[w].entries # active
  /\ registry' = [registry EXCEPT ![w].fresh = FALSE]
  /\ UNCHANGED <<world, pass, records, promoted, verdicts, served, op, ending, probed, now, paid, restarts>>
\* A restart may bring another build, and forgets the activated entries until the first read.
worker_restarts(w) ==
  /\ restarts < MaxRestarts /\ restarts' = restarts + 1
  /\ \E b \in StartingBuilds :
       registry' = [registry EXCEPT ![w] = [static |-> b, entries |-> Entries, fresh |-> FALSE]]
  /\ UNCHANGED <<world, pass, records, promoted, verdicts, served, op, ending, probed, now, paid>>

(***************************************************************************)
(* Promotion.                                                              *)
(***************************************************************************)
Goto(o, r) == op' = [op EXCEPT ![o] = r]
quiet == <<world, pass, records, registry, ending, restarts>>

\* The operator reads a record and its revision.
get_discovery_record(o, p) ==
  /\ op[o].pc = "idle" /\ records[p] # None
  /\ Goto(o, [pc |-> "promoting", p |-> p, revision |-> records[p].observed_at])
  /\ UNCHANGED <<quiet, promoted, verdicts, served, probed, now, paid>>

\* What a person has to say: a name, a key that is not the fallback, a jurisdiction.
validate_human_inputs(aliases, key) == aliases # {} /\ key # "default"

derive_candidate(rec, aliases, key) == [aliases |-> aliases, key |-> key, where |-> rec.shape.where]

create_promotion_candidate(o, wish) ==
  LET r == op[o] IN
  /\ r.pc = "promoting" /\ wish.p = r.p
  /\ IF r.revision = records[r.p].observed_at /\ validate_human_inputs(wish.aliases, wish.key)
     THEN Goto(o, [pc |-> "reserving", p |-> r.p,
                   cand |-> derive_candidate(records[r.p], wish.aliases, wish.key)])
     ELSE Goto(o, Idle)
  /\ UNCHANGED <<quiet, promoted, verdicts, served, probed, now, paid>>

\* The names that this worker serves already.
registry_collisions(w, names) == names \cap registry_entries(w)

\* One transaction: the candidate, and each of its names if nobody reserved it.
put_promotion_candidateM(w, p, cand) ==   \* the registry is not consulted
  LET names == public_identifiers(p, cand) IN
  IF (\A n \in names : reserved[n] = None)
  THEN /\ candidates' = [candidates EXCEPT ![p] = cand]
       /\ reserved' = [n \in Names |-> IF n \in names THEN p ELSE reserved[n]]
  ELSE UNCHANGED promoted
put_promotion_candidate(w, p, cand) ==
  LET names == public_identifiers(p, cand) IN
  IF registry_collisions(w, names) = {} /\ (\A n \in names : reserved[n] = None)
  THEN /\ candidates' = [candidates EXCEPT ![p] = cand]
       /\ reserved' = [n \in Names |-> IF n \in names THEN p ELSE reserved[n]]
  ELSE UNCHANGED promoted

candidate_is_put(o) ==
  LET r == op[o] IN
  /\ r.pc = "reserving" /\ ~ensure_fresh(WorkerOf[o])
  /\ put_promotion_candidate(WorkerOf[o], r.p, r.cand)
  /\ Goto(o, Idle)
  /\ UNCHANGED <<quiet, verdicts, served, probed, now, paid>>

(***************************************************************************)
(* Probe.                                                                  *)
(***************************************************************************)

\* The fields that candidate and record must agree on; the bound of the jurisdiction is
\* not among them.
Agree(cand, rec) == cand.where = rec.shape.where

probe_promotion_candidate(o, p, i) ==
  /\ op[o].pc = "idle" /\ candidates[p] # None /\ records[p] # None
  /\ ~records[p].permanent /\ Agree(candidates[p], records[p])
  /\ Goto(o, [pc |-> "opening", p |-> p, i |-> i, cand |-> candidates[p], rec |-> records[p].shape])
  /\ UNCHANGED <<quiet, promoted, verdicts, served, probed, now, paid>>

\* The rate limit counts the attempt, whatever becomes of it.
check_probe_rate_limit(o) ==
  /\ op[o].pc = "opening" /\ probed >= ProbeLimit /\ Goto(o, Idle)
  /\ UNCHANGED <<quiet, promoted, verdicts, served, probed, now, paid>>

\* The scopes that the probing tenant is restricted to leave the profile out.
check_probe_scope_eligibility(o) ==
  /\ op[o].pc = "opening" /\ probed < ProbeLimit /\ probed' = probed + 1
  /\ Goto(o, Idle)
  /\ UNCHANGED <<quiet, promoted, verdicts, served, now, paid>>

\* No call without a price and a reservation, which may be refused.
open_probe_hold(o) ==
  /\ op[o].pc = "opening" /\ probed < ProbeLimit /\ probed' = probed + 1
  /\ op' \in {[op EXCEPT ![o] = Idle], [op EXCEPT ![o].pc = "calling"]}
  /\ UNCHANGED <<quiet, promoted, verdicts, served, now, paid>>

\* What one call can yield, on each of the two transports.  A stream that breaks after its
\* usage arrived has yielded it.
Exceptions == {"unsupported_operation", "throttled", "lost"}
call_messages == {"usage", "no_usage"} \cup Exceptions
call_responses == {"usage", "no_usage", "status", "lost"}

is_typed_protocol_failure(out) == out = "unsupported_operation"

\* The reservation is returned or kept as for any request; a failure that says the model does
\* not support the operation withdraws the standing verdict.
probe_sees_nothing(o, out) ==
  /\ op[o].pc = "calling" /\ out # "usage"
  /\ IF is_typed_protocol_failure(out) THEN op' = [op EXCEPT ![o].pc = "withdrawing"] ELSE Goto(o, Idle)
  /\ UNCHANGED <<quiet, promoted, verdicts, served, probed, now, paid>>

\* Usage: the reservation is settled with it.  Tokens that no rate prices, a key that does
\* not resolve or a charge of nothing fail the probe after it was paid for.
probe_settles(o, priced) ==
  LET r == op[o] IN
  /\ r.pc = "calling"
  /\ paid' = paid \cup {[p |-> r.p, i |-> r.i, cand |-> r.cand, rec |-> r.rec]}
  /\ IF r.cand.key \in PricedKeys /\ priced
     THEN Goto(o, [r EXCEPT !.pc = "attesting"]) ELSE Goto(o, Idle)
  /\ UNCHANGED <<quiet, promoted, verdicts, served, probed, now>>

\* A new verdict replaces the one that stands, whatever it says.
put_probe_verdict(p, i, v) == verdicts' = [verdicts EXCEPT ![p][i] = v]

\* The digests are those of the candidate and of the record that the call was made for.
AttestsM(r) ==   \* the record is read again when the verdict is written
  [cand |-> r.cand, rec |-> records[r.p].shape, at |-> now + 1, state |-> "verified"]
Attests(r) == [cand |-> r.cand, rec |-> r.rec, at |-> now + 1, state |-> "verified"]

probe_attests(o) ==
  LET r == op[o] IN
  /\ r.pc = "attesting" /\ tick
  /\ put_probe_verdict(r.p, r.i, Attests(r))
  /\ Goto(o, Idle)
  /\ UNCHANGED <<quiet, promoted, served, probed, paid>>

(***************************************************************************)
(* Withdrawal, by an ending of a request that was served under an entry,   *)
(* or by a probe that the provider refused for good.                       *)
(***************************************************************************)
Verified(v) == v # None /\ v.state = "verified"

\* The verdict is read, and written back with another state: nothing checks that it is
\* still the one that was read.
invalidate_reads(p, i) == [pc |-> "writing", p |-> p, i |-> i, verdict |-> verdicts[p][i]]
invalidate_writes(r) == put_probe_verdict(r.p, r.i, [r.verdict EXCEPT !.state = "invalidated"])

on_served_traffic_outcome(t, p, i) ==
  /\ ending[t].pc = "idle" /\ \E w \in Workers : registry[w].entries[p] # None
  /\ Verified(verdicts[p][i])
  /\ ending' = [ending EXCEPT ![t] = invalidate_reads(p, i)]
  /\ UNCHANGED <<world, pass, records, registry, op, promoted, verdicts, served, probed, now, paid, restarts>>
traffic_invalidates(t) ==
  /\ ending[t].pc = "writing" /\ invalidate_writes(ending[t])
  /\ ending' = [ending EXCEPT ![t] = Idle]
  /\ UNCHANGED <<world, pass, records, registry, op, promoted, served, probed, now, paid, restarts>>

probe_withdraws(o) ==
  LET r == op[o] IN
  /\ r.pc = "withdrawing"
  /\ IF Verified(verdicts[r.p][r.i]) THEN Goto(o, invalidate_reads(r.p, r.i)) ELSE Goto(o, Idle)
  /\ UNCHANGED <<quiet, promoted, verdicts, served, probed, now, paid>>
probe_invalidates(o) ==
  /\ op[o].pc = "writing" /\ invalidate_writes(op[o]) /\ Goto(o, Idle)
  /\ UNCHANGED <<quiet, promoted, served, probed, now, paid>>

(***************************************************************************)
(* Activation.                                                             *)
(***************************************************************************)

\* The operator sees a verdict and names it by its time.
get_discovery_candidate(o, p, i) ==
  /\ op[o].pc = "idle" /\ candidates[p] # None /\ verdicts[p][i] # None
  /\ Goto(o, [pc |-> "activating", p |-> p, i |-> i, seen |-> verdicts[p][i].at])
  /\ UNCHANGED <<quiet, promoted, verdicts, served, probed, now, paid>>

verify(cand, v, seen) == Verified(v) /\ v.cand.key = cand.key /\ v.at = seen

\* The candidate and the verdict are read first, the record afterwards.
activate_reads(o) ==
  LET r == op[o]
      v == verdicts[r.p][r.i]
  IN /\ r.pc = "activating"
     /\ IF verify(candidates[r.p], v, r.seen)
        THEN Goto(o, [pc |-> "checking", p |-> r.p, i |-> r.i, seen |-> r.seen,
                      cand |-> candidates[r.p], verdict |-> v])
        ELSE Goto(o, Idle)
     /\ UNCHANGED <<quiet, promoted, verdicts, served, probed, now, paid>>

check_subject(v, cand, shape) == v.cand = cand /\ v.rec = shape

build_entry(cand, shape) ==
  [aliases |-> cand.aliases, key |-> cand.key, where |-> cand.where, bounded |-> shape.bounded]

activate_checks(o) ==
  LET r == op[o]
      shape == records[r.p].shape
  IN /\ r.pc = "checking"
     /\ IF check_subject(r.verdict, r.cand, shape)
        THEN Goto(o, [pc |-> "committing", p |-> r.p, i |-> r.i, seen |-> r.seen,
                      cand |-> r.cand, rec |-> shape])
        ELSE Goto(o, Idle)
     /\ UNCHANGED <<quiet, promoted, verdicts, served, probed, now, paid>>

\* One transaction: the verdict is still the one that was seen and verified the same things,
\* and no other profile serves one of the names.
LicensesM(r, v) == v # None /\ v.cand = r.cand /\ v.rec = r.rec   \* which verdict it is, is not checked
Licenses(r, v) ==
  Verified(v) /\ v.at = r.seen /\ v.cand = r.cand /\ v.rec = r.rec

commit_activation(o) ==
  LET r == op[o]
      entry == build_entry(r.cand, r.rec)
      names == public_identifiers(r.p, entry)
  IN /\ r.pc = "committing"
     /\ IF Licenses(r, verdicts[r.p][r.i]) /\ (\A n \in names : claims[n] \in {None, r.p})
        THEN /\ active' = [active EXCEPT ![r.p] = entry]
             /\ claims' = [n \in Names |-> IF n \in names THEN r.p ELSE claims[n]]
             /\ Goto(o, [pc |-> "committed"])
        ELSE UNCHANGED served /\ Goto(o, Idle)
     /\ UNCHANGED <<quiet, promoted, verdicts, probed, now, paid>>

\* Only the worker that committed is told.
invalidate_composed_registry(o) ==
  /\ op[o].pc = "committed"
  /\ registry' = [registry EXCEPT ![WorkerOf[o]].fresh = FALSE]
  /\ Goto(o, Idle)
  /\ UNCHANGED <<world, pass, records, promoted, verdicts, served, ending, probed, now, paid, restarts>>

\* A request of an operator dies with its worker, between any two of its steps.
operator_dies(o) ==
  /\ op[o].pc # "idle" /\ Goto(o, Idle)
  /\ UNCHANGED <<quiet, promoted, verdicts, served, probed, now, paid>>

(***************************************************************************)
Next ==
  \/ \E p \in Profiles : profile_moves(p) \/ run_pass(p) \/ main_applies(p)
  \/ \E w \in Workers :
       registry_refreshes(w) \/ registry_is_kept(w) \/ registry_ages(w) \/ worker_restarts(w)
  \/ \E o \in Operators :
       \/ \E p \in Profiles : get_discovery_record(o, p)
       \/ \E wish \in Wishes : create_promotion_candidate(o, wish)
       \/ candidate_is_put(o)
       \/ \E p \in Profiles, i \in Invocations :
            probe_promotion_candidate(o, p, i) \/ get_discovery_candidate(o, p, i)
       \/ check_probe_rate_limit(o) \/ check_probe_scope_eligibility(o) \/ open_probe_hold(o)
       \/ \E out \in call_messages \cup call_responses : probe_sees_nothing(o, out)
       \/ \E priced \in BOOLEAN : probe_settles(o, priced)
       \/ probe_attests(o) \/ probe_withdraws(o) \/ probe_invalidates(o)
       \/ activate_reads(o) \/ activate_checks(o) \/ commit_activation(o) \/ invalidate_composed_registry(o)
       \/ operator_dies(o)
  \/ \E t \in Traffic :
       \/ \E p \in Profiles, i \in Invocations : on_served_traffic_outcome(t, p, i)
       \/ traffic_invalidates(t)

Spec == Init /\ [][Next]_vars

\* The lifetime of a cache passes, workers read it, and the store answers again and again.
FairSpec ==
  Spec /\ \A w \in Workers : WF_vars(registry_ages(w)) /\ SF_vars(registry_refreshes(w))

(***************************************************************************)
(* Properties.                                                             *)
(***************************************************************************)

\* What is served is what somebody paid to try: names, key and region of the candidate, and
\* the jurisdiction of the record, of one probe that the provider answered and the ledger
\* charged, whatever was observed or promoted since.
ServedAsVerified ==
  \A p \in Profiles : active[p] # None =>
    \E s \in paid : s.p = p /\ active[p] = build_entry(s.cand, s.rec) /\ s.cand.where = s.rec.where

\* An activation commits only while the verdict that the operator saw stands: one that traffic
\* withdrew, or that a later probe replaced, licenses nothing.
WithdrawnIsNotActivated ==
  [][\A o \in Operators : (op[o].pc = "committing" /\ op'[o].pc = "committed") =>
       LET v == verdicts[op[o].p][op[o].i] IN v.state = "verified" /\ v.at = op[o].seen]_vars

\* A name that one worker resolves never comes to mean another model, on that worker or on
\* any other, through activations, refreshes, outages of the store and restarts.
NamesNeverMove ==
  [][\A n \in Names : \A w, v \in Workers :
       resolve_model(w, n) # None => resolve_model(v, n)' \in {resolve_model(w, n), None}]_<<registry>>

\* An activation reaches every worker, told or not: each of them comes to serve all that is
\* activated, again and again.
EveryWorkerServes ==
  \A w \in Workers :
    []<>(\A p \in Profiles : active[p] # None => registry[w].entries[p] # None)
=============================================================================
