---------------------------- MODULE DiscoveryProofs ----------------------------
(***************************************************************************)
(* The safety properties of Discovery, for every number of profiles,       *)
(* names, workers, operators and endings of requests.                      *)
(***************************************************************************)
EXTENDS Discovery, TLAPS

(* What the tables and the requests hold. *)
Cand == [aliases : SUBSET Aliases, key : STRING, where : STRING]
Entry == [aliases : SUBSET Aliases, key : STRING, where : STRING, bounded : BOOLEAN]
Record == [shape : Shape, observed_at : Nat, permanent : BOOLEAN]
Verdict == [cand : Cand, rec : Shape, at : Nat, state : {"verified", "invalidated"}]
Paid == [p : Profiles, i : Invocations, cand : Cand, rec : Shape]

(* An operator's request, by what it carries. *)
Plain == [pc : {"idle", "committed"}]
Promoting == [pc : {"promoting"}, p : Profiles, revision : Nat]
Reserving == [pc : {"reserving"}, p : Profiles, cand : Cand]
ProbePcs == {"opening", "calling", "attesting", "withdrawing"}
Probing == [pc : ProbePcs, p : Profiles, i : Invocations, cand : Cand, rec : Shape]
Writing == [pc : {"writing"}, p : Profiles, i : Invocations, verdict : Verdict]
Activating == [pc : {"activating"}, p : Profiles, i : Invocations, seen : Nat]
Checking == [pc : {"checking"}, p : Profiles, i : Invocations, seen : Nat, cand : Cand, verdict : Verdict]
Committing == [pc : {"committing"}, p : Profiles, i : Invocations, seen : Nat, cand : Cand, rec : Shape]
Ops == Plain \cup Promoting \cup Reserving \cup Probing \cup Writing \cup Activating \cup Checking \cup Committing

TypeOK ==
  /\ offered \in [Profiles -> Shape]
  /\ pass \in [Profiles -> Record \cup {None}] /\ records \in [Profiles -> Record \cup {None}]
  /\ candidates \in [Profiles -> Cand \cup {None}]
  /\ reserved \in [Names -> Profiles \cup {None}]
  /\ verdicts \in [Profiles -> [Invocations -> Verdict \cup {None}]]
  /\ active \in [Profiles -> Entry \cup {None}]
  /\ registry \in [Workers -> [static : StartingBuilds, entries : [Profiles -> Entry \cup {None}], fresh : BOOLEAN]]
  /\ op \in [Operators -> Ops] /\ ending \in [Traffic -> Plain \cup Writing]
  /\ now \in Nat /\ paid \subseteq Paid

\* A promotion starts from an observation, and an activation from a candidate.
OpsRest ==
  \A o \in Operators :
    /\ op[o].pc = "promoting" => records[op[o].p] # None
    /\ op[o].pc = "activating" => candidates[op[o].p] # None

\* The step at which an operation stands tells which fields it has.
LEMMA OpKinds ==
  ASSUME NEW r \in Ops
  PROVE  /\ r.pc = "promoting" => r \in Promoting
         /\ r.pc = "reserving" => r \in Reserving
         /\ r.pc \in ProbePcs => r \in Probing
         /\ r.pc = "writing" => r \in Writing
         /\ r.pc = "activating" => r \in Activating
         /\ r.pc = "checking" => r \in Checking
         /\ r.pc = "committing" => r \in Committing
BY DEF Ops, Plain, Promoting, Reserving, ProbePcs, Probing, Writing, Activating, Checking, Committing

\* Every kind of operation is an operation.
LEMMA OpsAre ==
  /\ Idle \in Plain /\ [pc |-> "committed"] \in Plain
  /\ Plain \subseteq Ops /\ Promoting \subseteq Ops /\ Reserving \subseteq Ops /\ Probing \subseteq Ops
  /\ Writing \subseteq Ops /\ Activating \subseteq Ops /\ Checking \subseteq Ops /\ Committing \subseteq Ops
BY DEF Ops, Plain, Idle

\* The first state is typed, and no operation is under way.
LEMMA InitType == Init => TypeOK /\ OpsRest
<1> SUFFICES ASSUME Init PROVE TypeOK /\ OpsRest
  OBVIOUS
<1>0. Idle \in Plain /\ Plain \subseteq Ops
  BY OpsAre
<1>1. offered \in [Profiles -> Shape] /\ now \in Nat /\ paid \subseteq Paid
  BY DiscoveryAssumption DEF Init
<1>2. records \in [Profiles -> Record \cup {None}]
  <2>1. \A p \in Profiles : offered[p] \in Shape
    BY <1>1
  <2>2. \A p \in Profiles : [shape |-> offered[p], observed_at |-> 0, permanent |-> FALSE] \in Record
    BY <2>1 DEF Record
  <2>. QED
    BY <2>2 DEF Init
<1>3. /\ pass \in [Profiles -> Record \cup {None}] /\ candidates \in [Profiles -> Cand \cup {None}]
      /\ reserved \in [Names -> Profiles \cup {None}] /\ active \in [Profiles -> Entry \cup {None}]
      /\ verdicts \in [Profiles -> [Invocations -> Verdict \cup {None}]]
      /\ op \in [Operators -> Ops] /\ ending \in [Traffic -> Plain \cup Writing]
  BY <1>0 DEF Init, Entries
<1>4. registry \in [Workers -> [static : StartingBuilds, entries : [Profiles -> Entry \cup {None}], fresh : BOOLEAN]]
  BY DEF Init, Entries
<1>5. OpsRest
  BY DEF Init, OpsRest, Idle
<1>. QED
  BY <1>1, <1>2, <1>3, <1>4, <1>5 DEF TypeOK

(***************************************************************************)
(* The steps, by what they are about.                                      *)
(***************************************************************************)
Sight == \E p \in Profiles : profile_moves(p) \/ run_pass(p) \/ main_applies(p)
Cache == \E w \in Workers :
  registry_refreshes(w) \/ registry_is_kept(w) \/ registry_ages(w) \/ worker_restarts(w)
Promote(o) ==
  \/ \E p \in Profiles : get_discovery_record(o, p)
  \/ \E wish \in Wishes : create_promotion_candidate(o, wish)
  \/ candidate_is_put(o)
Probe(o) ==
  \/ \E p \in Profiles, i \in Invocations : probe_promotion_candidate(o, p, i)
  \/ check_probe_rate_limit(o) \/ check_probe_scope_eligibility(o) \/ open_probe_hold(o)
  \/ \E out \in call_messages \cup call_responses : probe_sees_nothing(o, out)
  \/ \E priced \in BOOLEAN : probe_settles(o, priced)
  \/ probe_attests(o) \/ probe_withdraws(o) \/ probe_invalidates(o)
Activate(o) ==
  \/ \E p \in Profiles, i \in Invocations : get_discovery_candidate(o, p, i)
  \/ activate_reads(o) \/ activate_checks(o) \/ commit_activation(o)
  \/ invalidate_composed_registry(o) \/ operator_dies(o)
Withdraw(t) ==
  \/ \E p \in Profiles, i \in Invocations : on_served_traffic_outcome(t, p, i)
  \/ traffic_invalidates(t)

\* Next, by who takes the step.
LEMMA Steps ==
  ASSUME Next
  PROVE  \/ Sight \/ Cache
         \/ \E o \in Operators : Promote(o) \/ Probe(o) \/ Activate(o)
         \/ \E t \in Traffic : Withdraw(t)
BY Zenon DEF Next, Sight, Cache, Promote, Probe, Activate, Withdraw

(***************************************************************************)
(* A request's step gives it its next state and leaves the others alone.   *)
(***************************************************************************)
LEMMA GoesOn ==
  ASSUME NEW o \in Operators, NEW r, r \in Ops, TypeOK, Goto(o, r)
  PROVE  op' \in [Operators -> Ops]
BY DEF Goto, TypeOK

\* Observations.
LEMMA PassSteps ==
  ASSUME TypeOK, Sight
  PROVE  TypeOK'
<1> SUFFICES ASSUME NEW p \in Profiles, profile_moves(p) \/ run_pass(p) \/ main_applies(p)
             PROVE  TypeOK'
  BY DEF Sight
<1>1. CASE profile_moves(p)
  <2>1. PICK s \in Shapes[p] : offered' = [offered EXCEPT ![p] = s]
    BY <1>1 DEF profile_moves
  <2>2. s \in Shape
    BY <2>1, DiscoveryAssumption
  <2>3. offered' \in [Profiles -> Shape]
    BY <2>1, <2>2 DEF TypeOK
  <2>. QED
    BY <1>1, <2>3 DEF profile_moves, TypeOK, promoted, served
<1>2. CASE run_pass(p)
  <2>0. \A details \in Details, offer \in Offers, card \in Cards :
          build_record(p, details, offer, card) \in Record
    BY DEF TypeOK, build_record, Record
  <2>1. PICK rec \in Sightings(p) : pass' = [pass EXCEPT ![p] = rec]
    BY <1>2 DEF run_pass
  <2>2. rec \in Record
    BY <2>0 DEF Sightings
  <2>3. pass' \in [Profiles -> Record \cup {None}]
    BY <2>1, <2>2 DEF TypeOK
  <2>4. now' \in Nat
    BY <1>2 DEF run_pass, tick, TypeOK
  <2>. QED
    BY <1>2, <2>3, <2>4 DEF run_pass, TypeOK, promoted, served, world
<1>3. CASE main_applies(p)
  <2>1. pass' \in [Profiles -> Record \cup {None}] /\ records' \in [Profiles -> Record \cup {None}]
    BY <1>3 DEF main_applies, TypeOK
  <2>. QED
    BY <1>3, <2>1 DEF main_applies, TypeOK, promoted, served, world
<1>. QED
  BY <1>1, <1>2, <1>3

\* The caches of the workers.
LEMMA CacheSteps ==
  ASSUME TypeOK, Cache
  PROVE  TypeOK'
<1> SUFFICES ASSUME NEW w \in Workers,
                    registry_refreshes(w) \/ registry_is_kept(w) \/ registry_ages(w) \/ worker_restarts(w)
             PROVE  TypeOK'
  BY DEF Cache
<1> DEFINE Kept == [static : StartingBuilds, entries : [Profiles -> Entry \cup {None}], fresh : BOOLEAN]
<1>1. CASE registry_refreshes(w)
  <2>1. registry' \in [Workers -> Kept]
    BY <1>1 DEF registry_refreshes, refresh, TypeOK
  <2>. QED
    BY <1>1, <2>1 DEF registry_refreshes, TypeOK, promoted, served, world
<1>2. CASE registry_is_kept(w)
  <2>1. registry' \in [Workers -> Kept]
    <3>1. registry \in [Workers -> Kept] /\ registry' = [registry EXCEPT ![w].fresh = TRUE]
      BY <1>2 DEF registry_is_kept, TypeOK
    <3>2. [registry[w] EXCEPT !.fresh = TRUE] \in Kept
      BY <3>1
    <3>. QED
      BY <3>1, <3>2
  <2>. QED
    BY <1>2, <2>1 DEF registry_is_kept, TypeOK, promoted, served, world
<1>3. CASE registry_ages(w)
  <2>1. registry' \in [Workers -> Kept]
    <3>1. registry \in [Workers -> Kept] /\ registry' = [registry EXCEPT ![w].fresh = FALSE]
      BY <1>3 DEF registry_ages, TypeOK
    <3>2. [registry[w] EXCEPT !.fresh = FALSE] \in Kept
      BY <3>1
    <3>. QED
      BY <3>1, <3>2
  <2>. QED
    BY <1>3, <2>1 DEF registry_ages, TypeOK, promoted, served, world
<1>4. CASE worker_restarts(w)
  <2>1. PICK b \in StartingBuilds :
          registry' = [registry EXCEPT ![w] = [static |-> b, entries |-> Entries, fresh |-> FALSE]]
    BY <1>4 DEF worker_restarts
  <2>2. [static |-> b, entries |-> Entries, fresh |-> FALSE] \in Kept
    BY <2>1 DEF Entries
  <2>3. registry' \in [Workers -> Kept]
    BY <2>1, <2>2 DEF TypeOK
  <2>. QED
    BY <1>4, <2>3 DEF worker_restarts, TypeOK, promoted, served, world
<1>. QED
  BY <1>1, <1>2, <1>3, <1>4

\* Endings of served requests.
LEMMA TrafficSteps ==
  ASSUME TypeOK, NEW t \in Traffic, Withdraw(t)
  PROVE  TypeOK'
<1>1. ASSUME NEW p \in Profiles, NEW i \in Invocations, on_served_traffic_outcome(t, p, i)
      PROVE  TypeOK'
  <2>1. verdicts[p][i] \in Verdict
    BY <1>1 DEF on_served_traffic_outcome, Verified, TypeOK
  <2>2. invalidate_reads(p, i) \in Writing
    BY <2>1 DEF invalidate_reads, Writing
  <2>3. ending' \in [Traffic -> Plain \cup Writing]
    BY <1>1, <2>2 DEF on_served_traffic_outcome, TypeOK
  <2>. QED
    BY <1>1, <2>3 DEF on_served_traffic_outcome, TypeOK, promoted, served, world
<1>2. CASE traffic_invalidates(t)
  <2>1. ending[t] \in Writing
    BY <1>2 DEF traffic_invalidates, TypeOK, Plain
  <2> DEFINE v == [ending[t].verdict EXCEPT !.state = "invalidated"]
  <2>2. v \in Verdict
    BY <2>1 DEF Writing, Verdict
  <2>3. verdicts' = [verdicts EXCEPT ![ending[t].p][ending[t].i] = v]
    BY <1>2 DEF traffic_invalidates, invalidate_writes, put_probe_verdict
  <2>4. verdicts' \in [Profiles -> [Invocations -> Verdict \cup {None}]]
    <3> HIDE DEF v
    <3>. QED
      BY <2>1, <2>2, <2>3 DEF TypeOK, Writing
  <2>5. ending' \in [Traffic -> Plain \cup Writing]
    BY <1>2, OpsAre DEF traffic_invalidates, TypeOK
  <2>. QED
    BY <1>2, <2>4, <2>5 DEF traffic_invalidates, TypeOK, promoted, served, world
<1>. QED
  BY <1>1, <1>2 DEF Withdraw

\* Promotion.
LEMMA PromotionSteps ==
  ASSUME TypeOK, OpsRest, NEW o \in Operators, Promote(o)
  PROVE  TypeOK'
<1>0. op[o] \in Ops
  BY DEF TypeOK
<1>1. ASSUME NEW p \in Profiles, get_discovery_record(o, p) PROVE TypeOK'
  <2>1. records[p].observed_at \in Nat
    BY <1>1 DEF get_discovery_record, TypeOK, Record
  <2>2. [pc |-> "promoting", p |-> p, revision |-> records[p].observed_at] \in Promoting
    BY <2>1 DEF Promoting
  <2>3. op' \in [Operators -> Ops]
    BY <1>1, <2>2, GoesOn, OpsAre DEF get_discovery_record
  <2>. QED
    BY <1>1, <2>3 DEF get_discovery_record, TypeOK, promoted, served, world, quiet
<1>2. ASSUME NEW wish \in Wishes, create_promotion_candidate(o, wish) PROVE TypeOK'
  <2>1. op[o] \in Promoting /\ records[op[o].p] # None
    BY <1>0, <1>2, OpKinds DEF create_promotion_candidate, OpsRest
  <2>2. op[o].p \in Profiles /\ records[op[o].p] \in Record
    BY <2>1 DEF Promoting, TypeOK
  <2>3. wish.aliases \in SUBSET Aliases /\ wish.key \in STRING
    BY DiscoveryAssumption
  <2> DEFINE cand == derive_candidate(records[op[o].p], wish.aliases, wish.key)
  <2>4. cand \in Cand
    BY <2>2, <2>3 DEF derive_candidate, Cand, Record, Shape
  <2>5. [pc |-> "reserving", p |-> op[o].p, cand |-> cand] \in Reserving
    <3> HIDE DEF cand
    <3>. QED
      BY <2>2, <2>4 DEF Reserving
  <2>6. \E r \in Ops : Goto(o, r)
    BY <1>2, <2>5, OpsAre DEF create_promotion_candidate
  <2>7. op' \in [Operators -> Ops]
    BY <2>6, GoesOn
  <2>. QED
    BY <1>2, <2>7 DEF create_promotion_candidate, TypeOK, promoted, served, world, quiet
<1>3. CASE candidate_is_put(o)
  <2>1. op[o] \in Reserving
    BY <1>0, <1>3, OpKinds DEF candidate_is_put
  <2>2. op' \in [Operators -> Ops]
    BY <1>3, GoesOn, OpsAre DEF candidate_is_put
  <2>3. candidates' \in [Profiles -> Cand \cup {None}] /\ reserved' \in [Names -> Profiles \cup {None}]
    <3>1. op[o].p \in Profiles /\ op[o].cand \in Cand
      BY <2>1 DEF Reserving
    <3>2. \/ candidates' = candidates /\ reserved' = reserved
          \/ \E names : /\ candidates' = [candidates EXCEPT ![op[o].p] = op[o].cand]
                        /\ reserved' = [n \in Names |-> IF n \in names THEN op[o].p ELSE reserved[n]]
      BY <1>3 DEF candidate_is_put, put_promotion_candidate, promoted
    <3>3. candidates \in [Profiles -> Cand \cup {None}] /\ reserved \in [Names -> Profiles \cup {None}]
      BY DEF TypeOK
    <3>. QED
      BY <3>1, <3>2, <3>3
  <2>. QED
    BY <1>3, <2>2, <2>3 DEF candidate_is_put, TypeOK, served, world, quiet
<1>. QED
  BY <1>1, <1>2, <1>3 DEF Promote

\* The probe.
LEMMA ProbeSteps ==
  ASSUME TypeOK, NEW o \in Operators, Probe(o)
  PROVE  TypeOK'
<1>0. op[o] \in Ops
  BY DEF TypeOK
<1>a. op[o] \in Probing => /\ op[o].p \in Profiles /\ op[o].i \in Invocations
                           /\ op[o].cand \in Cand /\ op[o].rec \in Shape
  BY DEF Probing
<1>b. \A pc \in ProbePcs : op[o] \in Probing => [op[o] EXCEPT !.pc = pc] \in Probing
  BY DEF Probing
<1>c. \A pc : [op EXCEPT ![o].pc = pc] = [op EXCEPT ![o] = [op[o] EXCEPT !.pc = pc]]
  OBVIOUS
<1>1. ASSUME NEW p \in Profiles, NEW i \in Invocations, probe_promotion_candidate(o, p, i) PROVE TypeOK'
  <2>1. candidates[p] \in Cand /\ records[p].shape \in Shape
    BY <1>1 DEF probe_promotion_candidate, TypeOK, Record
  <2>2. [pc |-> "opening", p |-> p, i |-> i, cand |-> candidates[p], rec |-> records[p].shape] \in Probing
    BY <2>1 DEF Probing, ProbePcs
  <2>3. op' \in [Operators -> Ops]
    BY <1>1, <2>2, GoesOn, OpsAre DEF probe_promotion_candidate
  <2>. QED
    BY <1>1, <2>3 DEF probe_promotion_candidate, TypeOK, promoted, served, world, quiet
<1>2. CASE check_probe_rate_limit(o) \/ check_probe_scope_eligibility(o)
  <2>3. op' \in [Operators -> Ops]
    BY <1>2, GoesOn, OpsAre DEF check_probe_rate_limit, check_probe_scope_eligibility
  <2>. QED
    BY <1>2, <2>3 DEF check_probe_rate_limit, check_probe_scope_eligibility, TypeOK, promoted, served, world, quiet
<1>3. CASE open_probe_hold(o)
  <2>1. op[o] \in Probing
    BY <1>0, <1>3, OpKinds DEF open_probe_hold, ProbePcs
  <2>2. op' \in {[op EXCEPT ![o] = Idle], [op EXCEPT ![o] = [op[o] EXCEPT !.pc = "calling"]]}
    BY <1>3, <1>c DEF open_probe_hold
  <2>3. [op[o] EXCEPT !.pc = "calling"] \in Ops /\ Idle \in Ops
    BY <1>b, <2>1, OpsAre DEF ProbePcs
  <2>4. op' \in [Operators -> Ops]
    BY <2>2, <2>3 DEF TypeOK
  <2>. QED
    BY <1>3, <2>4 DEF open_probe_hold, TypeOK, promoted, served, world, quiet
<1>4. ASSUME NEW out \in call_messages \cup call_responses, probe_sees_nothing(o, out) PROVE TypeOK'
  <2>1. op[o] \in Probing
    BY <1>0, <1>4, OpKinds DEF probe_sees_nothing, ProbePcs
  <2>2. op' \in {[op EXCEPT ![o] = Idle], [op EXCEPT ![o] = [op[o] EXCEPT !.pc = "withdrawing"]]}
    BY <1>4, <1>c DEF probe_sees_nothing, Goto
  <2>3. [op[o] EXCEPT !.pc = "withdrawing"] \in Ops /\ Idle \in Ops
    BY <1>b, <2>1, OpsAre DEF ProbePcs
  <2>4. op' \in [Operators -> Ops]
    BY <2>2, <2>3 DEF TypeOK
  <2>. QED
    BY <1>4, <2>4 DEF probe_sees_nothing, TypeOK, promoted, served, world, quiet
<1>5. ASSUME NEW priced \in BOOLEAN, probe_settles(o, priced) PROVE TypeOK'
  <2>1. op[o] \in Probing
    BY <1>0, <1>5, OpKinds DEF probe_settles, ProbePcs
  <2>2. [op[o] EXCEPT !.pc = "attesting"] \in Ops /\ Idle \in Ops
    BY <1>b, <2>1, OpsAre DEF ProbePcs
  <2>3. \E r \in Ops : Goto(o, r)
    BY <1>5, <2>2 DEF probe_settles
  <2>4. op' \in [Operators -> Ops]
    BY <2>3, GoesOn
  <2>5. [p |-> op[o].p, i |-> op[o].i, cand |-> op[o].cand, rec |-> op[o].rec] \in Paid
    BY <1>a, <2>1 DEF Paid
  <2>6. paid' \subseteq Paid
    BY <1>5, <2>5 DEF probe_settles, TypeOK
  <2>. QED
    BY <1>5, <2>4, <2>6 DEF probe_settles, TypeOK, promoted, served, world, quiet
<1>6. CASE probe_attests(o)
  <2>1. op[o] \in Probing
    BY <1>0, <1>6, OpKinds DEF probe_attests, ProbePcs
  <2>2. Attests(op[o]) \in Verdict
    BY <1>a, <2>1 DEF Attests, Verdict, TypeOK
  <2>3. verdicts' = [verdicts EXCEPT ![op[o].p][op[o].i] = Attests(op[o])]
    BY <1>6 DEF probe_attests, put_probe_verdict
  <2>4. verdicts' \in [Profiles -> [Invocations -> Verdict \cup {None}]]
    BY <1>a, <2>1, <2>2, <2>3 DEF TypeOK
  <2>5. op' \in [Operators -> Ops] /\ now' \in Nat
    BY <1>6, GoesOn, OpsAre DEF probe_attests, tick, TypeOK
  <2>. QED
    BY <1>6, <2>4, <2>5 DEF probe_attests, TypeOK, promoted, served, world, quiet
<1>7. CASE probe_withdraws(o)
  <2>1. op[o] \in Probing
    BY <1>0, <1>7, OpKinds DEF probe_withdraws, ProbePcs
  <2>2. Verified(verdicts[op[o].p][op[o].i]) => verdicts[op[o].p][op[o].i] \in Verdict
    BY <1>a, <2>1 DEF Verified, TypeOK
  <2>3. Verified(verdicts[op[o].p][op[o].i]) => invalidate_reads(op[o].p, op[o].i) \in Writing
    BY <1>a, <2>1, <2>2 DEF invalidate_reads, Writing
  <2>4. \E r \in Ops : Goto(o, r)
    BY <1>7, <2>3, OpsAre DEF probe_withdraws
  <2>5. op' \in [Operators -> Ops]
    BY <2>4, GoesOn
  <2>. QED
    BY <1>7, <2>5 DEF probe_withdraws, TypeOK, promoted, served, world, quiet
<1>8. CASE probe_invalidates(o)
  <2>1. op[o] \in Writing
    BY <1>0, <1>8, OpKinds DEF probe_invalidates
  <2> DEFINE v == [op[o].verdict EXCEPT !.state = "invalidated"]
  <2>2. v \in Verdict
    BY <2>1 DEF Writing, Verdict
  <2>3. verdicts' = [verdicts EXCEPT ![op[o].p][op[o].i] = v]
    BY <1>8 DEF probe_invalidates, invalidate_writes, put_probe_verdict
  <2>4. verdicts' \in [Profiles -> [Invocations -> Verdict \cup {None}]]
    <3> HIDE DEF v
    <3>. QED
      BY <2>1, <2>2, <2>3 DEF TypeOK, Writing
  <2>5. op' \in [Operators -> Ops]
    BY <1>8, GoesOn, OpsAre DEF probe_invalidates
  <2>. QED
    BY <1>8, <2>4, <2>5 DEF probe_invalidates, TypeOK, promoted, served, world, quiet
<1>. QED
  BY <1>1, <1>2, <1>3, <1>4, <1>5, <1>6, <1>7, <1>8 DEF Probe

\* Activation.
LEMMA ActivationSteps ==
  ASSUME TypeOK, OpsRest, NEW o \in Operators, Activate(o)
  PROVE  TypeOK'
<1>0. op[o] \in Ops
  BY DEF TypeOK
<1>1. ASSUME NEW p \in Profiles, NEW i \in Invocations, get_discovery_candidate(o, p, i) PROVE TypeOK'
  <2>1. verdicts[p][i].at \in Nat
    BY <1>1 DEF get_discovery_candidate, TypeOK, Verdict
  <2>2. [pc |-> "activating", p |-> p, i |-> i, seen |-> verdicts[p][i].at] \in Activating
    BY <2>1 DEF Activating
  <2>3. op' \in [Operators -> Ops]
    BY <1>1, <2>2, GoesOn, OpsAre DEF get_discovery_candidate
  <2>. QED
    BY <1>1, <2>3 DEF get_discovery_candidate, TypeOK, promoted, served, world, quiet
<1>2. CASE activate_reads(o)
  <2> DEFINE r == op[o]
             v == verdicts[r.p][r.i]
             next == [pc |-> "checking", p |-> r.p, i |-> r.i, seen |-> r.seen,
                      cand |-> candidates[r.p], verdict |-> v]
  <2>1. r \in Activating /\ candidates[r.p] # None
    BY <1>0, <1>2, OpKinds DEF activate_reads, OpsRest
  <2>2. r.p \in Profiles /\ r.i \in Invocations /\ r.seen \in Nat /\ candidates[r.p] \in Cand
    BY <2>1 DEF Activating, TypeOK
  <2>3. Verified(v) => v \in Verdict
    BY <2>2 DEF Verified, TypeOK
  <2>4. Verified(v) => next \in Checking
    BY <2>2, <2>3 DEF Checking
  <2>5. Goto(o, Idle) \/ (Verified(v) /\ Goto(o, next))
    BY <1>2 DEF activate_reads, verify
  <2>6. \E s \in Ops : Goto(o, s)
    BY <2>4, <2>5, OpsAre
  <2>7. op' \in [Operators -> Ops]
    BY <2>6, GoesOn
  <2>. QED
    BY <1>2, <2>7 DEF activate_reads, TypeOK, promoted, served, world, quiet
<1>3. CASE activate_checks(o)
  <2> DEFINE r == op[o]
             shape == records[r.p].shape
             next == [pc |-> "committing", p |-> r.p, i |-> r.i, seen |-> r.seen,
                      cand |-> r.cand, rec |-> shape]
  <2>1. r \in Checking
    BY <1>0, <1>3, OpKinds DEF activate_checks
  <2>2. Goto(o, Idle) \/ (r.verdict.rec = shape /\ Goto(o, next))
    BY <1>3 DEF activate_checks, check_subject
  <2>3. r.verdict.rec = shape => next \in Committing
    BY <2>1 DEF Checking, Committing, Verdict
  <2>4. \E s \in Ops : Goto(o, s)
    BY <2>2, <2>3, OpsAre
  <2>5. op' \in [Operators -> Ops]
    BY <2>4, GoesOn
  <2>. QED
    BY <1>3, <2>5 DEF activate_checks, TypeOK, promoted, served, world, quiet
<1>4. CASE commit_activation(o)
  <2> DEFINE entry == build_entry(op[o].cand, op[o].rec)
  <2>1. op[o] \in Committing
    BY <1>0, <1>4, OpKinds DEF commit_activation
  <2>2. op[o].p \in Profiles /\ entry \in Entry
    BY <2>1 DEF Committing, build_entry, Entry, Cand, Shape
  <2>3. active' \in {active, [active EXCEPT ![op[o].p] = entry]}
    BY <1>4 DEF commit_activation, served
  <2>4. active' \in [Profiles -> Entry \cup {None}]
    <3> HIDE DEF entry
    <3>. QED
      BY <2>2, <2>3 DEF TypeOK
  <2>5. \E s \in Ops : Goto(o, s)
    BY <1>4, OpsAre DEF commit_activation
  <2>6. op' \in [Operators -> Ops]
    BY <2>5, GoesOn
  <2>. QED
    BY <1>4, <2>4, <2>6 DEF commit_activation, TypeOK, promoted, world, quiet
<1>5. CASE invalidate_composed_registry(o)
  <2>1. op' \in [Operators -> Ops]
    BY <1>5, GoesOn, OpsAre DEF invalidate_composed_registry
  <2>2. WorkerOf[o] \in Workers
    BY DiscoveryAssumption
  <2>3. registry' \in [Workers -> [static : StartingBuilds, entries : [Profiles -> Entry \cup {None}], fresh : BOOLEAN]]
    BY <1>5, <2>2 DEF invalidate_composed_registry, TypeOK
  <2>. QED
    BY <1>5, <2>1, <2>3 DEF invalidate_composed_registry, TypeOK, promoted, served, world
<1>6. CASE operator_dies(o)
  <2>1. op' \in [Operators -> Ops]
    BY <1>6, GoesOn, OpsAre DEF operator_dies
  <2>. QED
    BY <1>6, <2>1 DEF operator_dies, TypeOK, promoted, served, world, quiet
<1>. QED
  BY <1>1, <1>2, <1>3, <1>4, <1>5, <1>6 DEF Activate

(***************************************************************************)
(* Promotions, once made, stay.                                            *)
(***************************************************************************)
PromotionsHold ==
  \A p \in Profiles : candidates[p] # None =>
    \A n \in public_identifiers(p, candidates[p]) : reserved[n] = p

Frozen ==
  /\ \A p \in Profiles : candidates[p] # None => candidates'[p] = candidates[p]
  /\ \A n \in Names : reserved[n] # None => reserved'[n] = reserved[n]
  /\ \A p \in Profiles : records[p] # None => records'[p] # None

\* Of an operator's steps, only the put of a candidate promotes.
LEMMA OnlyPut ==
  ASSUME NEW o \in Operators, Promote(o) \/ Probe(o) \/ Activate(o)
  PROVE  /\ UNCHANGED <<records, ending>>
         /\ candidate_is_put(o) \/ UNCHANGED promoted
<1>1. CASE Promote(o)
  BY <1>1 DEF Promote, get_discovery_record, create_promotion_candidate, candidate_is_put, quiet
<1>2. CASE Probe(o)
  BY <1>2 DEF Probe, probe_promotion_candidate, check_probe_rate_limit, check_probe_scope_eligibility,
              open_probe_hold, probe_sees_nothing, probe_settles, probe_attests, probe_withdraws,
              probe_invalidates, quiet
<1>3. CASE Activate(o)
  BY <1>3 DEF Activate, get_discovery_candidate, activate_reads, activate_checks, commit_activation,
              invalidate_composed_registry, operator_dies, quiet
<1>. QED
  BY <1>1, <1>2, <1>3

\* Nobody else's step does.
LEMMA OnlyPromotionsPromote ==
  ASSUME Sight \/ Cache \/ \E t \in Traffic : Withdraw(t)
  PROVE  UNCHANGED promoted
BY DEF Sight, Cache, Withdraw, profile_moves, run_pass, main_applies, registry_refreshes, registry_is_kept,
       registry_ages, worker_restarts, on_served_traffic_outcome, traffic_invalidates

\* The names of a candidate are put with it, and nobody had one of them.
LEMMA PutReserves ==
  ASSUME TypeOK, NEW o \in Operators, candidate_is_put(o), ~UNCHANGED promoted
  PROVE  \E p \in Profiles, cand \in Cand :
           LET names == public_identifiers(p, cand) IN
           /\ candidates' = [candidates EXCEPT ![p] = cand]
           /\ reserved' = [n \in Names |-> IF n \in names THEN p ELSE reserved[n]]
           /\ names \subseteq Names
           /\ \A n \in names : reserved[n] = None /\ n \notin registry_entries(WorkerOf[o])
<1>1. op[o] \in Reserving
  BY OpKinds DEF candidate_is_put, TypeOK
<1> DEFINE p == op[o].p
           cand == op[o].cand
           names == public_identifiers(p, cand)
<1>2. p \in Profiles /\ cand \in Cand
  BY <1>1 DEF Reserving
<1>3. names \subseteq Names
  BY <1>2 DEF public_identifiers, Names, Cand
<1>4. put_promotion_candidate(WorkerOf[o], p, cand)
  BY DEF candidate_is_put
<1>5. /\ registry_collisions(WorkerOf[o], names) = {} /\ \A n \in names : reserved[n] = None
      /\ candidates' = [candidates EXCEPT ![p] = cand]
      /\ reserved' = [n \in Names |-> IF n \in names THEN p ELSE reserved[n]]
  BY <1>4 DEF put_promotion_candidate, promoted
<1>6. \A n \in names : n \notin registry_entries(WorkerOf[o])
  BY <1>5 DEF registry_collisions
<1>. QED
  BY <1>2, <1>3, <1>5, <1>6

\* A candidate that was put is never replaced, and its names stay reserved.
LEMMA PromotionsFreeze ==
  ASSUME TypeOK, PromotionsHold, Next
  PROVE  Frozen /\ PromotionsHold'
<1>0. \A p \in Profiles : records[p] # None => records'[p] # None
  <2>1. CASE Sight
    BY <2>1 DEF Sight, profile_moves, run_pass, main_applies, TypeOK
  <2>2. CASE Cache \/ \E t \in Traffic : Withdraw(t)
    BY <2>2 DEF Cache, Withdraw, registry_refreshes, registry_is_kept, registry_ages, worker_restarts,
                on_served_traffic_outcome, traffic_invalidates
  <2>. QED
    BY <2>1, <2>2, Steps, OnlyPut
<1>1. CASE UNCHANGED promoted
  BY <1>0, <1>1 DEF promoted, Frozen, PromotionsHold, public_identifiers
<1>2. CASE ~UNCHANGED promoted
  <2>1. PICK o \in Operators : candidate_is_put(o)
    BY <1>2, Steps, OnlyPut, OnlyPromotionsPromote
  <2>2. PICK p \in Profiles, cand \in Cand :
           LET names == public_identifiers(p, cand) IN
           /\ candidates' = [candidates EXCEPT ![p] = cand]
           /\ reserved' = [n \in Names |-> IF n \in names THEN p ELSE reserved[n]]
           /\ names \subseteq Names
           /\ \A n \in names : reserved[n] = None /\ n \notin registry_entries(WorkerOf[o])
    BY <1>2, <2>1, PutReserves
  <2> DEFINE names == public_identifiers(p, cand)
  <2>3. /\ candidates' = [candidates EXCEPT ![p] = cand]
        /\ reserved' = [n \in Names |-> IF n \in names THEN p ELSE reserved[n]]
        /\ names \subseteq Names
        /\ \A n \in names : reserved[n] = None
    BY <2>2
  <2>4. p \in names /\ p \in Names
    BY DEF public_identifiers, Names
  <2>5. candidates[p] = None
    <3>1. candidates[p] # None => reserved[p] = p
      BY DEF PromotionsHold, public_identifiers
    <3>. QED
      BY <2>3, <2>4, <3>1, DiscoveryAssumption
  <2>6. \A q \in Profiles : q # p => candidates'[q] = candidates[q]
    BY <2>3 DEF TypeOK
  <2>7. candidates'[p] = cand
    BY <2>3 DEF TypeOK
  <2>8. \A n \in Names : (n \in names => reserved'[n] = p) /\ (n \notin names => reserved'[n] = reserved[n])
    BY <2>3
  <2>9. Frozen
    <3> HIDE DEF names
    <3>. QED
      BY <1>0, <2>3, <2>5, <2>6, <2>8 DEF Frozen
  <2>10. ASSUME NEW q \in Profiles, candidates'[q] # None, NEW n \in public_identifiers(q, candidates'[q])
         PROVE  reserved'[n] = q
    <3>1. CASE q = p
      BY <2>3, <2>7, <2>8, <2>10, <3>1
    <3>2. CASE q # p
      <4>1. candidates[q] # None /\ n \in public_identifiers(q, candidates[q])
        BY <2>6, <2>10, <3>2
      <4>2. reserved[n] = q /\ n \in Names
        BY <4>1 DEF PromotionsHold, TypeOK, public_identifiers, Names, Cand
      <4>3. n \notin names
        BY <2>3, <4>2, DiscoveryAssumption
      <4>. QED
        BY <2>8, <4>2, <4>3
    <3>. QED
      BY <3>1, <3>2
  <2>. QED
    BY <2>9, <2>10 DEF PromotionsHold, public_identifiers
<1>. QED
  BY <1>1, <1>2

(***************************************************************************)
(* What a request learns in one step, and from whom.                       *)
(***************************************************************************)
Carries(r, s) == r.p = s.p /\ r.i = s.i /\ r.cand = s.cand /\ r.rec = s.rec

\* The next state of operator o, if the step is hers.
Learns(o) ==
  LET r == op[o] s == op'[o] IN
  \/ s.pc \in {"idle", "reserving"}
  \/ s.pc = "promoting" /\ records[s.p] # None
  \/ s.pc = "activating" /\ candidates[s.p] # None
  \/ s.pc = "opening" /\ s.cand.where = s.rec.where
  \/ s.pc \in {"calling", "withdrawing"} /\ r.pc \in {"opening", "calling"} /\ Carries(s, r)
  \/ /\ s.pc = "attesting" /\ r.pc = "calling" /\ Carries(s, r)
     /\ [p |-> r.p, i |-> r.i, cand |-> r.cand, rec |-> r.rec] \in paid'
  \/ s.pc = "writing" /\ verdicts[s.p][s.i] # None /\ s.verdict = verdicts[s.p][s.i]
  \/ s.pc = "checking" /\ r.pc = "activating" /\ s.p = r.p /\ s.cand = candidates[r.p]
  \/ s.pc = "committing" /\ r.pc = "checking" /\ s.p = r.p /\ s.cand = r.cand
  \/ s.pc = "committed" /\ r.pc = "committing" /\ Licenses(r, verdicts[r.p][r.i])

\* A step of a promotion changes that operator's record only, to what it has read.
LEMMA PromotersLearn ==
  ASSUME TypeOK, NEW o \in Operators, Promote(o)
  PROVE  Learns(o) /\ \A x \in Operators : x # o => op'[x] = op[x]
<1>1. \E s : op' = [op EXCEPT ![o] = s] /\ (s = Idle \/ s.pc = "reserving" \/ (s.pc = "promoting" /\ records[s.p] # None))
  BY DEF Promote, get_discovery_record, create_promotion_candidate, candidate_is_put, Goto
<1>. QED
  BY <1>1 DEF TypeOK, Learns, Idle

\* So does a step of a probe.
LEMMA ProbersLearn ==
  ASSUME TypeOK, NEW o \in Operators, Probe(o)
  PROVE  Learns(o) /\ \A x \in Operators : x # o => op'[x] = op[x]
<1> DEFINE r == op[o]
<1>0. r \in Ops /\ (r.pc \in ProbePcs => r \in Probing)
  BY OpKinds DEF TypeOK
<1>1. ASSUME NEW s, op' = [op EXCEPT ![o] = s]
      PROVE  op'[o] = s /\ \A x \in Operators : x # o => op'[x] = op[x]
  BY <1>1 DEF TypeOK
<1>2. ASSUME NEW pc \in {"calling", "attesting", "withdrawing"}, r \in Probing
      PROVE  [r EXCEPT !.pc = pc].pc = pc /\ Carries([r EXCEPT !.pc = pc], r)
  BY <1>2 DEF Probing, Carries
<1>3. \A pc : [op EXCEPT ![o].pc = pc] = [op EXCEPT ![o] = [r EXCEPT !.pc = pc]]
  OBVIOUS
<1>4. ASSUME NEW p \in Profiles, NEW i \in Invocations, probe_promotion_candidate(o, p, i)
      PROVE  Learns(o) /\ \A x \in Operators : x # o => op'[x] = op[x]
  <2> DEFINE s == [pc |-> "opening", p |-> p, i |-> i, cand |-> candidates[p], rec |-> records[p].shape]
  <2>1. op' = [op EXCEPT ![o] = s] /\ candidates[p].where = records[p].shape.where
    BY <1>4 DEF probe_promotion_candidate, Goto, Agree
  <2>2. s.pc = "opening" /\ s.cand.where = s.rec.where
    BY <2>1
  <2>. QED
    <3> HIDE DEF s
    <3>. QED
      BY <1>1, <2>1, <2>2 DEF Learns
<1>5. CASE check_probe_rate_limit(o) \/ check_probe_scope_eligibility(o) \/ probe_attests(o) \/ probe_invalidates(o)
  <2>1. op' = [op EXCEPT ![o] = Idle]
    BY <1>5 DEF check_probe_rate_limit, check_probe_scope_eligibility, probe_attests, probe_invalidates, Goto
  <2>2. op'[o] = Idle /\ \A x \in Operators : x # o => op'[x] = op[x]
    BY <1>1, <2>1
  <2>3. op'[o].pc = "idle"
    BY <2>2 DEF Idle
  <2>. QED
    BY <2>2, <2>3 DEF Learns
<1>6. CASE open_probe_hold(o)
  <2>1. r \in Probing /\ r.pc = "opening"
    BY <1>0, <1>6 DEF open_probe_hold, ProbePcs
  <2>2. op' = [op EXCEPT ![o] = Idle] \/ op' = [op EXCEPT ![o] = [r EXCEPT !.pc = "calling"]]
    BY <1>3, <1>6 DEF open_probe_hold
  <2>3. (op'[o] = Idle \/ op'[o] = [r EXCEPT !.pc = "calling"]) /\ \A x \in Operators : x # o => op'[x] = op[x]
    BY <1>1, <2>2
  <2>a. op'[o] = Idle \/ (op'[o].pc = "calling" /\ Carries(op'[o], r))
    BY <1>2, <2>1, <2>3
  <2>. QED
    BY <2>1, <2>3, <2>a DEF Learns, Idle
<1>7. ASSUME NEW out \in call_messages \cup call_responses, probe_sees_nothing(o, out)
      PROVE  Learns(o) /\ \A x \in Operators : x # o => op'[x] = op[x]
  <2>1. r \in Probing /\ r.pc = "calling"
    BY <1>0, <1>7 DEF probe_sees_nothing, ProbePcs
  <2>2. op' = [op EXCEPT ![o] = Idle] \/ op' = [op EXCEPT ![o] = [r EXCEPT !.pc = "withdrawing"]]
    BY <1>3, <1>7 DEF probe_sees_nothing, Goto
  <2>3. (op'[o] = Idle \/ op'[o] = [r EXCEPT !.pc = "withdrawing"]) /\ \A x \in Operators : x # o => op'[x] = op[x]
    BY <1>1, <2>2
  <2>a. op'[o] = Idle \/ (op'[o].pc = "withdrawing" /\ Carries(op'[o], r))
    BY <1>2, <2>1, <2>3
  <2>. QED
    BY <2>1, <2>3, <2>a DEF Learns, Idle
<1>8. ASSUME NEW priced \in BOOLEAN, probe_settles(o, priced)
      PROVE  Learns(o) /\ \A x \in Operators : x # o => op'[x] = op[x]
  <2>1. r \in Probing /\ r.pc = "calling"
    BY <1>0, <1>8 DEF probe_settles, ProbePcs
  <2>2. op' = [op EXCEPT ![o] = Idle] \/ op' = [op EXCEPT ![o] = [r EXCEPT !.pc = "attesting"]]
    BY <1>3, <1>8 DEF probe_settles, Goto
  <2>3. (op'[o] = Idle \/ op'[o] = [r EXCEPT !.pc = "attesting"]) /\ \A x \in Operators : x # o => op'[x] = op[x]
    BY <1>1, <2>2
  <2>a. op'[o] = Idle \/ (op'[o].pc = "attesting" /\ Carries(op'[o], r))
    BY <1>2, <2>1, <2>3
  <2>4. [p |-> r.p, i |-> r.i, cand |-> r.cand, rec |-> r.rec] \in paid'
    BY <1>8 DEF probe_settles
  <2>. QED
    BY <2>1, <2>3, <2>a, <2>4 DEF Learns, Idle
<1>9. CASE probe_withdraws(o)
  <2>1. r \in Probing
    BY <1>0, <1>9 DEF probe_withdraws, ProbePcs
  <2>2. op' = [op EXCEPT ![o] = Idle]
        \/ (verdicts[r.p][r.i] # None /\ op' = [op EXCEPT ![o] = invalidate_reads(r.p, r.i)])
    BY <1>9 DEF probe_withdraws, Verified, Goto
  <2>3. (op'[o] = Idle \/ (verdicts[r.p][r.i] # None /\ op'[o] = invalidate_reads(r.p, r.i)))
        /\ \A x \in Operators : x # o => op'[x] = op[x]
    BY <1>1, <2>2
  <2>. QED
    BY <2>3 DEF Learns, Idle, invalidate_reads
<1>. QED
  BY <1>4, <1>5, <1>6, <1>7, <1>8, <1>9 DEF Probe

\* So does a step of an activation.
LEMMA ActivatorsLearn ==
  ASSUME TypeOK, NEW o \in Operators, Activate(o)
  PROVE  Learns(o) /\ \A x \in Operators : x # o => op'[x] = op[x]
<1>1. ASSUME NEW s, op' = [op EXCEPT ![o] = s]
      PROVE  op'[o] = s /\ \A x \in Operators : x # o => op'[x] = op[x]
  BY <1>1 DEF TypeOK
<1>2. PICK s : op' = [op EXCEPT ![o] = s] /\
        LET r == op[o] IN
        \/ s = Idle
        \/ s.pc = "activating" /\ candidates[s.p] # None
        \/ s.pc = "checking" /\ r.pc = "activating" /\ s.p = r.p /\ s.cand = candidates[r.p]
        \/ s.pc = "committing" /\ r.pc = "checking" /\ s.p = r.p /\ s.cand = r.cand
        \/ s.pc = "committed" /\ r.pc = "committing" /\ Licenses(r, verdicts[r.p][r.i])
  <2>1. CASE \E p \in Profiles, i \in Invocations : get_discovery_candidate(o, p, i)
    BY <2>1 DEF get_discovery_candidate, Goto
  <2>2. CASE activate_reads(o)
    BY <2>2 DEF activate_reads, Goto
  <2>3. CASE activate_checks(o)
    BY <2>3 DEF activate_checks, Goto
  <2>4. CASE commit_activation(o)
    BY <2>4 DEF commit_activation, Goto
  <2>5. CASE invalidate_composed_registry(o) \/ operator_dies(o)
    BY <2>5 DEF invalidate_composed_registry, operator_dies, Goto
  <2>. QED
    BY <2>1, <2>2, <2>3, <2>4, <2>5 DEF Activate
<1>3. op'[o] = s /\ \A x \in Operators : x # o => op'[x] = op[x]
  BY <1>1, <1>2
<1>. QED
  BY <1>2, <1>3 DEF Learns, Idle

\* Whoever takes the step, an operation stays or has learnt from what is stored.
LEMMA EveryoneLearns ==
  ASSUME TypeOK, Next, NEW x \in Operators
  PROVE  op'[x] = op[x] \/ Learns(x)
<1>1. CASE Sight \/ Cache \/ \E t \in Traffic : Withdraw(t)
  BY <1>1 DEF Sight, Cache, Withdraw, profile_moves, run_pass, main_applies, registry_refreshes, registry_is_kept,
       registry_ages, worker_restarts, on_served_traffic_outcome, traffic_invalidates
<1>. QED
  BY <1>1, Steps, PromotersLearn, ProbersLearn, ActivatorsLearn

(***************************************************************************)
(* What a step does to each table.                                         *)
(***************************************************************************)
LEMMA VerdictMoves ==
  ASSUME TypeOK, Next, verdicts' # verdicts
  PROVE  \E p \in Profiles, i \in Invocations, v \in Verdict :
           /\ verdicts' = [verdicts EXCEPT ![p][i] = v]
           /\ \/ \E o \in Operators : /\ op[o].pc = "attesting" /\ op[o].p = p
                                      /\ v.cand = op[o].cand /\ v.rec = op[o].rec
              \/ \E o \in Operators : /\ op[o].pc = "writing" /\ op[o].p = p
                                      /\ v.cand = op[o].verdict.cand /\ v.rec = op[o].verdict.rec
              \/ \E t \in Traffic : /\ ending[t].pc = "writing" /\ ending[t].p = p
                                    /\ v.cand = ending[t].verdict.cand /\ v.rec = ending[t].verdict.rec
<1>1. ~Sight /\ ~Cache /\ (\A o \in Operators : ~Promote(o) /\ ~Activate(o))
  BY DEF Sight, Cache, Promote, Activate, profile_moves, run_pass, main_applies, registry_refreshes,
         registry_is_kept, registry_ages, worker_restarts, get_discovery_record, create_promotion_candidate,
         candidate_is_put, get_discovery_candidate, activate_reads, activate_checks, commit_activation,
         invalidate_composed_registry, operator_dies
<1>2. (\E o \in Operators : probe_attests(o) \/ probe_invalidates(o)) \/ (\E t \in Traffic : traffic_invalidates(t))
  BY <1>1, Steps DEF Probe, Withdraw, probe_promotion_candidate, check_probe_rate_limit,
     check_probe_scope_eligibility, open_probe_hold, probe_sees_nothing, probe_settles, probe_withdraws,
     on_served_traffic_outcome
<1>3. CASE \E o \in Operators : probe_attests(o)
  <2>1. PICK o \in Operators : probe_attests(o)
    BY <1>3
  <2>2. op[o] \in Probing /\ op[o].pc = "attesting"
    BY <2>1, OpKinds DEF probe_attests, ProbePcs, TypeOK
  <2> DEFINE v == Attests(op[o])
  <2>3. /\ v \in Verdict /\ v.cand = op[o].cand /\ v.rec = op[o].rec
        /\ op[o].p \in Profiles /\ op[o].i \in Invocations
    BY <2>2 DEF Attests, Verdict, Probing, TypeOK
  <2>4. verdicts' = [verdicts EXCEPT ![op[o].p][op[o].i] = v]
    BY <2>1 DEF probe_attests, put_probe_verdict
  <2>. QED
    <3> HIDE DEF v
    <3>. QED
      BY <2>2, <2>3, <2>4
<1>4. ASSUME NEW r \in Writing
      PROVE  /\ r.p \in Profiles /\ r.i \in Invocations
             /\ \E v \in Verdict : /\ v = [r.verdict EXCEPT !.state = "invalidated"]
                                   /\ v.cand = r.verdict.cand /\ v.rec = r.verdict.rec
  <2> DEFINE v == [r.verdict EXCEPT !.state = "invalidated"]
  <2>1. v \in Verdict /\ v.cand = r.verdict.cand /\ v.rec = r.verdict.rec
    BY DEF Writing, Verdict
  <2>2. r.p \in Profiles /\ r.i \in Invocations
    BY DEF Writing
  <2>3. \E u \in Verdict : u = v /\ u.cand = r.verdict.cand /\ u.rec = r.verdict.rec
    <3> HIDE DEF v
    <3>. QED
      BY <2>1
  <2>. QED
    BY <2>2, <2>3
<1>5. CASE \E o \in Operators : probe_invalidates(o)
  <2>1. PICK o \in Operators : probe_invalidates(o)
    BY <1>5
  <2>2. op[o] \in Writing /\ op[o].pc = "writing"
    BY <2>1, OpKinds DEF probe_invalidates, TypeOK
  <2>3. PICK v \in Verdict : /\ v = [op[o].verdict EXCEPT !.state = "invalidated"]
                              /\ v.cand = op[o].verdict.cand /\ v.rec = op[o].verdict.rec
    BY <1>4, <2>2
  <2>4. verdicts' = [verdicts EXCEPT ![op[o].p][op[o].i] = v]
    BY <2>1, <2>3 DEF probe_invalidates, invalidate_writes, put_probe_verdict
  <2>5. op[o].p \in Profiles /\ op[o].i \in Invocations
    BY <1>4, <2>2
  <2>6. v.cand = op[o].verdict.cand /\ v.rec = op[o].verdict.rec
    BY <2>3
  <2>. QED
    BY <2>2, <2>4, <2>5, <2>6
<1>6. CASE \E t \in Traffic : traffic_invalidates(t)
  <2>1. PICK t \in Traffic : traffic_invalidates(t)
    BY <1>6
  <2>2. ending[t] \in Writing /\ ending[t].pc = "writing"
    BY <2>1 DEF traffic_invalidates, TypeOK, Plain
  <2>3. PICK v \in Verdict : /\ v = [ending[t].verdict EXCEPT !.state = "invalidated"]
                              /\ v.cand = ending[t].verdict.cand /\ v.rec = ending[t].verdict.rec
    BY <1>4, <2>2
  <2>4. verdicts' = [verdicts EXCEPT ![ending[t].p][ending[t].i] = v]
    BY <2>1, <2>3 DEF traffic_invalidates, invalidate_writes, put_probe_verdict
  <2>5. ending[t].p \in Profiles /\ ending[t].i \in Invocations
    BY <1>4, <2>2
  <2>6. v.cand = ending[t].verdict.cand /\ v.rec = ending[t].verdict.rec
    BY <2>3
  <2>. QED
    BY <2>2, <2>4, <2>5, <2>6
<1>. QED
  BY <1>2, <1>3, <1>5, <1>6

\* Only the call of a probe is charged, for the candidate and the record it was read with.
LEMMA PaidMoves ==
  ASSUME TypeOK, Next, paid' # paid
  PROVE  \E o \in Operators : op[o].pc = "calling" /\
           paid' = paid \cup {[p |-> op[o].p, i |-> op[o].i, cand |-> op[o].cand, rec |-> op[o].rec]}
<1>1. ~Sight /\ ~Cache /\ (\A o \in Operators : ~Promote(o) /\ ~Activate(o)) /\ (\A t \in Traffic : ~Withdraw(t))
  BY DEF Sight, Cache, Promote, Activate, Withdraw, profile_moves, run_pass, main_applies, registry_refreshes,
         registry_is_kept, registry_ages, worker_restarts, get_discovery_record, create_promotion_candidate,
         candidate_is_put, get_discovery_candidate, activate_reads, activate_checks, commit_activation,
         invalidate_composed_registry, operator_dies, on_served_traffic_outcome, traffic_invalidates
<1>. QED
  BY <1>1, Steps DEF Probe, probe_promotion_candidate, check_probe_rate_limit,
     check_probe_scope_eligibility, open_probe_hold, probe_sees_nothing, probe_settles, probe_withdraws,
     probe_attests, probe_invalidates

\* An entry is activated only by a commit, of what a standing verdict licenses.
LEMMA ActiveMoves ==
  ASSUME TypeOK, Next, active' # active
  PROVE  \E o \in Operators :
           /\ op[o] \in Committing /\ Licenses(op[o], verdicts[op[o].p][op[o].i])
           /\ active' = [active EXCEPT ![op[o].p] = build_entry(op[o].cand, op[o].rec)]
<1>1. ~Sight /\ ~Cache /\ (\A o \in Operators : ~Promote(o) /\ ~Probe(o)) /\ (\A t \in Traffic : ~Withdraw(t))
  BY DEF Sight, Cache, Promote, Probe, Withdraw, served, profile_moves, run_pass, main_applies, registry_refreshes,
         registry_is_kept, registry_ages, worker_restarts, get_discovery_record, create_promotion_candidate,
         candidate_is_put, probe_promotion_candidate, check_probe_rate_limit,
         check_probe_scope_eligibility, open_probe_hold, probe_sees_nothing, probe_settles, probe_withdraws,
         probe_attests, probe_invalidates, on_served_traffic_outcome, traffic_invalidates
<1>2. PICK o \in Operators : Activate(o)
  BY <1>1, Steps
<1>3. commit_activation(o)
  BY <1>2 DEF Activate, served, get_discovery_candidate, activate_reads, activate_checks,
              invalidate_composed_registry, operator_dies
<1>4. op[o] \in Committing
  BY <1>3, OpKinds DEF commit_activation, TypeOK
<1>. QED
  BY <1>3, <1>4 DEF commit_activation, served

\* A withdrawal writes for a verdict that it has just read, or is over.
LEMMA EndingMoves ==
  ASSUME TypeOK, Next, NEW t \in Traffic, ending'[t] # ending[t]
  PROVE  \/ ending'[t].pc = "idle"
         \/ LET r == ending'[t] IN
            /\ r \in Writing /\ verdicts[r.p][r.i] # None /\ r.verdict = verdicts[r.p][r.i]
            /\ UNCHANGED verdicts
<1>1. ~Sight /\ ~Cache /\ (\A o \in Operators : ~Promote(o) /\ ~Probe(o) /\ ~Activate(o))
  BY OnlyPut DEF Sight, Cache, profile_moves, run_pass, main_applies, registry_refreshes,
         registry_is_kept, registry_ages, worker_restarts
<1>2. PICK u \in Traffic : Withdraw(u)
  BY <1>1, Steps
<1>3. CASE traffic_invalidates(u)
  BY <1>3 DEF traffic_invalidates, TypeOK, Idle
<1>4. CASE \E p \in Profiles, i \in Invocations : on_served_traffic_outcome(u, p, i)
  <2>1. PICK p \in Profiles, i \in Invocations : on_served_traffic_outcome(u, p, i)
    BY <1>4
  <2>2. ending' = [ending EXCEPT ![u] = invalidate_reads(p, i)] /\ verdicts[p][i] # None /\ UNCHANGED verdicts
    BY <2>1 DEF on_served_traffic_outcome, Verified
  <2>3. verdicts[p][i] \in Verdict
    BY <2>2 DEF TypeOK
  <2>4. ending'[t] = invalidate_reads(p, i)
    BY <2>2 DEF TypeOK
  <2>. QED
    BY <2>2, <2>3, <2>4 DEF invalidate_reads, Writing
<1>. QED
  BY <1>2, <1>3, <1>4 DEF Withdraw

\* A worker's entries are those it had, the active ones, or none.
LEMMA RegistryMoves ==
  ASSUME TypeOK, Next, NEW w \in Workers
  PROVE  registry'[w].entries \in {registry[w].entries, active, Entries}
<1>1. CASE Cache
  <2>1. PICK v \in Workers :
          registry_refreshes(v) \/ registry_is_kept(v) \/ registry_ages(v) \/ worker_restarts(v)
    BY <1>1 DEF Cache
  <2>2. CASE registry_refreshes(v)
    BY <2>2 DEF registry_refreshes, refresh, TypeOK
  <2>3. CASE registry_is_kept(v) \/ registry_ages(v)
    BY <2>3 DEF registry_is_kept, registry_ages, TypeOK
  <2>4. CASE worker_restarts(v)
    BY <2>4 DEF worker_restarts, TypeOK
  <2>. QED
    BY <2>1, <2>2, <2>3, <2>4
<1>2. CASE \E o \in Operators : invalidate_composed_registry(o)
  BY <1>2 DEF invalidate_composed_registry, TypeOK
<1>3. CASE ~Cache /\ \A o \in Operators : ~invalidate_composed_registry(o)
  <2>1. CASE Sight \/ \E t \in Traffic : Withdraw(t)
    BY <2>1 DEF Sight, Withdraw, profile_moves, run_pass, main_applies, on_served_traffic_outcome, traffic_invalidates
  <2>2. ASSUME NEW o \in Operators, Promote(o) PROVE UNCHANGED registry
    BY <2>2 DEF Promote, get_discovery_record, create_promotion_candidate, candidate_is_put, quiet
  <2>3. ASSUME NEW o \in Operators, Probe(o) PROVE UNCHANGED registry
    BY <2>3 DEF Probe, probe_promotion_candidate, check_probe_rate_limit, check_probe_scope_eligibility,
              open_probe_hold, probe_sees_nothing, probe_settles, probe_attests, probe_withdraws,
              probe_invalidates, quiet
  <2>4. ASSUME NEW o \in Operators, Activate(o) PROVE UNCHANGED registry
    BY <1>3, <2>4 DEF Activate, get_discovery_candidate, activate_reads, activate_checks, commit_activation,
              operator_dies, quiet
  <2>. QED
    BY <1>3, <2>1, <2>2, <2>3, <2>4, Steps
<1>. QED
  BY <1>1, <1>2, <1>3

(***************************************************************************)
(* Types, and what an operator starts from.                                *)
(***************************************************************************)
Rest == TypeOK /\ OpsRest /\ PromotionsHold

\* The types, and what a put candidate keeps, are inductive.
LEMMA RestInductive ==
  ASSUME Rest, [Next]_vars
  PROVE  Rest'
<1>1. CASE Next
  <2>1. TypeOK'
    BY <1>1, Steps, PassSteps, CacheSteps, TrafficSteps, PromotionSteps, ProbeSteps, ActivationSteps DEF Rest
  <2>2. Frozen /\ PromotionsHold'
    BY <1>1, PromotionsFreeze DEF Rest
  <2>3. ASSUME NEW x \in Operators
        PROVE  /\ op'[x].pc = "promoting" => records'[op'[x].p] # None
               /\ op'[x].pc = "activating" => candidates'[op'[x].p] # None
    <3>1. op'[x] \in Ops
      BY <2>1 DEF TypeOK
    <3>2. op'[x].pc \in {"promoting", "activating"} => op'[x].p \in Profiles
      BY <3>1, OpKinds DEF Promoting, Activating
    <3>3. /\ op'[x].pc = "promoting" => records[op'[x].p] # None
          /\ op'[x].pc = "activating" => candidates[op'[x].p] # None
      BY <1>1, EveryoneLearns DEF Rest, OpsRest, Learns
    <3>. QED
      BY <2>2, <3>2, <3>3 DEF Frozen
  <2>. QED
    BY <2>1, <2>2, <2>3 DEF Rest, OpsRest
<1>2. CASE UNCHANGED vars
  BY <1>2 DEF vars, Rest, TypeOK, OpsRest, PromotionsHold, public_identifiers
<1>. QED
  BY <1>1, <1>2

\* They hold for good.
LEMMA RestAlways == Spec => []Rest
<1>1. Init => Rest
  BY InitType DEF Rest, PromotionsHold, Init, Entries
<1>. QED
  BY <1>1, RestInductive, PTL DEF Spec

(***************************************************************************)
(* Somebody paid for it: a probe of this candidate at this observation was *)
(* charged.  Every verdict, standing or on its way back to the store with  *)
(* another state, speaks of one.                                           *)
(***************************************************************************)
Tried(charged, p, cand, rec) == \E s \in charged : s.p = p /\ s.cand = cand /\ s.rec = rec

PaidInv ==
  /\ \A s \in paid : s.cand.where = s.rec.where
  /\ \A o \in Operators :
       /\ op[o].pc \in {"opening", "calling"} => op[o].cand.where = op[o].rec.where
       /\ op[o].pc = "attesting" => Tried(paid, op[o].p, op[o].cand, op[o].rec)
       /\ op[o].pc = "writing" => Tried(paid, op[o].p, op[o].verdict.cand, op[o].verdict.rec)
  /\ \A t \in Traffic :
       ending[t].pc = "writing" => Tried(paid, ending[t].p, ending[t].verdict.cand, ending[t].verdict.rec)
  /\ \A p \in Profiles, i \in Invocations :
       verdicts[p][i] # None => Tried(paid, p, verdicts[p][i].cand, verdicts[p][i].rec)
  /\ \A p \in Profiles : active[p] # None =>
       \E s \in paid : s.p = p /\ active[p] = build_entry(s.cand, s.rec)

\* Every step keeps a charged probe behind every verdict and entry.
LEMMA PaidInductive ==
  ASSUME Rest, Rest', PaidInv, Next
  PROVE  PaidInv'
<1>0. TypeOK
  BY DEF Rest
<1>1. paid \subseteq paid'
  BY <1>0, PaidMoves
<1>2. \A p, cand, rec : Tried(paid, p, cand, rec) => Tried(paid', p, cand, rec)
  BY <1>1 DEF Tried
<1>3. \A s \in paid' : s.cand.where = s.rec.where
  BY <1>0, PaidMoves DEF PaidInv
<1>4. ASSUME NEW o \in Operators
      PROVE  /\ op'[o].pc \in {"opening", "calling"} => op'[o].cand.where = op'[o].rec.where
             /\ op'[o].pc = "attesting" => Tried(paid', op'[o].p, op'[o].cand, op'[o].rec)
             /\ op'[o].pc = "writing" => Tried(paid', op'[o].p, op'[o].verdict.cand, op'[o].verdict.rec)
  <2>1. CASE op'[o] = op[o]
    BY <1>2, <2>1 DEF PaidInv
  <2>2. CASE Learns(o)
    <3>1. op'[o].pc \in {"opening", "calling"} => op'[o].cand.where = op'[o].rec.where
      BY <2>2 DEF Learns, Carries, PaidInv
    <3>2. op'[o].pc = "attesting" => Tried(paid', op'[o].p, op'[o].cand, op'[o].rec)
      <4>1. SUFFICES ASSUME op'[o].pc = "attesting" PROVE Tried(paid', op'[o].p, op'[o].cand, op'[o].rec)
        OBVIOUS
      <4>2. Carries(op'[o], op[o]) /\ [p |-> op[o].p, i |-> op[o].i, cand |-> op[o].cand, rec |-> op[o].rec] \in paid'
        BY <2>2, <4>1 DEF Learns
      <4>. QED
        BY <4>2 DEF Carries, Tried
    <3>3. op'[o].pc = "writing" => Tried(paid', op'[o].p, op'[o].verdict.cand, op'[o].verdict.rec)
      <4>1. SUFFICES ASSUME op'[o].pc = "writing"
                     PROVE  Tried(paid', op'[o].p, op'[o].verdict.cand, op'[o].verdict.rec)
        OBVIOUS
      <4>2. op'[o] \in Writing
        BY <4>1, OpKinds DEF Rest, TypeOK
      <4>3. op'[o].p \in Profiles /\ op'[o].i \in Invocations
        BY <4>2 DEF Writing
      <4>4. verdicts[op'[o].p][op'[o].i] # None /\ op'[o].verdict = verdicts[op'[o].p][op'[o].i]
        BY <2>2, <4>1 DEF Learns
      <4>. QED
        BY <1>2, <4>3, <4>4 DEF PaidInv
    <3>. QED
      BY <3>1, <3>2, <3>3
  <2>. QED
    BY <1>0, <2>1, <2>2, EveryoneLearns
<1>5. ASSUME NEW t \in Traffic, ending'[t].pc = "writing"
      PROVE  Tried(paid', ending'[t].p, ending'[t].verdict.cand, ending'[t].verdict.rec)
  <2>1. CASE ending'[t] = ending[t]
    BY <1>2, <1>5, <2>1 DEF PaidInv
  <2>2. CASE ending'[t] # ending[t]
    <3>1. LET r == ending'[t] IN r \in Writing /\ verdicts[r.p][r.i] # None /\ r.verdict = verdicts[r.p][r.i]
      BY <1>0, <1>5, <2>2, EndingMoves
    <3>. QED
      BY <1>2, <3>1 DEF PaidInv, Writing
  <2>. QED
    BY <2>1, <2>2
<1>6. ASSUME NEW p \in Profiles, NEW i \in Invocations, verdicts'[p][i] # None
      PROVE  Tried(paid', p, verdicts'[p][i].cand, verdicts'[p][i].rec)
  <2>1. CASE verdicts'[p][i] = verdicts[p][i]
    BY <1>2, <1>6, <2>1 DEF PaidInv
  <2>2. CASE verdicts'[p][i] # verdicts[p][i]
    <3>1. PICK q \in Profiles, j \in Invocations, v \in Verdict :
           /\ verdicts' = [verdicts EXCEPT ![q][j] = v]
           /\ \/ \E o \in Operators : /\ op[o].pc = "attesting" /\ op[o].p = q
                                      /\ v.cand = op[o].cand /\ v.rec = op[o].rec
              \/ \E o \in Operators : /\ op[o].pc = "writing" /\ op[o].p = q
                                      /\ v.cand = op[o].verdict.cand /\ v.rec = op[o].verdict.rec
              \/ \E t \in Traffic : /\ ending[t].pc = "writing" /\ ending[t].p = q
                                    /\ v.cand = ending[t].verdict.cand /\ v.rec = ending[t].verdict.rec
      BY <1>0, <2>2, VerdictMoves
    <3>2. q = p /\ j = i /\ verdicts'[p][i] = v
      BY <1>0, <2>2, <3>1 DEF TypeOK
    <3>3. Tried(paid, q, v.cand, v.rec)
      BY <3>1 DEF PaidInv
    <3>. QED
      BY <1>2, <3>2, <3>3
  <2>. QED
    BY <2>1, <2>2
<1>7. ASSUME NEW p \in Profiles, active'[p] # None
      PROVE  \E s \in paid' : s.p = p /\ active'[p] = build_entry(s.cand, s.rec)
  <2>1. CASE active'[p] = active[p]
    BY <1>1, <1>7, <2>1 DEF PaidInv
  <2>2. CASE active'[p] # active[p]
    <3>1. PICK o \in Operators :
           /\ op[o] \in Committing /\ Licenses(op[o], verdicts[op[o].p][op[o].i])
           /\ active' = [active EXCEPT ![op[o].p] = build_entry(op[o].cand, op[o].rec)]
      BY <1>0, <2>2, ActiveMoves
    <3>2. op[o].p = p /\ active'[p] = build_entry(op[o].cand, op[o].rec)
      BY <1>0, <2>2, <3>1 DEF TypeOK
    <3>3. op[o].i \in Invocations
      BY <3>1 DEF Committing
    <3>4. Tried(paid, p, op[o].cand, op[o].rec)
      BY <3>1, <3>2, <3>3 DEF Licenses, Verified, PaidInv
    <3>. QED
      BY <1>1, <3>2, <3>4 DEF Tried
  <2>. QED
    BY <2>1, <2>2
<1>. QED
  BY <1>3, <1>4, <1>5, <1>6, <1>7 DEF PaidInv

\* What is served is what somebody paid to try (create_promotion_candidate, probe, commit_activation).
THEOREM WhatIsServedWasPaidFor == Spec => []ServedAsVerified
<1>1. Init => PaidInv
  BY DEF Init, PaidInv, Idle, Entries
<1>2. PaidInv /\ UNCHANGED vars => PaidInv'
  BY DEF vars, PaidInv
<1>3. PaidInv => ServedAsVerified
  BY DEF PaidInv, ServedAsVerified
<1>. QED
  BY <1>1, <1>2, <1>3, RestAlways, PaidInductive, PTL DEF Spec

\* An activation commits only under the verdict that its operator saw, still standing (commit_activation).
THEOREM WithdrawnStaysOut == Spec => WithdrawnIsNotActivated
<1>1. ASSUME Rest, Next, NEW o \in Operators, op[o].pc = "committing", op'[o].pc = "committed"
      PROVE  verdicts[op[o].p][op[o].i].state = "verified" /\ verdicts[op[o].p][op[o].i].at = op[o].seen
  <2>1. Learns(o)
    BY <1>1, EveryoneLearns DEF Rest
  <2>. QED
    BY <1>1, <2>1 DEF Learns, Licenses, Verified
<1>2. Rest /\ [Next]_vars =>
        [\A o \in Operators : (op[o].pc = "committing" /\ op'[o].pc = "committed") =>
           LET v == verdicts[op[o].p][op[o].i] IN v.state = "verified" /\ v.at = op[o].seen]_vars
  BY <1>1
<1>. QED
  BY <1>2, RestAlways, PTL DEF Spec, WithdrawnIsNotActivated

(***************************************************************************)
(* Names.  Deployments that bring other names into the code's registry are *)
(* left out: a name of theirs may be an activated one.                     *)
(***************************************************************************)
BuildsAgree ==
  \A b, c \in StartingBuilds : \A e \in b : \E f \in c : f.id = e.id /\ entry_names(f) = entry_names(e)

StaticNames == UNION {UNION {entry_names(e) : e \in b} : b \in StartingBuilds}

\* Whoever carries a name of p in a cache, a table or a request has it from the candidate of p.
Derives(p, entry) == candidates[p] # None /\ entry.aliases = candidates[p].aliases

NameInv ==
  /\ \A p \in Profiles : candidates[p] # None => public_identifiers(p, candidates[p]) \cap StaticNames = {}
  /\ \A o \in Operators : op[o].pc \in {"checking", "committing"} =>
       candidates[op[o].p] # None /\ op[o].cand = candidates[op[o].p]
  /\ \A p \in Profiles : active[p] # None => Derives(p, active[p])
  /\ \A w \in Workers, p \in Profiles : registry[w].entries[p] # None => Derives(p, registry[w].entries[p])

\* If the builds agree, entries of theirs that share a name have one id.
LEMMA OneStaticEntry ==
  ASSUME BuildsAgree, NEW b \in StartingBuilds, NEW c \in StartingBuilds, NEW e \in b, NEW f \in c,
         NEW n, n \in entry_names(e), n \in entry_names(f)
  PROVE  e.id = f.id
<1>1. PICK g \in c : g.id = e.id /\ entry_names(g) = entry_names(e)
  BY DEF BuildsAgree
<1>2. g # f => entry_names(g) \cap entry_names(f) = {}
  BY DEF StartingBuilds, load_registry
<1>. QED
  BY <1>1, <1>2

\* So every worker's own registry has the names of every build.
LEMMA StaticEverywhere ==
  ASSUME BuildsAgree, TypeOK, NEW w \in Workers
  PROVE  StaticNames \subseteq registry_entries(w)
<1>1. registry[w].static \in StartingBuilds
  BY DEF TypeOK
<1>2. ASSUME NEW n \in StaticNames PROVE n \in registry_entries(w)
  <2>1. PICK b \in StartingBuilds : \E e \in b : n \in entry_names(e)
    BY DEF StaticNames
  <2>2. PICK e \in b : n \in entry_names(e)
    BY <2>1
  <2>3. \E f \in registry[w].static : entry_names(f) = entry_names(e)
    BY <1>1, <2>2 DEF BuildsAgree
  <2>. QED
    BY <2>2, <2>3 DEF registry_entries
<1>. QED
  BY <1>2

\* Every step keeps what is active, cached or in flight under its reserved names.
LEMMA NamesInductive ==
  ASSUME BuildsAgree, Rest, Rest', NameInv, Next
  PROVE  NameInv'
<1>0. TypeOK /\ PromotionsHold
  BY DEF Rest
<1>1. Frozen
  BY <1>0, PromotionsFreeze
<1>2. ASSUME NEW p \in Profiles, NEW entry, Derives(p, entry)
      PROVE  candidates'[p] # None /\ entry.aliases = candidates'[p].aliases
  BY <1>1, <1>2 DEF Derives, Frozen
<1>3. ASSUME NEW q \in Profiles, candidates'[q] # None
      PROVE  public_identifiers(q, candidates'[q]) \cap StaticNames = {}
  <2>1. CASE candidates'[q] = candidates[q]
    BY <1>3, <2>1 DEF NameInv
  <2>2. CASE candidates'[q] # candidates[q]
    <3>1. PICK o \in Operators : candidate_is_put(o)
      BY <2>2, Steps, OnlyPut, OnlyPromotionsPromote DEF promoted
    <3>2. PICK p \in Profiles, cand \in Cand :
            LET names == public_identifiers(p, cand) IN
            /\ candidates' = [candidates EXCEPT ![p] = cand]
            /\ reserved' = [n \in Names |-> IF n \in names THEN p ELSE reserved[n]]
            /\ names \subseteq Names
            /\ \A n \in names : reserved[n] = None /\ n \notin registry_entries(WorkerOf[o])
      BY <1>0, <2>2, <3>1, PutReserves DEF promoted
    <3>3. p = q /\ candidates'[q] = cand
      BY <1>0, <2>2, <3>2 DEF TypeOK
    <3>4. WorkerOf[o] \in Workers
      BY DiscoveryAssumption
    <3>. QED
      BY <1>0, <3>2, <3>3, <3>4, StaticEverywhere
  <2>. QED
    BY <2>1, <2>2
<1>4. ASSUME NEW o \in Operators, op'[o].pc \in {"checking", "committing"}
      PROVE  candidates'[op'[o].p] # None /\ op'[o].cand = candidates'[op'[o].p]
  <2>1. op'[o].p \in Profiles
    BY <1>4, OpKinds DEF Rest, TypeOK, Checking, Committing
  <2>2. candidates[op'[o].p] # None /\ op'[o].cand = candidates[op'[o].p]
    <3>1. CASE op'[o] = op[o]
      BY <1>4, <3>1 DEF NameInv
    <3>2. CASE Learns(o)
      BY <1>4, <3>2 DEF NameInv, Learns, Rest, OpsRest
    <3>. QED
      BY <1>0, <3>1, <3>2, EveryoneLearns
  <2>. QED
    BY <1>1, <2>1, <2>2 DEF Frozen
<1>5. ASSUME NEW p \in Profiles, active'[p] # None
      PROVE  candidates'[p] # None /\ active'[p].aliases = candidates'[p].aliases
  <2>1. CASE active'[p] = active[p]
    BY <1>1, <1>5, <2>1 DEF NameInv, Derives, Frozen
  <2>2. CASE active'[p] # active[p]
    <3>1. PICK o \in Operators :
           /\ op[o] \in Committing /\ Licenses(op[o], verdicts[op[o].p][op[o].i])
           /\ active' = [active EXCEPT ![op[o].p] = build_entry(op[o].cand, op[o].rec)]
      BY <1>0, <2>2, ActiveMoves
    <3>2. op[o].p = p /\ active'[p] = build_entry(op[o].cand, op[o].rec) /\ op[o].pc = "committing"
      BY <1>0, <2>2, <3>1 DEF TypeOK, Committing
    <3>3. candidates[p] # None /\ op[o].cand = candidates[p]
      BY <3>2 DEF NameInv
    <3>. QED
      BY <1>1, <3>2, <3>3 DEF Frozen, build_entry
  <2>. QED
    BY <2>1, <2>2
<1>6. ASSUME NEW w \in Workers, NEW p \in Profiles, registry'[w].entries[p] # None
      PROVE  Derives(p, registry'[w].entries[p])
  <2>1. registry'[w].entries \in {registry[w].entries, active, Entries}
    BY <1>0, RegistryMoves
  <2>. QED
    BY <1>6, <2>1 DEF NameInv, Entries
<1>. QED
  BY <1>2, <1>3, <1>4, <1>5, <1>6 DEF NameInv, Derives

\* The names of p's entries, wherever they are cached, are reserved for p and are no names of the code's.
NamedAreReserved ==
  \A w \in Workers, n \in Names : \A p \in Named(w, n) :
    p \in Profiles /\ reserved[n] = p /\ n \notin StaticNames

\* An entry found under a name is of the profile that the name is reserved for, and no build has that name.
LEMMA CachedNames == Rest /\ NameInv => NamedAreReserved
<1> SUFFICES ASSUME Rest, NameInv, NEW w \in Workers, NEW n \in Names, NEW p \in Named(w, n)
             PROVE  p \in Profiles /\ reserved[n] = p /\ n \notin StaticNames
  BY DEF NamedAreReserved
<1>1. p \in Profiles /\ registry[w].entries[p] # None /\ n \in public_identifiers(p, registry[w].entries[p])
  BY DEF Named
<1>2. candidates[p] # None /\ n \in public_identifiers(p, candidates[p])
  BY <1>1 DEF NameInv, Derives, public_identifiers
<1>. QED
  BY <1>1, <1>2 DEF Rest, PromotionsHold, NameInv

\* What a name resolves to.
Resolves ==
  \A w \in Workers, n \in Names : resolve_model(w, n) # None =>
    \/ resolve_model(w, n) \in Named(w, n)
    \/ /\ Named(w, n) = {}
       /\ \E e \in registry[w].static : n \in entry_names(e) /\ resolve_model(w, n) = e.id

\* A name resolves to an entry that is cached under it, or if there is none to the build's.
LEMMA ResolvedNames == Resolves
<1> SUFFICES ASSUME NEW w \in Workers, NEW n \in Names, resolve_model(w, n) # None
             PROVE  \/ resolve_model(w, n) \in Named(w, n)
                    \/ /\ Named(w, n) = {}
                       /\ \E e \in registry[w].static : n \in entry_names(e) /\ resolve_model(w, n) = e.id
  BY DEF Resolves
<1> DEFINE static == {e \in registry[w].static : n \in entry_names(e)}
<1>1. CASE Named(w, n) # {}
  BY <1>1 DEF resolve_model
<1>2. CASE Named(w, n) = {} /\ static # {}
  <2>1. resolve_model(w, n) = (CHOOSE e \in static : TRUE).id
    BY <1>2 DEF resolve_model
  <2>2. (CHOOSE e \in static : TRUE) \in static
    BY <1>2
  <2>. QED
    BY <1>2, <2>1, <2>2
<1>3. CASE Named(w, n) = {} /\ static = {}
  BY <1>3 DEF resolve_model
<1>. QED
  BY <1>1, <1>2, <1>3

\* A name that resolves before a step and after it, at any workers, resolves to the same.
LEMMA NameStays ==
  ASSUME BuildsAgree, Rest, Rest', NameInv, NameInv', Next, NEW n \in Names, NEW w \in Workers, NEW v \in Workers,
         resolve_model(w, n) # None, resolve_model(v, n)' # None
  PROVE  resolve_model(v, n)' = resolve_model(w, n)
<1> DEFINE before == resolve_model(w, n)
           after == resolve_model(v, n)'
<1>1. \/ before \in Named(w, n)
      \/ /\ Named(w, n) = {}
         /\ \E e \in registry[w].static : n \in entry_names(e) /\ before = e.id
  BY ResolvedNames DEF Resolves
<1>2. \/ after \in Named(v, n)'
      \/ /\ Named(v, n)' = {}
         /\ \E e \in registry'[v].static : n \in entry_names(e) /\ after = e.id
  <2>1. Resolves'
    BY ResolvedNames, PTL
  <2>. QED
    BY <2>1 DEF Resolves
<1>3. before \in Named(w, n) => before \in Profiles /\ reserved[n] = before /\ n \notin StaticNames
  BY CachedNames DEF NamedAreReserved
<1>4. after \in Named(v, n)' => after \in Profiles /\ reserved'[n] = after /\ n \notin StaticNames
  <2>1. NamedAreReserved'
    BY CachedNames, PTL
  <2>. QED
    BY <2>1 DEF NamedAreReserved
<1>5. reserved[n] # None => reserved'[n] = reserved[n]
  BY PromotionsFreeze DEF Rest, Frozen
<1>6. /\ \A e \in registry[w].static : n \in entry_names(e) => n \in StaticNames
      /\ \A e \in registry'[v].static : n \in entry_names(e) => n \in StaticNames
  BY DEF Rest, TypeOK, StaticNames
<1>7. CASE before \in Named(w, n)
  <2>1. after \in Named(v, n)'
    BY <1>2, <1>3, <1>6, <1>7
  <2>. QED
    BY <1>3, <1>4, <1>5, <1>7, <2>1, DiscoveryAssumption
<1>8. CASE before \notin Named(w, n)
  <2>1. PICK e \in registry[w].static : n \in entry_names(e) /\ before = e.id
    BY <1>1, <1>8
  <2>2. n \in StaticNames
    BY <1>6, <2>1
  <2>3. PICK f \in registry'[v].static : n \in entry_names(f) /\ after = f.id
    BY <1>2, <1>4, <2>2
  <2>4. registry[w].static \in StartingBuilds /\ registry'[v].static \in StartingBuilds
    BY DEF Rest, TypeOK
  <2>. QED
    BY <2>1, <2>3, <2>4, OneStaticEntry
<1>. QED
  BY <1>7, <1>8

\* No name comes to mean another model, as long as the builds agree on the names of the code's
\* registry (put_promotion_candidate, resolve_model).
THEOREM NamesStay == ASSUME BuildsAgree PROVE Spec => NamesNeverMove
<1>1. Init => NameInv
  BY DEF Init, NameInv, Idle, Entries
<1>2. NameInv /\ UNCHANGED vars => NameInv'
  BY DEF vars, NameInv, Derives
<1>3. Rest /\ Rest' /\ NameInv /\ [Next]_vars => NameInv'
  BY <1>2, NamesInductive
<1>4. Rest /\ Rest' /\ NameInv /\ NameInv' /\ [Next]_vars =>
        [\A n \in Names : \A w, v \in Workers :
           resolve_model(w, n) # None => resolve_model(v, n)' \in {resolve_model(w, n), None}]_<<registry>>
  BY NameStays DEF vars
<1>. QED
  BY <1>1, <1>3, <1>4, RestAlways, PTL DEF Spec, NamesNeverMove
=============================================================================
