----------------------------- MODULE PriceFeed -----------------------------
(***************************************************************************)
(* The live price source.  A worker asks three feeds what each model       *)
(* costs, folds what they publish into a rate per pricing key, serves it,  *)
(* and stores it as a version under a pointer that its next start, and     *)
(* every other worker, falls back to.  A pass that saw less than a rate    *)
(* depends on may raise the rate and never lower it.                       *)
(***************************************************************************)
EXTENDS Integers, FiniteSets, FiniteSetsExt, Functions, TLC

CONSTANTS
  None,         \* no snapshot, no pointer, no selection
  Models,       \* what is priced
  KeyOf,        \* the pricing key of a model; models may share one
  OwnerOf,      \* the feed that publishes a model's price
  RegionOf,     \* the region that serves a model
  Failover,     \* the regions that a request may fail over to
  Pinned,       \* the models whose requests do not (the Responses protocol)
  ProfileOf,    \* the prefix of a model's profile: "global", "geo", "none", "unknown"
  Classes,      \* token classes, the legs of a rate
  Required,     \* those without which a card is none
  Floor,        \* the bundled rates, by key
  Offers,       \* the rows that may be published of each model
  Outages,      \* what may keep a pass from reading: [raised, skipped (feeds), unread (regions),
                \* unreachable (the failover regions are not known)]
  Workers,
  MaxMoves,     \* bound: changes of an offer or of the outage
  MaxFaults     \* bound: restarts, and reads and writes of the store that fail

Feeds == {"agreement", "price_list", "self_hosted"}
Keys == Range(KeyOf)
Clear == [raised |-> {}, skipped |-> {}, unread |-> {}, unreachable |-> FALSE]

ASSUME FeedAssumption ==
  /\ Required \subseteq Classes /\ Clear \in Outages
  /\ \A key \in Keys : Floor[key] \in [Classes -> Nat]

(***************************************************************************)
(* What is published, and what is read of it.                              *)
(***************************************************************************)
\* The name of a row tells its slot, or that it is no price per token; the unit is the
\* number of tokens it is a price of.
parse_dimension(row) ==
  IF row.name = "known" /\ row.unit # None
  THEN {[class |-> row.class, region |-> row.region, scope |-> row.scope, mode |-> row.mode,
         price |-> row.price * row.unit]}
  ELSE {}
\* The price list names a region in every row.
parse_usagetype(row) == IF row.region = None THEN {} ELSE parse_dimension(row)

\* An unknown prefix does not tell what the model is charged by.
scope_for_model(m) ==
  CASE ProfileOf[m] = "global" -> "global" [] ProfileOf[m] = "unknown" -> None [] OTHER -> "geo"
candidate_regions(m, missed) ==
  CASE m \in Pinned -> {RegionOf[m]} [] missed.unreachable -> None [] OTHER -> {RegionOf[m]} \cup Failover

\* The dearest price of each class among those that a request may meet; where none is
\* published for it, the dearest of all.
select(card, regions, scope) ==
  LET anywhere == [c \in Classes |-> {s \in card : s.class = c /\ s.mode = "standard"}]
      exact == [c \in Classes |->
                  {s \in anywhere[c] : scope \in {None, s.scope} /\ s.region \in regions \cup {None}}]
      priced == {c \in Classes : anywhere[c] # {}}
      dearest(slots) == Max({s.price : s \in slots})
  IN  IF Required \subseteq priced
      THEN [rates |-> [c \in priced |-> dearest(IF exact[c] # {} THEN exact[c] ELSE anywhere[c])],
            widened |-> {c \in priced : exact[c] = {}}]
      ELSE None

Answer(cards, incomplete, out_of_scope) ==
  [cards |-> cards, incomplete |-> incomplete, out_of_scope |-> out_of_scope]
\* A model whose rows give no slot has no card.
Cards(slots) == Restrict(slots, {m \in DOMAIN slots : slots[m] # {}})
Dimensions(models, rows) == [m \in models |-> UNION {parse_dimension(row) : row \in rows[m]}]
UsageTypes(models, rows) == [m \in models |-> UNION {parse_usagetype(row) : row \in rows[m]}]
Owned(feed) == {m \in Models : OwnerOf[m] = feed}

\* One call per model: its own answer says of a model that it is none of its business.
fetch_agreement(rows) == Answer(Cards(Dimensions(Owned("agreement"), rows)), {}, Models \ Owned("agreement"))

\* Page after page of each region.  What stops it leaves every model in doubt.
fetch_price_list(rows, unread) ==
  LET read == [m \in Models |-> {row \in rows[m] : row.region \notin unread}]
      cards == Cards(UsageTypes(Owned("price_list"), read))
      incomplete == IF unread = {} THEN {} ELSE Models
  IN  Answer(cards, incomplete, Models \ (DOMAIN cards \cup incomplete))

\* A document of the operator's.
fetch_self_hosted(rows) == Answer(Cards(Dimensions(Owned("self_hosted"), rows)), {}, Models \ Owned("self_hosted"))

Nothing == Answer(<< >>, {}, {})

\* A feed that raises has answered nothing; a feed that the budget does not reach is not asked.
results(rows, outage) == [feed \in Feeds \ outage.skipped |->
  CASE feed \in outage.raised -> Nothing
    [] feed = "agreement" -> fetch_agreement(rows)
    [] feed = "price_list" -> fetch_price_list(rows, outage.unread)
    [] OTHER -> fetch_self_hosted(rows)]

(***************************************************************************)
(* A pass folds the answers, key by key.                                   *)
(***************************************************************************)
selections(answered, missed, m) ==
  LET regions == candidate_regions(m, missed)
      carded == {f \in DOMAIN answered : m \in DOMAIN answered[f].cards /\ regions # None}
  IN  {select(answered[f].cards[m], regions, scope_for_model(m)) : f \in carded} \ {None}

member_incomplete(answered, m) ==
  /\ ~\E f \in DOMAIN answered : m \in DOMAIN answered[f].cards \ answered[f].incomplete
  /\ \E f \in DOMAIN answered : m \in answered[f].incomplete \ answered[f].out_of_scope

everywhere_out_of_scope(answered, m) ==
  answered # << >> /\ \A f \in DOMAIN answered : m \in answered[f].out_of_scope

\* A rate may fall when each model that shares its key was read whole, or is nobody's to publish.
may_lower(answered, missed, key) == \A m \in Models : KeyOf[m] = key =>
  LET chosen == selections(answered, missed, m) IN
  /\ \A s \in chosen : s.widened = {}
  /\ everywhere_out_of_scope(answered, m) \/ (chosen # {} /\ ~member_incomplete(answered, m))

\* The last known price of a leg, if it ever was published, and else the floor's.
fallback_leg(snap, key, class) ==
  IF snap # None /\ key \in DOMAIN snap.rates /\ class \in snap.live[key]
  THEN snap.rates[key][class] ELSE Floor[key][class]

\* The clamp is never taken off.
completedM(snap, key, class, prices, lower) ==
  IF prices = {} THEN fallback_leg(snap, key, class) ELSE Max(prices \cup {fallback_leg(snap, key, class)})

\* What nobody published comes from the layer below, and so does a price that may not fall.
completed(snap, key, class, prices, lower) ==
  CASE prices = {} -> fallback_leg(snap, key, class)
    [] lower -> Max(prices)
    [] OTHER -> Max(prices \cup {fallback_leg(snap, key, class)})

Published(chosen, class) == {s.rates[class] : s \in {t \in chosen : class \in DOMAIN t.rates}}

\* What the answers say of each key: the prices of its legs, if any, and whether it may fall.
Worlds == {o \in [Models -> UNION Range(Offers)] : \A m \in Models : o[m] \in Offers[m]}
Folded == [o \in Worlds |-> [missed \in Outages |->
  LET answered == results(o, missed) IN
  [key \in Keys |->
     LET chosen == UNION {selections(answered, missed, m) : m \in {n \in Models : KeyOf[n] = key}}
     IN  [priced |-> chosen # {}, lower |-> may_lower(answered, missed, key),
          prices |-> [c \in Classes |-> Published(chosen, c)]]]]]

\* What a pass reports: rates, and the legs that someone published.
build(folded, snap) ==
  LET priced == {key \in Keys : folded[key].priced}
  IN  [rates |-> [key \in priced |-> [c \in Classes |->
                    completed(snap, key, c, folded[key].prices[c], folded[key].lower)]],
       live |-> [key \in priced |-> {c \in Classes : folded[key].prices[c] # {}}]]

(***************************************************************************)
(* State.                                                                  *)
(***************************************************************************)
VARIABLES
  offers,    \* the rows that are published, by model
  outage,    \* what a pass would not read now
  moves,     \* how often these two changed
  faults,    \* restarts and failures of the store
  versions,  \* the rows of the store: rates (their digest names the row) -> live legs
  pointer,   \* the rates whose version is current
  worker,    \* each process
  answers    \* what a pass would read of the offers, under each outage

vars == <<offers, outage, moves, faults, versions, pointer, worker, answers>>
world == <<offers, outage, moves, answers>>
store == <<versions, pointer>>

EmptyTable == << >>
NoPass == [at |-> "none"]
NewWorker == [loaded |-> FALSE, loading |-> FALSE, read |-> None, snap |-> None,
              table |-> EmptyTable, pass |-> NoPass]

Init ==
  /\ offers \in Worlds
  /\ outage = Clear /\ moves = 0 /\ faults = 0
  /\ versions = << >> /\ pointer = None
  /\ worker = [w \in Workers |-> NewWorker]
  /\ answers = Folded[offers]

Version(rates) == [rates |-> rates, live |-> versions[rates]]
Stored == IF pointer = None THEN None ELSE Version(pointer)
Digest(snap) == IF snap = None THEN None ELSE snap.rates
Becomes(w, record) == worker' = [worker EXCEPT ![w] = record]
Fault == faults < MaxFaults /\ faults' = faults + 1

(***************************************************************************)
(* The world.                                                              *)
(***************************************************************************)
offer_moves(m) ==
  /\ moves < MaxMoves /\ moves' = moves + 1
  /\ \E rows \in Offers[m] \ {offers[m]} : offers' = [offers EXCEPT ![m] = rows]
  /\ answers' = Folded[offers']
  /\ UNCHANGED <<outage, faults, store, worker>>

outage_begins ==
  /\ moves < MaxMoves /\ moves' = moves + 1
  /\ outage = Clear /\ outage' \in Outages \ {Clear}
  /\ UNCHANGED <<offers, faults, store, worker, answers>>

outage_ends ==
  /\ outage # Clear /\ outage' = Clear
  /\ UNCHANGED <<offers, moves, faults, store, worker, answers>>

(***************************************************************************)
(* The snapshot is loaded once.  The thread that does so is not waited for.*)
(***************************************************************************)
ensure_snapshot(w) ==
  /\ ~worker[w].loaded
  /\ \/ Becomes(w, [worker[w] EXCEPT !.loaded = TRUE, !.loading = TRUE, !.read = Stored]) /\ UNCHANGED faults
     \/ Fault /\ Becomes(w, [worker[w] EXCEPT !.loaded = TRUE])
  /\ UNCHANGED <<world, store>>

snapshot_arrives(w) ==
  /\ worker[w].loading
  /\ Becomes(w, [worker[w] EXCEPT !.loading = FALSE, !.read = None, !.snap = worker[w].read])
  /\ UNCHANGED <<world, faults, store>>

(***************************************************************************)
(* A pass.  One runs at a time in a worker.                                *)
(***************************************************************************)
\* (The interval between two passes is longer than a read of the store.)
begin_pass(w) == LET k == worker[w] IN
  /\ k.loaded /\ k.pass = NoPass /\ (k.loading => Digest(k.snap) = None /\ k.table = EmptyTable)
  /\ Becomes(w, [k EXCEPT !.pass = [at |-> "fetch", fence |-> Digest(k.snap)]])
  /\ UNCHANGED <<world, faults, store>>

\* The report is served at once.  (whole names the keys whose models were all read: it is not
\* in the code.)
run_fetch(w) ==
  LET k == worker[w]
      report == build(answers[outage], k.snap)
      read(m) == /\ outage.raised \cup outage.skipped = {} /\ candidate_regions(m, outage) # None
                 /\ OwnerOf[m] = "price_list" => outage.unread = {}
      whole == {key \in Keys : \A m \in Models : KeyOf[m] = key => read(m)}
  IN  /\ k.pass.at = "fetch"
      /\ Becomes(w, [k EXCEPT !.table = report.rates @@ @,
           !.pass = IF report.rates = EmptyTable THEN NoPass
                    ELSE [at |-> "built", fence |-> k.pass.fence, report |-> report, whole |-> whole]])
      /\ UNCHANGED <<world, faults, store>>

\* The report replaces what was known.
unionM(snap, report) == report

\* What was known is not forgotten: only the keys that were read are replaced.
union(snap, report) ==
  IF snap = None THEN report
  ELSE [rates |-> report.rates @@ snap.rates,
        live |-> [key \in DOMAIN report.live \cup DOMAIN snap.live |->
                    UNION {s[key] : s \in {t \in {report.live, snap.live} : key \in DOMAIN t}}]]

\* Nothing is written when nothing has changed, unless the pointer has to be touched.  A
\* version is put if it is new; a put that fails ends as a lost race does.
put_version(w) ==
  LET k == worker[w]
      merged == union(k.snap, k.pass.report)
      Next_(step) == Becomes(w, [k EXCEPT !.pass = step])
      stored == [at |-> "stored", fence |-> k.pass.fence, merged |-> merged, whole |-> k.pass.whole]
  IN  /\ k.pass.at = "built"
      /\ \/ /\ Digest(k.snap) = merged.rates
            /\ Next_(NoPass) /\ UNCHANGED <<versions, faults>>
         \/ /\ Next_(stored) /\ versions' = versions @@ (merged.rates :> merged.live) /\ UNCHANGED faults
         \/ Fault /\ Next_([at |-> "lost"]) /\ UNCHANGED versions
      /\ UNCHANGED <<world, pointer>>

\* The fence is left out.
FenceHoldsM(fence) == TRUE

\* The pointer has not moved since the pass began.
FenceHolds(fence) == pointer = fence

advance_pointer(w) ==
  LET k == worker[w]
      Ended(step, snap) == Becomes(w, [k EXCEPT !.pass = step, !.snap = snap])
  IN  /\ k.pass.at = "stored"
      /\ \/ /\ pointer = k.pass.merged.rates \/ FenceHolds(k.pass.fence)
            /\ pointer' = k.pass.merged.rates /\ Ended(NoPass, k.pass.merged) /\ UNCHANGED faults
         \/ /\ pointer # k.pass.merged.rates /\ ~FenceHolds(k.pass.fence)
            /\ Ended([at |-> "lost"], k.snap) /\ UNCHANGED <<pointer, faults>>
         \/ Fault /\ Ended([at |-> "lost"], k.snap) /\ UNCHANGED pointer
      /\ UNCHANGED <<world, versions>>

\* What the winner prices is served from it.
Kept(table, winner) == Restrict(table, DOMAIN table \ DOMAIN winner.rates)

\* A pass that could not publish adopts what is stored.
adopt(w) ==
  LET k == worker[w] IN
  /\ k.pass.at = "lost"
  /\ \/ /\ Stored # None
        /\ Becomes(w, [k EXCEPT !.pass = NoPass, !.snap = Stored, !.table = Kept(@, Stored)])
        /\ UNCHANGED faults
     \/ Stored = None /\ Becomes(w, [k EXCEPT !.pass = NoPass]) /\ UNCHANGED faults
     \/ Fault /\ Becomes(w, [k EXCEPT !.pass = NoPass])
  /\ UNCHANGED <<world, store>>

worker_restarts(w) ==
  /\ worker[w] # NewWorker /\ Fault
  /\ Becomes(w, NewWorker)
  /\ UNCHANGED <<world, store>>

Step(w) == ensure_snapshot(w) \/ snapshot_arrives(w) \/ begin_pass(w) \/ run_fetch(w)
           \/ put_version(w) \/ advance_pointer(w) \/ adopt(w)

Next ==
  \/ \E m \in Models : offer_moves(m)
  \/ outage_begins \/ outage_ends
  \/ \E w \in Workers : Step(w) \/ worker_restarts(w)

Spec == Init /\ [][Next]_vars

\* Requests keep coming, each asks for the rates, and an outage ends.
FairSpec == Spec /\ WF_vars(outage_ends) /\ \A w \in Workers : WF_vars(Step(w))

(***************************************************************************)
(* Properties.                                                             *)
(***************************************************************************)
\* The table that a worker serves under the source's name.
merged_rates(w) ==
  worker[w].table @@ (IF worker[w].snap = None THEN EmptyTable ELSE worker[w].snap.rates)

\* The stored price of a leg that was published never falls unless the pass that lowers it has
\* read every model that the price is the maximum over: not through an outage, and not by
\* one pass writing over another whose prices it has not seen.
StoredFallsOnlyWhenSeen == [][
  pointer # None /\ pointer' # pointer =>
    \A key \in DOMAIN pointer \cap DOMAIN pointer' : \A c \in versions[pointer][key] :
      pointer'[key][c] < pointer[key][c] =>
        \E w \in Workers :
          worker[w].pass.at = "stored" /\ worker'[w].pass = NoPass /\ key \in worker[w].pass.whole]_vars

\* A key that was ever priced stays in the stored table, whoever publishes the next.
KeysNeverLeave == [][pointer # None => DOMAIN pointer \subseteq DOMAIN pointer']_vars

\* Once the prices stand still, every worker comes to serve them, whatever races it lost.
EveryWorkerServes == <>[]\A w \in Workers : \A key \in Keys : \A c \in Classes :
  LET published == answers[Clear][key].prices[c] IN
  published # {} => key \in DOMAIN merged_rates(w) /\ merged_rates(w)[key][c] = Max(published)
=============================================================================
