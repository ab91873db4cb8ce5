# Stratoclave: a formal model of the gateway

Stratoclave is a gateway between a tenant's users and model providers. A tenant has a
budget pool for each period. A request is authenticated, routed to a model, reserves its
worst case against the pool and the walls of its user and its model, calls the provider, and
settles what it really used at a rate that was frozen when it was admitted; an external
service can reserve and settle through an authorize / capture / void API. Around that run
the jobs that publish prices, discover and promote models, repair counters and reconcile
the ledger. All state lives in DynamoDB tables that many processes write at once, with
conditional updates and transactions and without locks, and in per-process caches of those
tables. That is where the program is hard to get right and hard to test, and it is what
this project models in TLA+, checks with TLC and proves about with TLAPS.

Paths below are relative to `src/` (`_pipeline.py` is `backend/mvp/_pipeline.py`,
`tenant_budgets.py` and the other repositories are in `backend/dynamo/`).

## 1. Inventory

### The parts that carry the core logic

| part | state | operations | who it interacts with |
|---|---|---|---|
| budget pool (`tenant_budgets.py`) | one row per tenant and period: limit, headroom, reserved, settled, seats, seat rate, figure, granted | conditional ADDs and puts | everything that moves money |
| hold lifecycle (`_pipeline.py`, `_money.py`) | HOLD rows, with the expiry in their key | reserve, settle, release, retain, mark departed; the sweep's reclaim and late settle | pool, ledger, token counter; the sweep runs inside reserve |
| credit ledger (`credit_ledger.py`) | write-once TERMINAL and LATE_SETTLE cells, the OWED_SETTLE row | conditional puts that ride the pool's transactions | hold lifecycle |
| user credit (`user_tenants.py`) | `credit_used`, membership rows | debit, refund, reversal; ensure, archive, switch | hold lifecycle, seats of the pool |
| external authorization (`billing_authorize.py`) | the intent row of an Idempotency-Key | authorize, capture, void | hold lifecycle, PENDING protocol |
| operator's resolution (`resolve_retained_hold`) | none of its own | charge or release a retained hold | hold lifecycle, token counter |
| PENDING protocol (`_pipeline.py`, `tenant_budgets.py`) | HOLD row with a status, MARKER item | put, debit with marker, activate; fence, reconcile, audit | pool, ledger |
| pool ceiling (`tenant_budgets.py`, `user_tenants.py`) | the pool row's composition | set figure, clear figure, seat delta, roll, seed | pool, migration, raises |
| limit raises (`mvp/grants.py`, `quota_events.py`) | requests and grants | file, withdraw, reject, approve, revoke, expire, block, unblock | pool ceiling |
| seat-rate migration (`migrations/pool_ceiling_migration.py`) | none of its own | scan and rewrite seat-tracked rows while the fleet serves | pool ceiling |
| walls of a user and of a model (`_pipeline.py`, `routing/quota.py`, `routing/user_dollar_quota.py`, `tenants.py`) | counters per period, the tenant's defaults and the sealed one | seal, debit in one transaction, give back one by one | hold lifecycle, raises |
| identity (`deps.py`, `admin_users.py`, `admin_tenants.py`, `sso_*.py`, `api_keys.py`, `ui_tickets.py`) | user rows with tombstones and watermarks, memberships, keys, nonces, tickets | authenticate, create, delete, change role, move, archive, exchange | seats of the pool |
| request handlers (`anthropic.py`, `chat_completions.py`, `openai_responses.py`, `_money.py`, `_openai_transport.py`, `routing/infrarouter.py`) | one reservation per request in memory, a shared bearer token | eight routes, failover, streaming, cancellation, the one ending | hold lifecycle, discovery's verdicts |
| model discovery (`mvp/discovery/`, `models.py`) | observed records, candidates, verdicts, active entries; a composed registry per worker | pass, promote, probe, withdraw, activate, refresh | probes reserve like requests |
| rates (`pricing.py`, `reservation_bound.py`, `pricing_config.py`) | versions of a document, a pointer, a table per worker | publish, refresh, freeze, bound, charge | price feeds, every reservation |
| price feeds (`mvp/pricing_feeds/`) | versions of a snapshot, a fenced pointer, a table per worker | pass over three feeds, fold, store, adopt | rates |
| routing (`routing/config.py`, `routing/model_resolver.py`, `eligibility.py`, `admin_routing.py`, `admin_entitlements.py`) | two documents and the grants; caches per worker | edit, grant, revoke, resolve, fall through | admission of a request |
| books (`admin_tenants.py`, `ledger_projector.py`, `backfill_pool_headroom.py`) | shadow rows, dead letters, a pass in flight | reconcile, repair, project | pool, ledger, the table's stream |
| executable specifications (`billing/ledger.py`, `billing/pending_protocol.py`) | plain objects | the same operations, atomic | what the above should implement |

### What is hard about them, and what makes them correct

* **Many writers, one row.** Headroom, reserved and settled are three counters moved by
  deltas. Correct: headroom is what is left, reserved is the sum of the holds that are
  there, settled is the sum of the ledger, reservations and spend pass the limit only by
  overruns and late charges.
* **Who ends a hold.** The request, the sweep of any other request, an operator, a capture
  and a void race. Correct: one ending, final, and everybody who is told they won did win.
* **Charges that come too late.** A settle may run out of retries while the sweep reclaims
  its hold. Correct: the charge is booked, once, by whoever comes second.
* **Retention.** A call that departed with an unknown outcome keeps its money until an
  operator decides. Correct: no sweep returns it from what it read earlier.
* **Four writes instead of one transaction** (the PENDING protocol). Correct: no credit
  without a debit and no second credit, no authorization without a debit, no debit that
  nobody will find, and the money of dead attempts comes back.
* **The ceiling is moved by deltas computed from what was read earlier** by hires, figures,
  clears, raises, the migration and the rollover. Correct: the ceiling equals its
  composition; what is granted equals the live grants.
* **Walls are debited together and given back one by one**, against bases and raises that
  were read before. Correct: who is admitted fits every wall at that moment, no wall forgets,
  and a month is sealed with the last default whose setter was told it is in force.
* **Identity is several rows in several tables.** Correct: a deletion that has run to its end
  holds against sign-ins and keys that were under way; one active membership; the last
  administrator goes only by the race that the code accepts; a nonce and a ticket serve once.
* **A client leaves at any await or yield.** Correct: the ending is written once, whatever the
  provider did is charged or kept, every reservation is ended.
* **A model is activated from three rows read one after another.** Correct: what is served was
  paid for and tried; a withdrawn verdict licenses nothing; a name never changes its meaning.
* **Rates are published row by row and cached.** Correct: what a request froze stays the row
  that is stored; the bound it reserved covers the charge whatever legs it is charged on, but for named
  payloads that the surveyors pass over.
* **A pass over the price feeds sees only a part.** Correct: it may raise a rate and not lower
  it, loses no key, and every worker comes to serve what is published.
* **Routing documents are cached, replicas lag, reads fail.** Correct: a policy is used no
  longer than its cache allows, and whatever is admitted is allowed by both documents.
* **Books are checked while they move.** Correct: a pass that says it is stable is exact, a
  repair never makes a row wrong, a key makes one hold, every new hold is projected.

The full list of hazards, each with the line where it bites and the properties aimed at it,
is `hazards` in `PROJECT.json`. The parts left out are in section 8.

## 2. Modules

| module | models | extends or instantiates |
|---|---|---|
| `Sums` | the sum of a function into the naturals, as a cardinality | |
| `BillingLedger` | `billing/ledger.py`: the abstract specification of the pool | |
| `HoldLifecycle` | holds of one pool row, from reserve to their ending, with all who race for it | `Sums`; instantiates `BillingLedger` |
| `PendingLedger` | `billing/pending_protocol.py`: the abstract specification of the protocol | |
| `PendingReserve` | authorize in four writes, the replay of a key, capture and void, the background jobs | `Sums`; instantiates `PendingLedger` |
| `PoolCeiling` | the composition of the pool row over the periods, and all who move it | `Sums` |
| `Identity` | users, tombstones, sessions, keys, memberships, tickets, nonces, the SSO exchange | |
| `Admission` | one member's requests against her credit, her pool, the model's quota and her own ceiling | `Sums` |
| `Serving` | the eight routes as awaits and yields around one reservation, and the bearer token | |
| `Discovery` | observation, promotion, probe, verdict, activation, the registry of every worker | |
| `Rates` | publication, a worker's table, the frozen rate, the bound and the charge | |
| `PriceFeed` | a pass over the feeds, the fold per key, the fenced pointer, adoption | |
| `Routing` | documents, caches, grants, the list of candidates and the fall-through | |
| `Books` | authorize in one transaction with the replay of its key; projection, reconciliation, repair | |
| `MC*` | the instances TLC checks | the module they are named for |
| `SumsProofs`, `HoldLifecycleProofs`, `PendingReserveProofs`, `PoolCeilingProofs`, `IdentityProofs`, `AdmissionProofs`, `DiscoveryProofs`, `ServingProofs` | theorems | the module they are about |

Definitions whose names end in `M` are plausible bugs of the definition that follows them;
each breaks one property and shows that the property depends on that piece of code.

### How state and actions correspond to the code

**HoldLifecycle.** One pool row, one user's `credit_used`, a finite set of holds. `row` is
the HOLD row's status or absence; `terminal`/`charge`, `late`, `owed` are the ledger cells.
Callers are threads that end holds and step through `pc`: a claim of the `Hold` object in
`_money.py` (`ClaimSettle`, `ReturnReservation`, `KeepReservation`), `Capture`, `Void`,
`ResolveCharge`, `ResolveRelease`, and then the writes of `_settle_pool_side`
(`SettleCommits`, `SettleRouted`, `SettleExhausted`, `SettleTimesOut`, `Owe`, `Redrive`,
`LateSettle`) or of `release_pool` (`Release`, `ReleaseFails`), and the read-back that
decides the answer. Reapers are threads inside `_sweep_one_period`: `Scan`, `Retain`,
`Reclaim`, `ReclaimBare`, `Recover`, `RecoverLate`. One action is one DynamoDB transaction
or one consistent read; everything between them interleaves. Threads may die between two
writes; the kinds of failing write are named in `FaultKinds` and picked by each instance.

**BillingLedger.** The operations of `billing/ledger.py` under their own names, each atomic,
and `LateSettle`, the one operation of the production code that the Python specification
does not have.

**PendingReserve.** A hold stands for an Idempotency-Key, from which its id is derived.
`idemp`, `status`, `marker` and `terminal` are the intent row, the HOLD row, the MARKER item
and the ledger cell. `PutHold`, `Commit`, `Activate` are the three steps of
`_reserve_external_pending`; `Evidence` and `Verdict` the two reads of
`_replay_committed_or_refuse`; `Rehydrate`, `Help`, `End`, `SettleMarker` a capture or void;
`Fence`, `Scan`, `LookAtMarker`, `CreditBack`, `Retire`, `Audit` the background jobs.
`Prompt` is the assumption that no debit is sent after its hold's expiry (section 6).

**PoolCeiling.** `row[p]` is the pool row of period `p` with all its fields. A job is an
operation between its read and its write: it remembers what it read (`seen`), and the write
is conditional on exactly what the code's ConditionExpression names (`SameInputs` for a
figure, a clear and the migration; mode and rate for a seat's money; nothing but existence
for the seat count of a row with a figure). A lost write ends the job or reads again, as
in the code. Names are the code's. Grant expiry may be any moment. `Overlaps` says which of
three overlaps the operators allow (section 6).

**Identity.** A request is a process in `req`; its handler does one store access per step
(`delete_user_mark`, `list_keys`, `revoke_keys`, `delete_user_archive` are one
`delete_user_endpoint`) and may fail or die between any two. `users` holds the rows and
tombstones with the watermark `after` that makes older tokens void; `ut` the memberships;
`keys`, `ticket`, `nonces` their tables. `jwt_admits` and `key_admits` say what
`get_current_user` and `_authenticate_api_key` accept. `backfill_put` puts the whole row it
read, without a condition, and nothing serialises two requests that count the administrators;
`seed_bootstrap_admin` picks the row it makes or writes over. History: `gone` holds the users whose
deletion has run to its end, `late` those whom a backfill put back from a row that had changed,
`adopted` those whose row a creation wrote over, `cornered` whether every one of several
administrators was being taken away at one moment. `Remember` moves the last three at every step.

**Admission.** The requests of one member: `reserve_credit_for_model`, `seal_read`,
`seal_write`, `read_granted_microusd`, `reserve_credit` are the steps of an admission, the
last one a single transaction over token credit, pool, model quota and user wall, with the
code's conditions in `CreditFits`, `PoolFits`, `QuotaFits`, `UserFits`. An ending gives them
back in the code's order (`settle_tokens`, `settle_pool_side`, `settle_quota_for`, or
`return_reservation`, `release_quota_for`), each of which may fail or be the last; the sweep
(`reclaim`) and the operator (`resolve_release`, `resolve_charge`) end what is left.
`set_user_dollar_default` reads and writes the defaults and prunes the seals; `acked` is
history: what its setters were told.

**Serving.** A request is a record whose `pc` is the await or yield it stands at; the actions
are named for the handlers, and an ending that a cancelled handler hands to the pool of
threads is `queued` until `executor` runs it. `Hold`'s claims are those of `_money.py`.
What the provider really did (`worked`) is hidden from the handlers. A refusal of the token is
answered in two steps: `token_refused` looks at the cached one, `invalidate_token` pops whatever is
cached by then if what it saw is what was sent; no lock is held, and the refresher, other threads
and other handlers may come between (handlers on the event loop cannot: this allows more than the
code does). A 403 counts as a refusal of the token, as in the code; the body of a refusal is read
without an error.

**Discovery.** `run_pass`, `main_applies` observe; `create_promotion_candidate` and
`candidate_is_put`, `probe_promotion_candidate` up to `probe_attests`, `get_discovery_candidate`
up to `commit_activation` are three operations of an operator, step by step;
`on_served_traffic_outcome` and `invalidate_writes` withdraw a verdict. `registry[w]` is what a
worker has composed from its build (`load_registry`) and the active entries
(`refresh`, `ensure_fresh`, `registry_ages`). `paid` is history: what each answered and charged
probe tried.

**Rates.** `set_rates`, `put_rate_row`, `put_manifest`, `put_pointer` publish; `load_rates`,
`refresh_fails`, `cache_ages`, `worker_restarts` move a worker's cache, from reads that may be
late; `arrives`, `refresh`, `snapshot_inputs`, `get_rates_for_version`, `settle` are a request.
The bound (`survey`, `assess_boundability`, `strict_reservation`, `rounding_slack`) and the
charge (`rate_usage`) are operators, with the code's roundings. `validate_input` is what the
Responses route refuses; `PassedOver` names the payloads whose tokens no surveyor sees.

**PriceFeed.** `fetch_agreement`, `fetch_price_list`, `fetch_self_hosted`, `select`, `build` and
`completed` are the pass as operators over what is published and what an outage hides;
`begin_pass`, `run_fetch`, `put_version`, `advance_pointer`, `adopt` are a worker's steps, the
fence (`FenceHolds`) between the last two.

**Routing.** `stored`, `behind` and `index` are the table, a lagging replica and a lagging
index; `cache` and `known` a worker's copies. `ReadCache`, `ReadTable`, `Keep`, `ServeStale` are
`get_routing_config`; `Candidates` and `decide` resolve the list; `Reserve`,
`QuotaExhausted`, `RefuseCandidate` try it. A session's memory is an input.

**Books.** `row`, `hold`, `idemp`, `ledger` are the tables; `authorize`, `LookUp`, `Commit`,
`Lost`, `Again` a call with an Idempotency-Key; `project` a batch of the stream;
`read_counters`, `Fold`, `Judge`, `JudgeAgain` a reconciliation; `repair_read`,
`repair_write`, `backfill` the headroom's repair; `Defect` a counter moved without an event.

## 3. Runs

Twelve runs, all of which finish their state space. `CHECK_DEADLOCK FALSE` stands in all but
`routing`, because a behaviour really may stop (every hold ended, every bound used up).

| run | distinct states | question |
|---|---|---|
| `hold_races` | 1.3 M | do counters, ledger and holds agree, and does every hold end once, in all races with failed writes and a dead thread? |
| `hold_fair` | 168 k | is observed spend always recorded or owed, are owed charges booked, do expired holds end? |
| `pending` | 404 k | does the protocol oversell, lose a debit or lie to a client; does it implement `pending_protocol.py`; does the money come back? |
| `ceiling` | 2.2 M | does the ceiling stay its composition while everything moves it? |
| `identity` | 265 k | do deletion, membership and single use survive two concurrent requests of any kind, and what does it take to lose the last administrator? |
| `admission` | 1.1 M | does who is admitted fit, is the right default sealed, does no wall forget? |
| `serving` | 181 k | is what the provider did charged or kept, once, whatever the client does? |
| `discovery` | 320 k | is what is served what was tried and paid for, and does every worker come to serve it? |
| `rates` | 821 k | does a frozen rate stay what is stored, and does the bound cover the charge of all that is surveyed? |
| `price_feed` | 892 k | does a price fall only when its pass has seen all of it, and does every worker converge? |
| `routing` | 1.1 M | is a policy no older than its cache, and is what is admitted allowed? |
| `books` | 316 k | is a stable pass exact, a repair sound, a key one hold, every new hold projected? |

### Bounds, and why they are enough

* `hold_races`: two holds (one inline of size 2, one external of size 1), so that a give-back
  can eat another hold's share; costs 1 and 3, below and above the reservation; two callers
  and two reapers, so that any two endings and two sweeps race; two faults of six kinds and
  one crash. Faults matter in pairs (a settle that fails, then its late booking): two is
  the smallest number at which a recovery fails too.
* `hold_fair`: no crash and no failing recovery write, because with either the charge does
  strand (section 8, c); a limit of 2 with sizes 2 and 1, so the second reserve must wait; one
  reaper and no symmetry, because of the liveness properties.
* `pending`: two keys of sizes 2 and 1 on a limit of 2, so one of them is refused while the
  other holds; two callers make every pair of attempt, replay, capture and void; one lost
  write of four kinds and one crash. One reconciler, because the liveness property needs it;
  for any number of reconcilers `NeverOversold` is proved.
* `ceiling`: two periods, two threads, three operations, two seat rates, one figure, one
  request with two possible grants, one unit of spend per row. Two threads make every
  read-write race; the third operation is the one that prepares (a figure to clear, a grant
  to revoke). `MaxAttempts` 1 makes the first failed sweep block a grant; the code's value
  only delays it.
* `identity`: two users, one with a row of earlier code, two tenants, one key, one ticket, one
  signature; two requests, each of any kind, failing anywhere; a clock of 3, a tolerance of 1
  and a nonce's life of 2, so that the nonce is purged while the request it stands for could
  still be shown. Two requests are enough for both accepted races: two deletions that count each
  other, a backfill around a deletion or a demotion.
* `admission`: two requests over a chain of two models, two administrators, one raise, two
  months; two administrative writes, one failing update. Within two months nothing is old enough
  to be pruned, even with a retention of 1: that pruning takes no default that a month resolves is
  what the theorem says (`PruningKeepsTheDefault`), whose invariants were also checked with four
  months and three writes (12.8 M states).
* `serving`: one request of any of the eight routes with every failure beside one
  OpenAI-compatible chat that may be refused for its token; two targets, two mints.
* `discovery`: two profiles that want one name, two workers, one operator, one client; a probe
  limit of 2; one re-observation, one restart, and a second build that no process can
  start with.
* `rates`: one version that two publishers write different documents under, one worker, two
  requests of three protocols; a rate is per three tokens, so every rounding happens. The payloads
  are an image that is measured, one that is not, one that is not taken, plain text, and one for each
  way in which tokens are passed over: a file in a chat, an image in the result of a tool of
  Responses, a conversation that is continued.
* `price_feed`: three models, two of which share a key and belong to different feeds; two
  workers; two moves, one fault. The outages are a feed that raises and a region or the failover set
  that cannot be read; a feed that the time budget does not reach is left out, see section 7.
* `routing`: requests on one of two workers, edits through both; three models of which one is
  spoken on another protocol and one needs a grant; a cache of two ticks.
* `books`: an old hold and two new ones, in three deployments that each put a job beside the
  calls it can race with: the projector with two keys, the audit with an old hold, the
  repair with two callers of one key.

Threads, requests and ids that are interchangeable are reduced by symmetry in the safety runs;
holds are not (they differ in size and source).

## 4. Fairness

* `HoldLifecycle!Fairness`: a thread that is not dead takes its next step; the clock passes
  a hold's expiry; the sweep takes its steps. The code justifies the last for a tenant that
  keeps sending requests: each reserve runs the sweep first. A tenant without traffic gets no
  sweep, and no promise.
* `PendingReserve!Served` says the same. `PendingReserve!Scheduled` is the stronger one, that
  the fence and the reconciler run again and again and each pass visits every hold of its
  list (strong fairness of `Scan`, since a hold is in the list only while it is fenced). The
  docstrings say "a scheduled worker calls them". Nothing in the repository schedules it
  (section 8, d), so `DebitsReturn` is a statement about a deployment that does.
* `Serving!FairSpec`: a handler that can go on does, the executor's threads run, a refresh that
  was begun ends, a call is answered or times out; strong fairness of the token's lock: a
  thread that finds it free again and again gets it. Nothing is assumed of clients or of the
  provider's success.
* `Discovery!FairSpec`: a registry's age passes its limit, and a worker that keeps being asked
  refreshes it; strong, because the store may answer only some of the time.
* `PriceFeed!FairSpec`: requests keep coming and an outage ends.
* `Books!Spec`: the stream keeps calling the projector, as an event source mapping does.

## 5. Proofs

All theorems hold for every finite set of holds, requests, users or profiles, all amounts and
limits, all numbers of threads, faults and crashes; the assumptions are the named ASSUMEs of
the modules, and the hypotheses are those of section 6, named where they are needed. `tlapm`
checks every leaf.

**Sums** (`SumsProofs`). `Total` is the cardinality of a set of units, so that no recursion
is needed: `TotalUpdate` says what changing one entry does to it, `TotalZero` starts it.

**HoldLifecycle** (`HoldLifecycleProofs`). The invariants checked are not
inductive as they stand. `IndInv` is their conjunction with
`RecoveryIsOwed` (a reaper about to book an owed charge has one: its type depends on it),
`ReaperSawExpiry` (who reclaims has seen the expiry pass: needed because `reap` of the
abstract specification asks for it) and `ChargeIsSettled` (an amount stands only on a
SETTLE). The argument goes in two stages: `MoneyStep` shows that each of the many
steps is, for the money, nothing or one of five moves (reserve, expire, retain, end, late),
and each property is then proved for the five. Proved: `TypeCorrect`,
`HeadroomConserved`, `ReservationsReturnOnce`, `SpendIsOnLedger`, `CeilingHolds`,
`HoldsEndOnce`, together `AccountsAlwaysAgree`; `EndingsFinal`, `RetainedKept`; and
`PoolImplementsLedger`: HoldLifecycle implements `BillingLedger` under `HoldState`.
`ResolversAlwaysLearn` needs one more part, `AnswerInv`: an answer that was given, or is
about to be given from what a thread has read back, is what the ledger holds; `EndingsFinal`
keeps it true. What becomes of spend that was observed has two halves.
`ObservedChargesAreDurable`: the figure of a settle that reported back is in the ledger or owed.
It needs `SpendInv`: the request that owns a hold claims its ending once and is the only one to
settle it (`Owners`, `WriterIsOwner`); a hold that nobody has claimed owes nothing and has been
reclaimed at most (`Unclaimed`); a settle under way has its figure written or still has the step
ahead that writes it (`Progress`). It holds whoever dies, under `WritesSucceed` (section 6).
`OnlyLossesStrand`, without any hypothesis: what is owed for a reclaimed hold has somebody about
to book it, until that very thread dies or fails. That the owed row and the reclaim meet in both
orders is `SecondLooks`: whoever writes second goes on to look for the other, and books.
`ObservedSpendAlwaysKept` has both halves of the property that `hold_fair` checks, where no such
loss happens (`RecoverySucceeds`).

**PendingReserve** (`PendingReserveProofs`). `Rows` relates the HOLD row, marker and ledger
cell of each hold and what a thread between two writes may rely on. With it every step is a
debit, a return or nothing (`StepIsPoolStep`), which gives, without any hypothesis on
timing, `TypeCorrect`, `PendingConserves`, `NeverOversold` and `AuthorizationsAreDebited`.
The others need `Prompt`, and `Attempts`: a key is attempted by one thread, whose HOLD row is
still PENDING when it debits. Under it `DebitsAreRecoverable`, `RefusalsAreFinal`,
`DebitsAlwaysAddUp` and `PendingImplementsProtocol`, the refinement to `PendingLedger` under
`SpecStatus`.

**PoolCeiling** (`PoolCeilingProofs`). `CeilingInv` types every variable and says what a job
between its read and its write may rely on: its target row exists, what it read had the type
of a row, a grant that is being put has its request's number. From it follow, whatever
overlaps, `HeadroomAlwaysAddsUp`, `GrantsAlwaysAddUp` and `SpendIsAlwaysKept`. That the ceiling is its
composition, `RowsAlwaysAddUp`, needs `LimitInv` and that the three overlaps are kept out: a
job that resolves a figure and found no grant has read a limit equal to its baseline; an open
migration, or a write that rests on an old rate, has no grant and no approval in flight; a
seat-only job's row has a figure. The third overlap is one that the proof found (section 7).

**Identity** (`IdentityProofs`). `MemberInv` relates rows, tombstones, memberships, keys and
the step at which every request stands (a deletion past its mark has a tombstone, unless a late
backfill lifted it; past its revocation, no key made before its listing is live; a move between
its read and its transaction still names the one active membership or will be refused). A step of
any request is, for the tables, one of the moves of `StoreMove`, so that what a request relies on
is shown once for all that may come between. `AdminInv` says that nobody has been made yet, or some
administrator is not about to be taken away, or all of several were at one moment (`cornered`).
Under `~Overlaps` they give `DeletedStayRefused`, `MembershipsStaySingle` and `LastAdminStays`:
two deletions or demotions that count each other, and backfills at any moment, are in what is
proved, and the statements say what they can do.
`UseInv`, with `NonceAssumption` (a nonce lives for twice the date's tolerance), gives
`NothingIsUsedTwice` whatever overlaps.

**Admission** (`AdmissionProofs`). `SealInv`: every seal, written or about to be written under
the version that was read, is what `acked` resolves to, and the defaults that a month
resolves are never pruned (`PruningKeepsTheDefault`). It gives `SealsFollowTheLastWord`.
`FlightInv` bounds what a request in flight has read, so the transaction's conditions imply
that every wall fits: `AdmissionsAlwaysFit`. `OwedInv`: each counter is at least the sum,
over the requests, of what each still has in it; a step of one request moves one summand
(`TotalUpdate`), a sweep or an operator only where the request is dead. It gives
`WallsNeverForget`, under `~Overlaps`.

**Discovery** (`DiscoveryProofs`). `Rest` types the state and says that a candidate, once put, is
never replaced: its names are reserved and stay so. `PaidInv`: every verdict, standing or in
flight, has a charged probe behind it, of that candidate and that record; activation copies
exactly what the verdict was for. It gives `WhatIsServedWasPaidFor`. `WithdrawnStaysOut`
follows from what a commit's condition names. `NameInv`: all that is active, cached by any worker
or in flight derives from the one candidate, whose names are reserved and disjoint from those
of the code's registry. `NamesStay` has the hypothesis `BuildsAgree`: the builds that can start
agree on the names of their own registries. A deployment may bring the name of an activated entry into
the code's registry; the activated entry wins where it has been read, and a worker that has started and
not read it yet resolves the name to the code's model.

**Serving** (`ServingProofs`). What is known of a request is said of its record alone: `Good` is
its type and `Sound`, and every step gives one request a next record, so the lemmas are about
records. `Sound` says what each `pc` knows (nothing has left before the call, nothing is claimed
before the answer), that a claim is one that its write may act on (`Just`), and that what is
written has been started (`Once`, without which `WrittenOnce` is not inductive). For
`WorkIsNotForgotten` the point is `FailureJust`: a failure after work was done is not taken for a
refusal, unless the chain lost a call before (`Excused`). `Tokens`: the lock is held by the thread
that mints, and a request that was refused holds a token that is revoked. They give
`WorkIsAlwaysRemembered`, `EndingsAreWrittenOnce` and `SeenTokensStay`, the first where `Enforced`
(the flag `STRATOCLAVE_UNOBSERVED_HOLDS`) keeps a reservation whose outcome is unknown.

**Only model-checked.** Liveness, which is out of the prover's reach: `ExpiredHoldsEnd`,
`OwedIsBooked`, `DebitsReturn`, `EveryHoldEnds`, the two `EveryWorkerServes`,
`EveryReserveIsProjected`. Of the safety properties: those of `Rates`, `PriceFeed`, `Routing` and
`Books`. `BoundCovers`, `PassIsExact` and `StoredFallsOnlyWhenSeen` rest on folds over sets, and those
of `Routing` on `SelectSeq`: their laws need induction over data. Nothing of the kind is in the
way of `FrozenIsStored`, `OneHoldPerKey`, `RepairIsSound` and `KeysNeverLeave`; they have not been
proved yet (section 10).

A leaf that a prover finds only just in time is not one to rely on: each is split until it is
proved in a quarter of the default time limits.

## 6. Hypotheses

A property that the code breaks in a known way is checked and proved with that way kept out,
and each such restriction is a named constant with the case it keeps out.

* `Prompt` (PendingReserve): no debit is sent after its hold's expiry. The debit asks nothing of
  the HOLD row (`tenant_budgets.py:1701`): an attempt that stalls past the expiry, the fence
  and the retirement debits a hold nobody will look at again (against `_pipeline.py:1735`).
  The minimum lifetime of a hold makes that unlikely; without `Prompt`,
  `DebitIsRecoverable` and the refinement fail. The money properties need no such hypothesis.
* `Overlaps` of `PoolCeiling`, any of: `"clear"`, a clear commits while a seat-only write is in
  flight (section 7, `MCClearRace`); `"rate"`, a clear commits over a seat rate it did not read
  (`MCRateRace`); `"approve"`, a raise is approved while the migration, which checked that no
  grant exists, is open: the grant is wiped from the ceiling. The third also keeps out an ABA of
  the figure's write, which names limit, seats and figure but not the rate.
* `Overlaps` of `Identity`: a user acts before its own creation has been answered, by a sign-in or
  by a second exchange (the late `ensure(…, allow_resurrection=True)` of `admin_users.py:184` to 204
  and `sso_exchange.py:286` to 307 brings back a membership that was archived meanwhile: two active
  memberships). Nothing else is kept out: deletions and changes of role overlap as they like, and a
  backfill puts its row whatever has happened to it.
* `Overlaps` of `Admission`: a sweep or an operator ends a hold while its request lives, so that
  `_settle_quota_for`, which asks nothing, gives back what was given back.
* `BuildsAgree` (Discovery): section 5.
* `WritesSucceed` (HoldLifecycleProofs): no settle ends in a read timeout, and no owed row or late
  settle fails for good (section 7, `MCSettleTimeout`). A settle may still exhaust its retries; a
  release, a mark or a retain may fail, an answer of a reclaim be lost, a thread die.
* `RecoverySucceeds` (HoldLifecycleProofs): besides, no answer of a reclaim is lost and no thread dies
  (8, c). `hold_fair` checks the property under the same faults.
* `Enforced` (Serving): section 5. Without it an unknown outcome is returned by design.
* The faults of `hold_fair` and the outages of `price_feed` are chosen in section 3.

## 7. Where the code and its documents disagree

Twelve disagreements have a configuration that shows them. They are beside the runs, not among
them: `tlc -config MCX.cfg MCModule.tla` ends in a violation of a property that states what
a document, a comment or a test says.

* `MCCaptureAnswer` (`MCHoldLifecycle`): a capture that lost to a void, or to a capture of
  another amount, answers 200 with its own amount (`billing_authorize.py:461` against
  `docs/design/CONTRACTS.md:198`). Whatever it says, the ledger has one ending; the other callers
  are told the truth (`ResolverLearnsWhoWon`).
* `MCSettleTimeout` (`MCHoldLifecycle`): the OWED_SETTLE row is written after the retry loop,
  which a read timeout leaves by another way (`_pipeline.py:6168` against C3.5,
  `CONTRACTS.md:117`).
* `MCTokensTwice` (`MCHoldLifecycle`): tokens are refunded before the hold ends; if the ending
  fails, the sweep gives them back again and takes them from another reservation
  (`_pipeline.py:1598` against `CONTRACTS.md:113`).
* `MCTwoOperators` (`MCHoldLifecycle`): two operators who release one retained hold both read
  "released" and both give the counters back (`_pipeline.py:1036` against the comment at 1035).
* `MCClearRace` (`MCPoolCeiling`): the seat-only write of `adjust_pool_for_seat_delta` asks
  nothing of the figure it read; a clear in between counts the seat and not its money
  (`tenant_budgets.py:1018` against C14.7, `CONTRACTS.md:325`).
* `MCRateRace` (`MCPoolCeiling`): `clear_manual_limit` is conditioned on limit, seats and figure,
  not on the seat rate (`tenant_budgets.py:915` to 951). A clear that read the row before the
  migration refills it at the old rate. Found by the proof of `RowsAlwaysAddUp`.
* `MCStreamDeparture` (`MCServing`): the streamed Responses route calls the provider without
  `provider_call_starting()`, so a request that left is returned as one that never did
  (`openai_responses.py:944` against `tests/test_retention_requires_departure.py:18`).
* `MCTokenPop` (`MCServing`): `invalidate_token` compares and then pops without a lock, so a token
  that the refresher installs in between is dropped (`_openai_transport.py:382` to 387 against
  "this a compare-and-pop", 376 to 380). What remains true is `SeenTokenStays`.
* `MCRateThirdWay` (`MCRates`): three payloads are charged above an enforced bound by a provider
  that kept to its ceiling: a file in a chat, which `survey_and_hash_openai_chat_payload` passes over;
  an image in the result of a tool, which neither `_validate_input` (`openai_responses.py:191`) nor
  the surveyor (`reservation_bound.py:1064`) looks for; and a body with `previous_response_id`,
  which makes the provider read what was not sent. Operators are told that there is "no unnamed
  third way" (`reservation_bound.py:314` to 321). The same goes for whatever else the provider adds,
  such as the results of its own tools.
* `MCLateBackfill` (`MCIdentity`): a backfill that read the row before a deletion puts it back
  afterwards, whole and without a condition, and lifts the tombstone (`deps.py:468` to 491 against the
  comment at `admin_users.py:441`, by which the tombstone blocks any backfill). In the same way it
  undoes a change of role or of tenant.
* `MCLastAdmin` (`MCIdentity`): two deletions or demotions count two administrators and take both
  away. A comment at `admin_users.py:618` accepts the race for two demotions; the check is there so
  that an administrator remains.
* `MCFeedSkipped` (`MCPriceFeed`): a feed that the time budget does not reach leaves no result,
  its models count as out of everyone's scope, and their key is lowered to what was read
  (`composite.py:564` against the comment at 443).

## 8. Disagreements and gaps met that have no run of their own

Holds and ledger

a. `billing/ledger.py:31` names the only way in which reserved plus settled exceeds the limit;
   a settle above its reservation, which lines 115 to 120 of that file allow, is another.
   `Ceiling` counts both.

b. A comment at `credit_ledger.py:526` and one at `_pipeline.py:635` say that an external
   authorization never takes LATE_SETTLE. A capture that runs out of retries leaves an owed
   row, and the sweep that reclaims the hold books it (`_pipeline.py:1221`).

c. A sweep that dies between its RECLAIM and the read of the owed row strands the charge:
   the hold is gone, no later sweep returns to it (`_pipeline.py:6711` says the two orders are
   total). `ObservedSpendIsKept` is therefore checked and proved with threads that live; that nothing
   else strands it is `OnlyLossesStrand`.

d. `sweep_fence_pending` and `reconcile_pool` are scheduled nowhere in the repository
   (`_pipeline.py:1689`).

e. `_replay_committed_or_refuse` may answer 404 (`_pipeline.py:4759`) while the first attempt,
   stalled before its HOLD row, still commits (C5.4, `CONTRACTS.md:141`). `RefusalIsFinal` is
   about 402, which is final.

f. The sweep's page counts rows it then skips; ten standing ones hide every later orphan of
   the period (`tenant_budgets.py:2262` to 2289, against the comment at 2276). HoldLifecycle
   abstracts the page to one hold at a time, so `ExpiredHoldsEnd` does not speak of it.

Ceiling

g. `set_manual_limit` on an absent row seeds zero seats whatever the memberships are. C14.1
   says that a lost seat delta leaves the ceiling one seat smaller; a lost departure leaves
   it larger. Two concurrent creations of one membership count two seats, and a delta
   computed just before midnight lands on the old row. No property compares seats with
   memberships.

Admission

h. Endings give the quota and the user's wall back without asking whether somebody else did
   (section 6); `reclaim` drops both give-backs when the tokens cannot be taken back; an
   operator's charge leaves the counters at the whole reservation; a request that straddles
   midnight is counted in one month and given back in another. User-scope quota lines are never
   built. Two raises approved at once may both take the daily slot (`grants.py:1061` to 1103).

i. A request that lags behind two month ends may find its month's default pruned, resolve none
   and be admitted without a user wall. With a retention of one it takes four months.

Identity

j. The limit on API keys is checked and then put, so it can be exceeded by requests at once;
   `archive_tenant` scans the members and then flips; the second guard of `ensure`
   (`user_tenants.py:190` to 195) never refuses; users of an archived tenant cannot be reassigned;
   the tombstone of a deleted SSO user keeps the e-mail; `revoke_all_for_user` misses a key that
   is put late (it is refused by the tombstone). A deletion that dies between Cognito and the
   tombstone leaves an administrator who counts and cannot sign in again. Two administrators who
   delete each other leave tombstones that hold the role, so `scan_admins` finds them and the seed
   does not run again. The seed adopts a bootstrap user who was demoted by writing over its row and
   may give it a second active membership (`adopted`). The model runs the seed only while no request is
   under way, as when the first worker starts.

Serving

k. A chain of targets that loses one call and is refused by the next returns the reservation;
   an OpenAI-compatible chat without a usage block settles at zero (against the docstring of
   `_is_metering_fault`, `_money.py:227`); the prologue of `chat_completions.py:1021` stands before its
   `try`; a crash between the call and the claim is reclaimed as a request that never left.
   `WorkIsNotForgotten` and `EveryHoldEnds` name the first three as exceptions.

Discovery

l. `check_registry_at_start` (`promotion.py:907` to 1011) and `invalidate_for_pricing_key_change`
   have no caller outside the tests. A collision with the code's registry is resolved silently in
   favour of the activated entry (`models.py:668` to 672). `invalidate_verdict` reads and then puts, so it may overwrite a later
   verdict. An active entry stays active when its verdict is withdrawn; there is no deactivation.
   A worker that starts while the store cannot be read serves the static registry.

Rates and price feeds

m. The comment at `pricing.py:468` to 471 does not describe its `else:`; the second `except` at 507
   is unreachable; an override of a self-hosted key may give its cache legs a price; `set_rates`
   under a version that exists joins the rows of both documents (`pricing_config.py:387`).

n. The operator's command unpacks two legs from lists of four (`fetch.py:219`), so a disagreement
   between the members of a key is not printed but raises. The fence of the pointer is its name, so a pointer that moved away and back passes (`snapshot.py:354` to 365).
   An unwritable store lets a partial pass lower the served table; a feed that raises counts as
   complete.

Routing

o. A session's sticky preference has no effect for chains: what is saved is the Bedrock id, what is
   compared the alias (`_pipeline.py:2837` against the comment at 2830). A user's chain that the
   tenant's no longer contains refuses the user's requests, where `admin_routing.py:513` to 518 says
   that it degrades to an ordering hint. `grant_entitlement` puts a second time without a condition (`admin_entitlements.py:696` against 616). A candidate refused
   mid-cascade ends in 403.

Books

p. `derived_totals` (`credit_ledger.py:927`) counts the projector's shadow rows, so with the projector
   deployed a reconciliation alarms a drift of what is reserved that is none (against C4.2,
   `CONTRACTS.md:127`). `PassIsExact` leaves that axis out. Two repairs of one row at once, or a
   reserve by earlier code on a row without a headroom between a repair's read and its write,
   leave the headroom wrong (against "never clobbered" in the docstring of
   `reconcile_headroom`); `Books` runs one repair at a time. `quota_reconciler`
   reads counts before rows and may report a passing defect.

## 9. Not modelled

| part | why |
|---|---|
| the sweep's page, its caps and its cursor | needs more holds than TLC can take; one hold at a time instead (8, f) |
| zero-amount holds, phases m1 to m4 of the migration | rows that this version does not write; one-shot conversions |
| the daily slot of raises, seats against memberships | 8, g and h |
| circuit breaker, rate limits | one process-local window; one conditional counter |
| `rating_replay_mismatches`, `reconcile_partition`, `count_post_epoch_sourceless_holds` | they only read |
| wire translation, semantic routing, learning | format conversion, scores and fire-and-forget records |
| reports, usage ingestion, CLI, frontend, infrastructure | readers and clients of what is modelled, or declarative |

## 10. Plan

1. Proofs of `FrozenIsStored` (the rows of `Rates` are written once, so what a worker or a request
   has read of them under a published name stays what is stored), and of `OneHoldPerKey` and
   `RepairIsSound` of `Books`.
2. `KeysNeverLeave` of `PriceFeed`.
3. `SeatsAreMembers` in `PoolCeiling`, with lost deltas counted; `HoldSweep`, the sweep's window.
