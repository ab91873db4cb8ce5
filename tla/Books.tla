------------------------------- MODULE Books -------------------------------
(***************************************************************************)
(* The books of one pool.  A row of counters is what admission reads; the  *)
(* events of the credit ledger say why it moved.  External callers         *)
(* authorize under an idempotency key, capture and void; a reaper ends     *)
(* what they abandon; holds of older code are still open.  Around them run *)
(* three jobs that must not be fooled by what moves while they look: the   *)
(* reconciliation of the row with the ledger, the repair of its headroom,  *)
(* and the projection of new holds into the ledger from the table's        *)
(* stream.                                                                 *)
(*                                                                         *)
(* One tenant, one period, the protocol of one transaction.  Time is left  *)
(* out: an open hold may be found expired whenever its expiry is looked    *)
(* at.                                                                     *)
(***************************************************************************)
EXTENDS Integers, Sequences, FiniteSets, FiniteSetsExt, SequencesExt

CONSTANTS
  None,         \* no row, no field
  Holds,        \* hold ids: fresh ones, and those of Old
  Old,          \* holds that older code left open
  Keys,         \* idempotency keys
  Callers,      \* external calls in flight
  Amounts,      \* what an authorization asks for: a set of positive numbers
  Charges,      \* what a hold is settled at
  OldAmount,    \* what an old hold reserved
  Limit,        \* the pool's limit
  Deployments,  \* bound: the jobs, callers, keys and old holds that act together
  Pages,        \* the partition as a query pages it: a sequence of sets of hold ids
  BatchSize,    \* records that the stream delivers at once
  RetryAttempts,\* redeliveries of a record before its batch is dead-lettered
  MaxDefects,   \* bound: counter movements without an event
  MaxFailures   \* bound: writes of the projector that fail

Jobs == {"projector", "audit", "repair"}

ASSUME BooksAssumption ==
  /\ Old \subseteq Holds /\ Amounts \subseteq Nat \ {0} /\ Charges \subseteq Nat /\ OldAmount \in Nat \ {0}
  /\ UNION Range(Pages) = Holds /\ Deployments \subseteq [jobs : SUBSET Jobs, callers : SUBSET Callers, keys : SUBSET Keys, old : SUBSET Old]

VARIABLES
  row,       \* the pool's counters
  hold,      \* hold id |-> its row, or None
  idemp,     \* idempotency key |-> the row that it is bound by, or None
  ledger,    \* the events of the period's partition
  call,      \* caller |-> where its call is
  told,      \* key |-> the authorizations that its calls were answered with
  stream,    \* the new holds that the projector has not got past
  tries,     \* redeliveries of the stream's first record
  dlq,       \* records given up
  audit,     \* the reconciliation pass
  repair,    \* the headroom repair
  deployed,  \* one of Deployments
  defects, failures

vars == <<row, hold, idemp, ledger, call, told, stream, tries, dlq, audit, repair, deployed, defects, failures>>
jobvars == <<stream, tries, dlq, audit, repair, deployed, defects, failures>>

Idle == [stage |-> "idle", key |-> None, hold |-> None, amount |-> 0]

(***************************************************************************)
(* The ledger.                                                             *)
(***************************************************************************)
reserve_event(h, amount, source, shadow) ==
  [hold |-> h, type |-> "RESERVE", reserved |-> amount, settled |-> 0, source |-> source, shadow |-> shadow]
terminal_event(h, type, amount, settled, source) ==
  [hold |-> h, type |-> type, reserved |-> -amount, settled |-> settled, source |-> source, shadow |-> FALSE]
late_settle(h, settled) ==
  [hold |-> h, type |-> "LATE_SETTLE", reserved |-> 0, settled |-> settled, source |-> None, shadow |-> FALSE]

get_reserve(h) == {e \in ledger : e.hold = h /\ e.type = "RESERVE" /\ ~e.shadow}
get_terminal(h) == {e \in ledger : e.hold = h /\ e.type \in {"SETTLE", "RELEASE", "RECLAIM"}}
get_late_settle(h) == {e \in ledger : e.hold = h /\ e.type = "LATE_SETTLE"}
terminal_is_reclaim(h) == \E e \in get_terminal(h) : e.type = "RECLAIM"

\* What the counters should be by a set of events: what a hold without a RESERVE did to the
\* reservations is not counted, only how many such terminals there are.
derived_totals(events) ==
  LET known == {e.hold : e \in {x \in events : x.type = "RESERVE"}}
      settled(e) == e.settled
      reserved(e) == e.reserved
      returned(e) == -e.reserved
  IN  [settled |-> MapThenSumSet(settled, events),
       reserved |-> MapThenSumSet(reserved, {e \in events : e.hold \in known}),
       reclaimed |-> MapThenSumSet(returned, {e \in events : e.type = "RECLAIM" /\ e.hold \in known}),
       pre_p2_terminals |-> Cardinality({e \in events : e.type \in {"SETTLE", "RELEASE", "RECLAIM"} /\ e.hold \notin known})]

(***************************************************************************)
(* The row.  Adding to a headroom that is not there creates it.            *)
(***************************************************************************)
Target(r) == r.limit - r.reserved - r.settled
\* How far the headroom is off; a headroom that is not there counts as none.
Drift == row.headroom - Target(row)

reserve_txn(amount) ==
  /\ row.has /\ row.headroom >= amount
  /\ row' = [row EXCEPT !.headroom = @ - amount, !.reserved = @ + amount]
settle_txn(amount, actual) ==
  row' = [row EXCEPT !.has = TRUE, !.headroom = @ + amount - actual,
                     !.reserved = @ - amount, !.settled = @ + actual]
late_settle_txn(actual) ==
  row' = [row EXCEPT !.has = TRUE, !.headroom = @ - actual, !.settled = @ + actual]
release_txn(amount) ==
  row' = [row EXCEPT !.has = TRUE, !.headroom = @ + amount, !.reserved = @ - amount]
reclaim_txn(amount) ==
  row' = [row EXCEPT !.has = TRUE, !.headroom = @ + amount, !.reserved = @ - amount, !.reclaimed = @ + amount]

(***************************************************************************)
(* A reservation under an idempotency key.                                 *)
(***************************************************************************)
idemp_row(h, amount) == [hold |-> h, amount |-> amount]
\* The same key with another body is refused, whatever became of the first.
SameRequest(key, amount) == idemp[key].amount = amount
\* Any trace that the reservation was made; a row alone is none.
commit_evidence(h) == hold[h] # None \/ get_terminal(h) # {} \/ get_reserve(h) # {}

\* A key that is bound is answered with what it is bound to, if the reservation is there.
Replay(key, amount) ==
  /\ idemp[key] # None
  /\ told' = IF SameRequest(key, amount) /\ commit_evidence(idemp[key].hold)
               THEN [told EXCEPT ![key] = @ \cup {idemp[key].hold}] ELSE told

\* A key that is not bound yet goes on to the pool.
LookUp(c, key, amount) ==
  \/ Replay(key, amount) /\ UNCHANGED call
  \/ /\ idemp[key] = None
     /\ call' = [call EXCEPT ![c] = [Idle EXCEPT !.stage = "admit", !.key = key, !.amount = amount]]
     /\ UNCHANGED told

authorize(c) ==
  /\ call[c] = Idle /\ c \in deployed.callers
  /\ \E key \in deployed.keys, amount \in Amounts : LookUp(c, key, amount)
  /\ UNCHANGED <<row, hold, idemp, ledger, jobvars>>

\* The counters, read consistently: too full is refused before anything is written.
Admit(c) ==
  /\ call[c].stage = "admit"
  /\ call' = [call EXCEPT ![c] = IF row.reserved + row.settled + call[c].amount > row.limit
                                   THEN Idle ELSE [@ EXCEPT !.stage = "write"]]
  /\ UNCHANGED <<row, hold, idemp, ledger, told, jobvars>>

fresh == Holds \ (Old \cup {e.hold : e \in ledger})

hold_put(h, amount, source) ==
  /\ hold[h] = None
  /\ hold' = [hold EXCEPT ![h] = [amount |-> amount, source |-> source]]
  /\ stream' = IF "projector" \in deployed.jobs THEN Append(stream, [hold |-> h, amount |-> amount, source |-> source])
               ELSE stream

\* The key's row is put only where there is none.
idemp_putM(key, h, amount) ==
  idemp' = [idemp EXCEPT ![key] = idemp_row(h, amount)]

idemp_put(key, h, amount) ==
  /\ idemp[key] = None
  /\ idemp' = [idemp EXCEPT ![key] = idemp_row(h, amount)]

\* The counters, the hold, its RESERVE event and the key's row, or none of them.  The answer
\* may not reach the caller.
Commit(c) ==
  LET key == call[c].key
      amount == call[c].amount
  IN  /\ call[c].stage = "write"
      /\ \E h \in fresh :
           /\ reserve_txn(amount)
           /\ hold_put(h, amount, "external")
           /\ ledger' = ledger \cup {reserve_event(h, amount, "external", FALSE)}
           /\ idemp_put(key, h, amount)
           /\ \/ told' = [told EXCEPT ![key] = @ \cup {h}]
              \/ UNCHANGED told
      /\ call' = [call EXCEPT ![c] = Idle]
      /\ UNCHANGED <<tries, dlq, audit, repair, deployed, defects, failures>>

\* The transaction was cancelled by the key's row: somebody else's attempt committed.
Lost(c) ==
  /\ call[c].stage = "write" /\ Replay(call[c].key, call[c].amount)
  /\ call' = [call EXCEPT ![c] = Idle]
  /\ UNCHANGED <<row, hold, idemp, ledger, jobvars>>

\* It was cancelled by the counters or by contention: look again, or give up.
Again(c) ==
  /\ call[c].stage = "write"
  /\ \/ call' = [call EXCEPT ![c] = [@ EXCEPT !.stage = "admit"]]
     \/ call' = [call EXCEPT ![c] = Idle]
  /\ UNCHANGED <<row, hold, idemp, ledger, told, jobvars>>

(***************************************************************************)
(* Capture and void, each in a call of its own: what was reserved is read  *)
(* back from the hold, or, for a hold older than its own source, from the  *)
(* RESERVE event.                                                          *)
(***************************************************************************)
Enriched(h) == hold[h] # None /\ hold[h].source # None

require_external(h) ==
  IF Enriched(h) THEN hold[h].source = "external"
  ELSE IF get_reserve(h) # {} THEN \A e \in get_reserve(h) : e.source = "external"
  ELSE \E e \in get_terminal(h) : e.source = "external"

\* The two records of one reservation must agree on it.
Consistent(h) == \A e \in get_reserve(h) : e.reserved = hold[h].amount

Rehydratable(h) ==
  /\ hold[h] # None
  /\ IF Enriched(h) THEN hold[h].source = "external"
     ELSE \E e \in get_reserve(h) : e.source = "external"
  /\ Consistent(h)

rehydrate(h, stage, actual) ==
  [Idle EXCEPT !.stage = stage, !.hold = h, !.amount = actual]

\* A capture is refused when it is late or asks for more than was authorized.
capture(c, h) ==
  /\ call[c] = Idle /\ c \in deployed.callers /\ require_external(h) /\ Rehydratable(h)
  /\ \E actual \in Charges :
       /\ actual <= hold[h].amount
       /\ call' = [call EXCEPT ![c] = rehydrate(h, "capture", actual)]
  /\ UNCHANGED <<row, hold, idemp, ledger, told, jobvars>>

void(c, h) ==
  /\ call[c] = Idle /\ c \in deployed.callers /\ require_external(h) /\ Rehydratable(h)
  /\ call' = [call EXCEPT ![c] = rehydrate(h, "void", 0)]
  /\ UNCHANGED <<row, hold, idemp, ledger, told, jobvars>>

\* Every end of a hold deletes its row and puts its one TERMINAL.
Ending(h, type, settled, source) ==
  /\ hold[h] # None /\ get_terminal(h) = {}
  /\ hold' = [hold EXCEPT ![h] = None]
  /\ ledger' = ledger \cup {terminal_event(h, type, hold[h].amount, settled, source)}

\* Whoever finds a TERMINAL there answers by it, and changes nothing.
settle_external(c) ==
  LET h == call[c].hold
  IN  /\ call[c].stage = "capture"
      /\ \/ Ending(h, "SETTLE", call[c].amount, "external") /\ settle_txn(hold[h].amount, call[c].amount)
         \/ get_terminal(h) # {} /\ UNCHANGED <<row, hold, ledger>>
      /\ call' = [call EXCEPT ![c] = Idle]
      /\ UNCHANGED <<idemp, told, jobvars>>

release_external(c) ==
  LET h == call[c].hold
  IN  /\ call[c].stage = "void"
      /\ \/ Ending(h, "RELEASE", 0, "external") /\ release_txn(hold[h].amount)
         \/ get_terminal(h) # {} /\ UNCHANGED <<row, hold, ledger>>
      /\ call' = [call EXCEPT ![c] = Idle]
      /\ UNCHANGED <<idemp, told, jobvars>>

\* A call that dies, or fails, between its steps.
Drop(c) ==
  /\ call[c] # Idle
  /\ call' = [call EXCEPT ![c] = Idle]
  /\ UNCHANGED <<row, hold, idemp, ledger, told, jobvars>>

\* The reaper.
reclaim(h) ==
  /\ Ending(h, "RECLAIM", 0, hold[h].source) /\ reclaim_txn(hold[h].amount)
  /\ UNCHANGED <<idemp, call, told, jobvars>>

\* The request that made an inline hold settles it, or books its spend after the reaper.
settle_inline(h) ==
  /\ h \in Old /\ \A e \in get_reserve(h) : e.source # "external"
  /\ \E actual \in Charges :
       \/ Ending(h, "SETTLE", actual, "inline") /\ settle_txn(hold[h].amount, actual)
       \/ /\ terminal_is_reclaim(h) /\ get_late_settle(h) = {}
          /\ late_settle_txn(actual)
          /\ ledger' = ledger \cup {late_settle(h, actual)}
          /\ UNCHANGED hold
  /\ UNCHANGED <<idemp, call, told, jobvars>>

(***************************************************************************)
(* The projector: a Lambda function that the table's stream calls with     *)
(* batches of records, in order.  What it writes it may write again.       *)
(***************************************************************************)
\* Only an insertion of a hold that carries its source says anything.
reserve_event_from_hold(image) ==
  IF image.source = None THEN {} ELSE {reserve_event(image.hold, image.amount, image.source, TRUE)}

\* The records that the function reports back: those that it could not write.
reportedM(failing) == {}
reported(failing) == failing

project(n, failing) ==
  LET first == Min(reported(failing) \cup {n + 1})
      dead == first = 1 /\ tries = RetryAttempts
  IN  /\ failures' = failures + Cardinality(failing)
      /\ ledger' = ledger \cup UNION {reserve_event_from_hold(stream[i]) : i \in (1..n) \ failing}
      \* The stream goes on from the first record reported, or past the batch when it has been
      \* tried enough.
      /\ stream' = SubSeq(stream, IF dead THEN n + 1 ELSE first, Len(stream))
      /\ dlq' = IF dead THEN dlq \cup {stream[i].hold : i \in 1..n} ELSE dlq
      /\ tries' = IF first > n \/ dead THEN 0 ELSE IF first = 1 THEN tries + 1 ELSE 1
      /\ UNCHANGED <<row, hold, idemp, call, told, audit, repair, deployed, defects>>

Projector ==
  \E n \in 1..Min({BatchSize, Len(stream)}) : \E failing \in SUBSET (1..n) :
    failures + Cardinality(failing) <= MaxFailures /\ project(n, failing)

(***************************************************************************)
(* The reconciliation pass: the counters, a fold of the partition page by  *)
(* page, and the counters again.                                           *)
(***************************************************************************)
read_counters == [settled |-> row.settled, reserved |-> row.reserved, reclaimed |-> row.reclaimed]
NoPass == [stage |-> "idle", c1 |-> None, page |-> 0, seen |-> {}, stable |-> FALSE, alarms |-> {}]

Begin ==
  /\ "audit" \in deployed.jobs /\ audit.stage = "idle"
  /\ audit' = [NoPass EXCEPT !.stage = "fold", !.c1 = read_counters]
  /\ UNCHANGED <<row, hold, idemp, ledger, call, told, stream, tries, dlq, repair, deployed, defects, failures>>

\* The shadow rows are in the same partition, after the others.
Fold ==
  /\ audit.stage # "idle" /\ audit.page <= Len(Pages)
  /\ audit' = [audit EXCEPT !.page = @ + 1,
                 !.seen = @ \cup IF audit.page = Len(Pages) THEN {e \in ledger : e.shadow}
                                 ELSE {e \in ledger : e.hold \in Pages[audit.page + 1] /\ ~e.shadow}]
  /\ UNCHANGED <<row, hold, idemp, ledger, call, told, stream, tries, dlq, repair, deployed, defects, failures>>

Folded == audit.page > Len(Pages)

\* Only one of the counters is looked at twice.
StableM(c1, c2) == c1.reserved = c2.reserved
Stable(c1, c2) == c1 = c2

Axes(totals) == {"settled"} \cup IF totals.pre_p2_terminals > 0 THEN {} ELSE {"reserved", "reclaimed"}

\* The first fold is judged; a drift of the reservations is looked at again before it is said.
Judge ==
  LET totals == derived_totals(audit.seen)
      off == {axis \in Axes(totals) : audit.c1[axis] # totals[axis]}
  IN  /\ audit.stage = "fold" /\ Folded
      /\ audit' = IF ~Stable(audit.c1, read_counters) THEN NoPass
                  ELSE IF "reserved" \in off
                  THEN [audit EXCEPT !.stage = "again", !.page = 0, !.seen = {}, !.stable = TRUE, !.alarms = off \ {"reserved"}]
                  ELSE [NoPass EXCEPT !.stable = TRUE, !.alarms = off]
      /\ UNCHANGED <<row, hold, idemp, ledger, call, told, stream, tries, dlq, repair, deployed, defects, failures>>

JudgeAgain ==
  /\ audit.stage = "again" /\ Folded
  /\ audit' = IF row.reserved # audit.c1.reserved THEN NoPass
              ELSE [NoPass EXCEPT !.stable = TRUE,
                      !.alarms = audit.alarms \cup IF audit.c1.reserved # derived_totals(audit.seen).reserved
                                                     THEN {"reserved"} ELSE {}]
  /\ UNCHANGED <<row, hold, idemp, ledger, call, told, stream, tries, dlq, repair, deployed, defects, failures>>

\* What a pass looks for: a counter that moved without its event.
Defect(axis) ==
  /\ "audit" \in deployed.jobs
  /\ defects < MaxDefects /\ defects' = defects + 1
  /\ \/ axis = "settled" /\ late_settle_txn(1)
     \/ axis = "reclaimed" /\ row' = [row EXCEPT !.reclaimed = @ + 1]
  /\ UNCHANGED <<hold, idemp, ledger, call, told, stream, tries, dlq, audit, repair, deployed, failures>>

(***************************************************************************)
(* The repair of the headroom, run over a table whose rows may not have    *)
(* one.  A stale read is a read made earlier.                              *)
(***************************************************************************)
NoRepair == [stage |-> "idle", observed |-> None, target |-> 0]
AtInvariant == row.has /\ Drift = 0

backfill ==
  /\ "repair" \in deployed.jobs /\ repair.stage = "idle" /\ ~AtInvariant
  /\ repair' = [NoRepair EXCEPT !.stage = "read"]
  /\ UNCHANGED <<row, hold, idemp, ledger, call, told, stream, tries, dlq, audit, deployed, defects, failures>>

repair_read ==
  /\ repair.stage = "read"
  /\ repair' = IF AtInvariant THEN NoRepair
               ELSE [stage |-> "write", observed |-> IF row.has THEN row.headroom ELSE None, target |-> Target(row)]
  /\ UNCHANGED <<row, hold, idemp, ledger, call, told, stream, tries, dlq, audit, deployed, defects, failures>>

\* The headroom is written whatever has become of it.
UnmovedM == TRUE
\* It is written over what was read, or over none when there was none.
Unmoved == IF repair.observed = None THEN ~row.has ELSE row.has /\ row.headroom = repair.observed

repair_write ==
  /\ repair.stage = "write"
  /\ \/ /\ Unmoved
        /\ row' = [row EXCEPT !.has = TRUE, !.headroom = repair.target]
        /\ repair' = NoRepair
     \/ /\ ~Unmoved /\ UNCHANGED row
        /\ repair' \in {NoRepair, [NoRepair EXCEPT !.stage = "read"]}
  /\ UNCHANGED <<hold, idemp, ledger, call, told, stream, tries, dlq, audit, deployed, defects, failures>>

-----------------------------------------------------------------------------

\* The row may be older than its headroom.  An old hold is an inline one without any record of its source, or an external one whose
\* RESERVE event has it.
Init ==
  /\ deployed \in Deployments
  /\ \E recorded \in SUBSET deployed.old, has \in BOOLEAN :
       LET held == OldAmount * Cardinality(deployed.old)
       IN  /\ ledger = {reserve_event(h, OldAmount, "external", FALSE) : h \in recorded}
           /\ row = [limit |-> Limit, has |-> has, headroom |-> IF has THEN Limit - held ELSE 0,
                     reserved |-> held, settled |-> 0, reclaimed |-> 0]
  /\ hold = [h \in Holds |-> IF h \in deployed.old THEN [amount |-> OldAmount, source |-> None] ELSE None]
  /\ idemp = [k \in Keys |-> None] /\ told = [k \in Keys |-> {}]
  /\ call = [c \in Callers |-> Idle]
  /\ stream = << >> /\ tries = 0 /\ dlq = {}
  /\ audit = NoPass /\ repair = NoRepair /\ defects = 0 /\ failures = 0

Next ==
  \/ \E c \in Callers : \/ authorize(c) \/ Admit(c) \/ Commit(c) \/ Lost(c) \/ Again(c)
                        \/ settle_external(c) \/ release_external(c) \/ Drop(c)
                        \/ \E h \in Holds : capture(c, h) \/ void(c, h)
  \/ \E h \in Holds : reclaim(h) \/ settle_inline(h)
  \/ Projector
  \/ Begin \/ Fold \/ Judge \/ JudgeAgain
  \/ \E axis \in {"settled", "reclaimed"} : Defect(axis)
  \/ backfill \/ repair_read \/ repair_write

Spec == Init /\ [][Next]_vars /\ WF_vars(Projector)

-----------------------------------------------------------------------------
(***************************************************************************)
(* Properties.                                                             *)
(***************************************************************************)

\* Every authorization that a key's calls were answered with is the same one, and every hold
\* that an authorization made is the one of exactly one key, however many attempts raced.
OneHoldPerKey ==
  /\ \A k \in Keys : Cardinality(told[k]) <= 1
  /\ \A h \in Holds \ (Old \cup fresh) : Cardinality({k \in Keys : idemp[k] # None /\ idemp[k].hold = h}) = 1

\* A pass whose counters held still speaks of one moment, although it folded the partition page
\* by page while events were written: when it reads the counters again, it has found a drift of
\* what was charged exactly if there is one, and one of what was reclaimed likewise as long as
\* it saw no hold of older code end.
PassIsExact ==
  [][LET truth == derived_totals(ledger)
     IN  audit.stage = "fold" /\ audit'.stage # "fold" /\ audit'.stable
           => \A axis \in Axes(derived_totals(audit.seen)) \ {"reserved"} :
                axis \in audit'.alarms <=> row[axis] # truth[axis]]_vars

\* No one moves how far the headroom is from what the other counters leave, whatever interleaves
\* with whatever, except a repair, and that leaves it where it belongs.
RepairIsSound == [][Drift' = Drift \/ (repair_write /\ Drift' = 0)]_vars

\* A new hold reaches the ledger's shadow rows or the dead letters.
EveryReserveIsProjected ==
  \A h \in Holds :
    h \in {stream[i].hold : i \in DOMAIN stream}
      ~> (h \in dlq \/ \E e \in ledger : e.hold = h /\ e.shadow)
=============================================================================
