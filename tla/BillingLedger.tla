---------------------------- MODULE BillingLedger ----------------------------
(***************************************************************************)
(* What the pool promises, without DynamoDB: the executable specification  *)
(* of backend/billing/ledger.py, in which every operation is one step.     *)
(* HoldLifecycle is shown to implement it.  The one operation ledger.py    *)
(* does not have is LateSettle, the charge that arrives after its hold was *)
(* reaped (_recover_spend_via_late_settle).                                *)
(***************************************************************************)
EXTENDS Integers

CONSTANTS
  Holds,     \* hold identities, finite
  Amount,    \* [Holds -> Nat \ {0}]
  Actuals,   \* spend a settle may record, a subset of Nat
  Limits     \* ceilings an administrator may set

VARIABLES
  limit, headroom, reserved, settled,  \* the counters of the pool row
  state,                               \* hold_state(hold_id)
  leaseExpired,                        \* _Hold.expired
  spend,                               \* what each hold recorded as spend
  late                                 \* what was recorded after it was reaped

counters == <<limit, headroom, reserved, settled>>
vars == <<counters, state, leaseExpired, spend, late>>

Unbooked == -1

Init ==
  /\ limit \in Limits
  /\ headroom = limit /\ reserved = 0 /\ settled = 0
  /\ state = [h \in Holds |-> "unknown"]
  /\ leaseExpired = [h \in Holds |-> FALSE]
  /\ spend = [h \in Holds |-> 0]
  /\ late = [h \in Holds |-> Unbooked]

\* Admit a hold iff it fits under the ceiling with all that is reserved and spent.
reserve(h) ==
  /\ state[h] = "unknown"
  /\ reserved + settled + Amount[h] <= limit
  /\ reserved' = reserved + Amount[h]
  /\ headroom' = headroom - Amount[h]
  /\ state' = [state EXCEPT ![h] = "live"]
  /\ UNCHANGED <<limit, settled, leaseExpired, spend, late>>

\* Return the reservation, record what was really spent, more or less.
settle(h, actual) ==
  /\ state[h] = "live"
  /\ reserved' = reserved - Amount[h]
  /\ settled' = settled + actual
  /\ headroom' = headroom + Amount[h] - actual
  /\ state' = [state EXCEPT ![h] = "settled"]
  /\ spend' = [spend EXCEPT ![h] = actual]
  /\ UNCHANGED <<limit, leaseExpired, late>>

\* Return the reservation without spend.
release(h) ==
  /\ state[h] = "live"
  /\ reserved' = reserved - Amount[h]
  /\ headroom' = headroom + Amount[h]
  /\ state' = [state EXCEPT ![h] = "released"]
  /\ UNCHANGED <<limit, settled, leaseExpired, spend, late>>

expire_lease(h) ==
  /\ state[h] = "live" /\ ~leaseExpired[h]
  /\ leaseExpired' = [leaseExpired EXCEPT ![h] = TRUE]
  /\ UNCHANGED <<counters, state, spend, late>>

\* One hold of reap_expired: its owner died, the reservation returns unspent.
reap(h) ==
  /\ state[h] = "live" /\ leaseExpired[h]
  /\ reserved' = reserved - Amount[h]
  /\ headroom' = headroom + Amount[h]
  /\ state' = [state EXCEPT ![h] = "reaped"]
  /\ UNCHANGED <<limit, settled, leaseExpired, spend, late>>

\* The owner was alive after all: its spend is recorded, once, with no reservation
\* behind it.
LateSettle(h, actual) ==
  /\ state[h] = "reaped" /\ late[h] = Unbooked
  /\ settled' = settled + actual
  /\ headroom' = headroom - actual
  /\ late' = [late EXCEPT ![h] = actual]
  /\ UNCHANGED <<limit, reserved, state, leaseExpired, spend>>

\* An administrator moves the ceiling; headroom moves by the same delta.
set_limit(new) ==
  /\ new # limit
  /\ limit' = new
  /\ headroom' = headroom + new - limit
  /\ UNCHANGED <<reserved, settled, state, leaseExpired, spend, late>>

Next ==
  \/ \E h \in Holds : reserve(h) \/ release(h) \/ expire_lease(h) \/ reap(h)
  \/ \E h \in Holds, actual \in Actuals : settle(h, actual) \/ LateSettle(h, actual)
  \/ \E new \in Limits : set_limit(new)

Spec == Init /\ [][Next]_vars

=============================================================================
