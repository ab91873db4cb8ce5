----------------------------- MODULE Admission -----------------------------
(***************************************************************************)
(* The walls one member's requests pass before they are sent: her token    *)
(* credit, her tenant's pool, the quota of the model, and her own dollar   *)
(* ceiling, whose base is the tenant's default, sealed by the first        *)
(* request of a period.  All walls are debited in one transaction, against *)
(* figures that were read before it; they come back one by one, by the     *)
(* request itself, by the sweep that finds its hold expired, or by the     *)
(* operator who resolves it.                                               *)
(***************************************************************************)
EXTENDS Integers, FiniteSets, Sequences, FiniteSetsExt, Functions, Sums

CONSTANTS
  Requests,     \* requests of the member, each with its own thread
  Setters,      \* administrators who change the default
  GrantIds,     \* raises of the member's own ceiling
  Chain,        \* the candidate models of a request, in order
  Cost,         \* the bound that is reserved for a model
  QuotaOf,      \* the tenant's quota on a model, or None
  Tokens,       \* the tokens that a request reserves
  Actuals,      \* what a request may turn out to cost
  TokensUsed,   \* the tokens that it may turn out to use
  Bases,        \* figures an administrator gives as the default
  Totals,       \* figures an administrator gives as the credit
  GrantAmount,  \* the size of a raise
  PoolLimit,    \* the ceiling of the tenant's pool
  LastPeriod,
  Privileged,   \* whether the member is an administrator or a team lead
  RETENTION,    \* periods for which a seal is kept
  MaxAdmin,     \* bound: administrative writes in a behaviour
  MaxFaults,    \* bound: counter updates that fail
  Overlaps      \* whether a hold may be ended by others while its request lives

Models == Range(Chain)

None == -1

ASSUME AdmissionAssumption ==
  /\ LastPeriod \in Nat \ {0} /\ RETENTION \in Nat \ {0}
  /\ {Overlaps, Privileged} \subseteq BOOLEAN /\ {MaxAdmin, MaxFaults} \subseteq Nat

\* Nothing costs less than nothing, and a chain has a first candidate.
ASSUME FiguresAssumption ==
  /\ IsFiniteSet(Requests)
  /\ Chain \in Seq(Models) /\ Chain # << >>
  /\ Cost \in [Models -> Nat] /\ QuotaOf \in [Models -> Nat \cup {None}]
  /\ {Tokens, GrantAmount, PoolLimit} \subseteq Nat
  /\ Actuals \cup TokensUsed \cup Bases \cup Totals \subseteq Nat

VARIABLES
  period,    \* the current month
  tenant,    \* the tenant's row: defaults, their version, the seals
  acked,     \* history: the defaults whose setter was told they are in force
  used,      \* dollars counted against the member, by period
  granted,   \* dollars her live raises add, by period
  quota,     \* dollars counted against each model, by period
  pool,      \* the tenant's pool row of each period
  credit,    \* her token credit
  req,       \* the requests
  setter,    \* the administrators' writes in flight
  grant,     \* the raises
  done,      \* administrative writes so far
  faults     \* failed updates so far

vars == <<period, tenant, acked, used, granted, quota, pool, credit, req, setter,
          grant, done, faults>>

Periods == 1 .. LastPeriod

(***************************************************************************)
(* The default that is in force, and its seal.                             *)
(***************************************************************************)
\* The latest default at or before p.
resolve_user_dollar_default(defaults, p) ==
  LET candidates == {q \in 1 .. p : defaults[q] # None} IN
  IF candidates = {} THEN None ELSE defaults[Max(candidates)]

\* Defaults that a later one in force has replaced.
defaults_to_prune(defaults) ==
  LET effective == {q \in 1 .. period : defaults[q] # None} IN
  IF effective = {} THEN {} ELSE effective \ {Max(effective)}

seals_to_prune(sealed) == {q \in Periods : sealed[q] # None /\ q < period - RETENTION}

Without(f, gone) == [q \in Periods |-> IF q \in gone THEN None ELSE f[q]]

(***************************************************************************)
(* Initial states: no default, no spend; the pool of the first period may  *)
(* be absent, which makes the tenant an unpooled one.                      *)
(***************************************************************************)
\* A request: which wall rows it debited, at what price and in which period.
NoRequest == [pc |-> "idle", p |-> 1, i |-> 1, base |-> None, g |-> 0, seen |-> None,
              hold |-> FALSE, quota |-> FALSE, uq |-> FALSE, actual |-> 0]

NoWrite == [pc |-> "idle", at |-> 1, amount |-> 0, prune |-> {}, first |-> TRUE]

Init ==
  /\ period = 1
  /\ tenant = [defaults |-> [q \in Periods |-> None], version |-> 0,
               sealed |-> [q \in Periods |-> None]]
  /\ acked = tenant.defaults
  /\ used = [q \in Periods |-> 0] /\ granted = used
  /\ quota = [m \in Models |-> [q \in Periods |-> 0]]
  /\ \E there \in {"none", "active"} :
       pool = [q \in Periods |-> [status |-> IF q = 1 THEN there ELSE "none", committed |-> 0]]
  /\ credit \in [total : Totals, used : {0}]
  /\ req = [r \in Requests |-> NoRequest]
  /\ setter = [s \in Setters |-> NoWrite]
  /\ grant = [g \in GrantIds |-> [status |-> "none", at |-> 1]]
  /\ done = 0 /\ faults = 0

Model(r) == Chain[req[r].i]
Price(r) == Cost[Model(r)]

Becomes(r, new) == req' = [req EXCEPT ![r] = new]

Go(r, pc) == Becomes(r, [req[r] EXCEPT !.pc = pc])

Counters == <<used, quota, pool, credit>>

(***************************************************************************)
(* set_user_dollar_default: refuses a period that has begun or is sealed,  *)
(* then writes on condition that it is still not sealed.  A lost write     *)
(* reads again; the period is compared with the clock only once.           *)
(***************************************************************************)
default_read(s, e, a) ==
  /\ tenant.sealed[e] = None
  /\ setter' = [setter EXCEPT ![s] = [pc |-> "write", at |-> e, amount |-> a,
                  prune |-> defaults_to_prune(tenant.defaults), first |-> tenant.version = 0]]
  /\ UNCHANGED <<period, tenant, acked, used, granted, quota, pool, credit, req, grant, faults>>

set_user_dollar_default(s, e, a) ==
  /\ setter[s].pc = "idle" /\ done < MaxAdmin /\ e > period
  /\ default_read(s, e, a)
  /\ done' = done + 1

\* The condition on the seal is left to the check before it.
default_writeM(s) ==
  LET w == setter[s] IN
  /\ w.pc = "write"
  /\ IF w.first = (tenant.version = 0)
     THEN /\ tenant' = [tenant EXCEPT !.version = @ + 1,
                !.defaults = [Without(@, w.prune) EXCEPT ![w.at] = w.amount]]
          /\ acked' = [acked EXCEPT ![w.at] = w.amount]
          /\ setter' = [setter EXCEPT ![s] = NoWrite]
     ELSE setter' = [setter EXCEPT ![s].pc = "again"] /\ UNCHANGED <<tenant, acked>>
  /\ UNCHANGED <<period, used, granted, quota, pool, credit, req, grant, done, faults>>

default_write(s) ==
  LET w == setter[s] IN
  /\ w.pc = "write"
  /\ IF tenant.sealed[w.at] = None /\ w.first = (tenant.version = 0)
     THEN /\ tenant' = [tenant EXCEPT !.version = @ + 1,
                !.defaults = [Without(@, w.prune) EXCEPT ![w.at] = w.amount]]
          /\ acked' = [acked EXCEPT ![w.at] = w.amount]
          /\ setter' = [setter EXCEPT ![s] = NoWrite]
     ELSE setter' = [setter EXCEPT ![s].pc = "again"] /\ UNCHANGED <<tenant, acked>>
  /\ UNCHANGED <<period, used, granted, quota, pool, credit, req, grant, done, faults>>

default_again(s) ==
  /\ setter[s].pc = "again"
  /\ \/ default_read(s, setter[s].at, setter[s].amount)
     \/ /\ tenant.sealed[setter[s].at] # None
        /\ setter' = [setter EXCEPT ![s] = NoWrite]
        /\ UNCHANGED <<period, tenant, acked, used, granted, quota, pool, credit, req, grant, faults>>
  /\ UNCHANGED done

(***************************************************************************)
(* A request is admitted: reserve_credit for one candidate after another.  *)
(***************************************************************************)
Unmoved == <<period, acked, granted, setter, grant, done, faults>>

reserve_credit_for_model(r) ==
  /\ req[r].pc = "idle"
  /\ Becomes(r, [req[r] EXCEPT !.pc = "seal", !.p = period])
  /\ UNCHANGED <<Unmoved, tenant, Counters>>

\* seal_user_dollar_base, up to its conditional write.
seal_read(r) ==
  LET p == req[r].p
      resolved == resolve_user_dollar_default(tenant.defaults, p) IN
  /\ req[r].pc = "seal"
  /\ \/ /\ tenant.sealed[p] # None
        /\ Becomes(r, [req[r] EXCEPT !.pc = "granted", !.base = tenant.sealed[p]])
     \/ /\ tenant.sealed[p] = None /\ resolved = None
        /\ Becomes(r, [req[r] EXCEPT !.pc = "txn", !.base = None, !.g = 0])
     \/ /\ tenant.sealed[p] = None /\ resolved # None
        /\ Becomes(r, [req[r] EXCEPT !.pc = "sealing", !.base = resolved, !.seen = tenant.version])
  /\ UNCHANGED <<Unmoved, tenant, Counters>>

seal_write(r) ==
  LET p == req[r].p IN
  /\ req[r].pc = "sealing"
  /\ IF tenant.version = req[r].seen /\ tenant.sealed[p] = None
     THEN /\ tenant' = [tenant EXCEPT
                !.sealed = [Without(@, seals_to_prune(@)) EXCEPT ![p] = req[r].base]]
          /\ Go(r, "granted")
     ELSE Go(r, "seal") /\ UNCHANGED tenant
  /\ UNCHANGED <<Unmoved, Counters>>

read_granted_microusd(r) ==
  /\ req[r].pc = "granted"
  /\ Becomes(r, [req[r] EXCEPT !.pc = "txn", !.g = granted[req[r].p]])
  /\ UNCHANGED <<Unmoved, tenant, Counters>>

\* The conditions of the transaction's items.
CreditFits == credit.used <= credit.total - Tokens

\* An absent row of a tenant that had one is a fault, and not an unpooled tenant.
previously_pooled(p) == p > 1 /\ pool[p - 1].status # "none"

PoolFits(r) ==
  LET row == pool[req[r].p] IN
  CASE row.status = "none" -> ~previously_pooled(req[r].p)
    [] row.status = "suspended" -> FALSE
    [] OTHER -> row.committed + Price(r) <= PoolLimit

QuotaFits(r) ==
  \/ QuotaOf[Model(r)] = None
  \/ quota[Model(r)][req[r].p] <= QuotaOf[Model(r)] - Price(r)

uq_ceiling(r) == req[r].base + req[r].g

\* The wall compares with the ceiling as it was read and asks nothing of the raises.
UserFitsM(r) ==
  \/ req[r].base = None
  \/ used[req[r].p] <= uq_ceiling(r) - Price(r)

UserFits(r) ==
  \/ req[r].base = None
  \/ /\ used[req[r].p] <= uq_ceiling(r) - Price(r)
     /\ granted[req[r].p] >= req[r].g

\* Quota and user counters of a request move together.
Adjust(r, d) ==
  /\ used' = IF req[r].uq THEN [used EXCEPT ![req[r].p] = @ + d] ELSE used
  /\ quota' = IF req[r].quota THEN [quota EXCEPT ![Model(r)][req[r].p] = @ + d] ELSE quota

\* The items every transaction carries: her credit, the quota of the model, her counter.
WallItems(r) ==
  LET p == req[r].p
      lines == QuotaOf[Model(r)] # None
      wall == req[r].base # None IN
  /\ req[r].pc = "txn" /\ CreditFits /\ QuotaFits(r) /\ UserFits(r)
  /\ credit' = [credit EXCEPT !.used = @ + Tokens]
  /\ used' = IF wall THEN [used EXCEPT ![p] = @ + Price(r)] ELSE used
  /\ quota' = IF lines THEN [quota EXCEPT ![Model(r)][p] = @ + Price(r)] ELSE quota
  /\ Becomes(r, [req[r] EXCEPT !.pc = "live", !.hold = (pool[p].status # "none"),
                               !.quota = lines, !.uq = wall])
  /\ UNCHANGED <<Unmoved, tenant>>

reserve_credit(r) ==
  /\ pool[req[r].p].status # "none" /\ PoolFits(r)
  /\ WallItems(r)
  /\ pool' = [pool EXCEPT ![req[r].p].committed = @ + Price(r)]

\* A tenant that never had a pool: the other walls, and no hold.
reserve_quota_without_pool(r) ==
  /\ pool[req[r].p].status = "none" /\ PoolFits(r)
  /\ WallItems(r)
  /\ UNCHANGED pool

\* QuotaExhausted: the next candidate is tried from the start, the last one is refused.
next_candidate(r) ==
  /\ req[r].pc = "txn" /\ CreditFits /\ PoolFits(r) /\ ~QuotaFits(r)
  /\ \/ /\ req[r].i < Len(Chain)
        /\ Becomes(r, [req[r] EXCEPT !.pc = "seal", !.i = @ + 1, !.base = None, !.g = 0])
     \/ req[r].i = Len(Chain) /\ Go(r, "refused")
  /\ UNCHANGED <<Unmoved, tenant, Counters>>

\* 402 by another wall, or 503 when the rows stay contended: nothing has moved.
refuse(r) ==
  /\ req[r].pc \in {"sealing", "txn"}
  /\ Go(r, "refused")
  /\ UNCHANGED <<Unmoved, tenant, Counters>>

(***************************************************************************)
(* The request ends.  A settle moves the tokens, then the pool, then the   *)
(* quota and the member's counter; a release does the same with nothing to *)
(* charge.  HoldLifecycle has the pool's side in detail.                   *)
(***************************************************************************)
PoolMove(r, d) == pool' = [pool EXCEPT ![req[r].p].committed = @ + d]

\* UserTenantsRepository.refund: nothing below zero.
refund(t) == credit' = [credit EXCEPT !.used = IF @ >= t THEN @ - t ELSE @]

\* A refund of what was not used, or a second debit, clamped to what is left.
settle_tokens(t) ==
  LET left == Max({credit.total - credit.used, 0}) IN
  IF t <= Tokens THEN refund(Tokens - t)
  ELSE \E more \in IF t - Tokens <= left THEN {t - Tokens} ELSE {left, 0} :
         credit' = [credit EXCEPT !.used = @ + more]

settle_reservation(r, a, t) ==
  /\ req[r].pc = "live"
  /\ settle_tokens(t)
  /\ Becomes(r, [req[r] EXCEPT !.pc = "settling", !.actual = a])
  /\ UNCHANGED <<Unmoved, tenant, used, quota, pool>>

\* A hold that is gone is charged late.
settle_pool_side(r) ==
  LET a == req[r].actual IN
  /\ req[r].pc = "settling"
  /\ IF pool[req[r].p].status = "none" THEN UNCHANGED pool
     ELSE PoolMove(r, IF req[r].hold THEN a - Price(r) ELSE a)
  /\ Becomes(r, [req[r] EXCEPT !.pc = "settled_pool", !.hold = FALSE])
  /\ UNCHANGED <<Unmoved, tenant, used, quota, credit>>

\* The counters give the reservation back and forget the charge.
settle_quota_forM(r) ==
  /\ req[r].pc = "settled_pool"
  /\ Adjust(r, -Price(r))
  /\ Go(r, "settled")
  /\ UNCHANGED <<Unmoved, tenant, pool, credit>>

settle_quota_for(r) ==
  /\ req[r].pc = "settled_pool"
  /\ Adjust(r, req[r].actual - Price(r))
  /\ Go(r, "settled")
  /\ UNCHANGED <<Unmoved, tenant, pool, credit>>

\* return_reservation: the tokens, then the pool.
return_reservation(r) ==
  /\ req[r].pc = "live"
  /\ refund(Tokens)
  /\ IF req[r].hold THEN PoolMove(r, -Price(r)) ELSE UNCHANGED pool
  /\ Becomes(r, [req[r] EXCEPT !.pc = "released_pool", !.hold = FALSE])
  /\ UNCHANGED <<Unmoved, tenant, used, quota>>

release_quota_for(r) ==
  /\ req[r].pc = "released_pool"
  /\ Adjust(r, -Price(r))
  /\ Go(r, "released")
  /\ UNCHANGED <<Unmoved, tenant, pool, credit>>

\* The update of the counters is swallowed when it fails.
adjust_fails(r) ==
  /\ faults < MaxFaults
  /\ \/ req[r].pc = "settled_pool" /\ Go(r, "settled")
     \/ req[r].pc = "released_pool" /\ Go(r, "released")
  /\ faults' = faults + 1
  /\ UNCHANGED <<period, acked, granted, setter, grant, done, tenant, Counters>>

\* keep_reservation: the call left and nobody knows what it did.
keep_reservation(r) ==
  /\ req[r].pc = "live" /\ req[r].hold
  /\ Go(r, "kept")
  /\ UNCHANGED <<Unmoved, tenant, Counters>>

crash(r) ==
  /\ faults < MaxFaults
  /\ \/ req[r].pc \in {"live", "settling"} /\ Go(r, "dead")
     \/ req[r].pc \in {"seal", "sealing", "granted", "txn"} /\ Go(r, "refused")
  /\ faults' = faults + 1
  /\ UNCHANGED <<period, acked, granted, setter, grant, done, tenant, Counters>>

\* What the hold says of the other counters is given back, all of it or nothing: the
\* token item refuses to go below zero and takes the rest with it.
hold_counter_reversal(r) ==
  IF credit.used >= Tokens
  THEN refund(Tokens) /\ Adjust(r, -Price(r))
  ELSE UNCHANGED <<credit, used, quota>>

\* The sweep's transaction: the pool's share, with the other counters or without them.
reclaim(r) ==
  /\ req[r].hold /\ (req[r].pc = "dead" \/ (Overlaps /\ req[r].pc \in {"live", "settling"}))
  /\ PoolMove(r, -Price(r))
  /\ hold_counter_reversal(r)
  /\ Becomes(r, [req[r] EXCEPT !.pc = IF @ = "dead" THEN "reclaimed" ELSE @, !.hold = FALSE])
  /\ UNCHANGED <<Unmoved, tenant>>

\* The operator releases a kept hold, then gives the counters back as best she can.
resolve_release(r) ==
  /\ req[r].pc = "kept"
  /\ PoolMove(r, -Price(r))
  /\ Becomes(r, [req[r] EXCEPT !.pc = "reversing", !.hold = FALSE])
  /\ UNCHANGED <<Unmoved, tenant, used, quota, credit>>

reverse_retained_hold_counters(r) ==
  /\ req[r].pc = "reversing"
  /\ hold_counter_reversal(r)
  /\ Go(r, "released")
  /\ UNCHANGED <<Unmoved, tenant, pool>>

\* A charge settles the pool alone: the counters keep the whole reservation.
resolve_charge(r, a) ==
  /\ req[r].pc = "kept" /\ a <= Price(r)
  /\ PoolMove(r, a - Price(r))
  /\ Becomes(r, [req[r] EXCEPT !.pc = "charged", !.hold = FALSE, !.actual = a])
  /\ UNCHANGED <<Unmoved, tenant, used, quota, credit>>

(***************************************************************************)
(* Administration: raises of the member's ceiling, her credit, the pool.   *)
(***************************************************************************)
Administer == done < MaxAdmin /\ done' = done + 1

\* approve_limit_raise on the member's wall: the pool must have that much left.
approve_user_raise(g) ==
  LET row == pool[period] IN
  /\ Administer
  /\ grant[g].status = "none" /\ row.status = "active"
  /\ PoolLimit - row.committed >= GrantAmount
  /\ granted' = [granted EXCEPT ![period] = @ + GrantAmount]
  /\ grant' = [grant EXCEPT ![g] = [status |-> "ACTIVE", at |-> period]]
  /\ UNCHANGED <<period, tenant, acked, Counters, req, setter, faults>>

\* revoke_grant and the sweep of expired grants.
revoke_user_raise(g) ==
  LET at == grant[g].at IN
  /\ grant[g].status = "ACTIVE" /\ granted[at] >= GrantAmount
  /\ granted' = [granted EXCEPT ![at] = @ - GrantAmount]
  /\ grant' = [grant EXCEPT ![g].status = "REVOKED"]
  /\ UNCHANGED <<period, tenant, acked, Counters, req, setter, done, faults>>

\* A new total, a reset of what was used, or both.
overwrite_credit(total, reset) ==
  /\ Administer
  /\ credit' = [total |-> total, used |-> IF reset THEN 0 ELSE credit.used]
  /\ credit' # credit
  /\ UNCHANGED <<period, tenant, acked, used, granted, quota, pool, req, setter, grant, faults>>

\* An administrator's form, and a team lead's, which is refused for privileged members.
set_credit(total, reset) == overwrite_credit(total, reset)
set_member_credit(total, reset) == ~Privileged /\ overwrite_credit(total, reset)

\* The pool row of the current period is created, suspended or reopened.
set_pool(status) ==
  /\ Administer
  /\ pool[period].status # status
  /\ pool' = [pool EXCEPT ![period].status = status]
  /\ UNCHANGED <<period, tenant, acked, used, granted, quota, credit, req, setter, grant, faults>>

\* The month's row is carried over from the last one, by the daily job or an approval.
ensure_current_period_row ==
  /\ pool[period].status = "none" /\ previously_pooled(period)
  /\ pool' = [pool EXCEPT ![period].status = pool[period - 1].status]
  /\ UNCHANGED <<period, tenant, acked, used, granted, quota, credit, req, setter, grant, done, faults>>

\* A month passes; no request and no write stays in flight for a whole one.
tick ==
  /\ period < LastPeriod
  /\ \A r \in Requests : req[r].pc \in {"idle", "refused", "settled", "released", "dead", "kept", "reclaimed",
                                          "charged"} \/ req[r].p = period
  /\ \A s \in Setters : setter[s].pc # "idle" => setter[s].at > period
  /\ period' = period + 1
  /\ UNCHANGED <<tenant, acked, used, granted, quota, pool, credit, req, setter, grant, done, faults>>

Administration ==
  \/ \E s \in Setters :
       \/ \E e \in Periods, a \in Bases : set_user_dollar_default(s, e, a)
       \/ default_write(s)
       \/ default_again(s)
  \/ \E g \in GrantIds : approve_user_raise(g) \/ revoke_user_raise(g)
  \/ \E total \in Totals, reset \in BOOLEAN : set_credit(total, reset) \/ set_member_credit(total, reset)
  \/ \E status \in {"active", "suspended"} : set_pool(status)
  \/ ensure_current_period_row

Admit(r) ==
  \/ reserve_credit_for_model(r)
  \/ seal_read(r)
  \/ seal_write(r)
  \/ read_granted_microusd(r)
  \/ reserve_credit(r)
  \/ reserve_quota_without_pool(r)
  \/ next_candidate(r)
  \/ refuse(r)

End(r) ==
  \/ \E a \in Actuals, t \in TokensUsed : settle_reservation(r, a, t)
  \/ settle_pool_side(r)
  \/ settle_quota_for(r)
  \/ return_reservation(r)
  \/ release_quota_for(r)
  \/ adjust_fails(r)
  \/ keep_reservation(r)
  \/ crash(r)
  \/ reclaim(r)
  \/ resolve_release(r)
  \/ reverse_retained_hold_counters(r)
  \/ \E a \in Actuals : resolve_charge(r, a)

Next == Administration \/ (\E r \in Requests : Admit(r) \/ End(r)) \/ tick

Spec == Init /\ [][Next]_vars

(***************************************************************************)
(* Properties.                                                             *)
(***************************************************************************)
\* A period is sealed with the default whose setter was last told that it is in force
\* for it: sealing never uses a default that was replaced between its read and its
\* write, and a setter is never told of a default that a seal has already passed over.
SealedAsAcked ==
  \A p \in Periods : tenant.sealed[p] # None =>
    tenant.sealed[p] = resolve_user_dollar_default(acked, p)

\* When a request is admitted, every wall holds on the figures of that moment, though
\* its base and its raises were read earlier and may have been revoked since: the
\* member's counter is within the sealed base and the live raises, the model's within its
\* quota, the pool within its limit and the tokens within the credit.
AdmittedFits ==
  [][\A r \in Requests : req[r].pc = "txn" /\ req'[r].pc = "live" =>
       LET p == req[r].p m == Model(r) IN
       /\ req'[r].uq => used'[p] <= tenant'.sealed[p] + granted'[p]
       /\ QuotaOf[m] # None => quota'[m][p] <= QuotaOf[m]
       /\ req'[r].hold => pool'[p].committed <= PoolLimit
       /\ credit'.used <= credit'.total]_vars

\* What a request still owes a counter: its reservation while it runs, its charge
\* afterwards, without the overrun, whose update may be lost.
Due(r) ==
  CASE req[r].pc \in {"live", "settling", "kept", "dead"} -> Price(r)
    [] req[r].pc \in {"settled_pool", "settled", "charged"} -> Min({req[r].actual, Price(r)})
    [] OTHER -> 0

\* No ending, in any order with the sweep, an operator, a crash or a failed update,
\* makes a wall forget money: the member's counter and each quota are never below what
\* her running requests reserve and her finished ones cost.
NeverUndercounted ==
  \A p \in Periods :
    /\ used[p] >= Total([r \in Requests |-> IF req[r].uq /\ req[r].p = p THEN Due(r) ELSE 0])
    /\ \A m \in Models : quota[m][p] >=
         Total([r \in Requests |-> IF req[r].quota /\ req[r].p = p /\ Model(r) = m
                                     THEN Due(r) ELSE 0])

=============================================================================
