---------------------------- MODULE HoldLifecycle ----------------------------
(***************************************************************************)
(* One budget pool and the holds reserved against it, from reservation to  *)
(* their single ending.  Every write below is one DynamoDB transaction or  *)
(* one conditional update of backend/mvp/_pipeline.py; the steps between   *)
(* them interleave freely.                                                 *)
(*                                                                         *)
(* Callers are the threads that end holds: the request that owns an inline *)
(* hold, a capture or void call on an external authorization, an operator  *)
(* resolving a retained hold.  Reapers are the threads that happen to run  *)
(* the expired-hold sweep.                                                 *)
(***************************************************************************)
EXTENDS Integers, FiniteSets, Sums

CONSTANTS
  Holds,         \* hold identities (fresh uuids), finite
  Amount,        \* [Holds -> Nat \ {0}]: micro-dollars reserved by each hold
  Tokens,        \* [Holds -> Nat]: tokens debited from the user at reserve
  Source,        \* [Holds -> {"inline", "external"}]
  PoolLimit,     \* pool_limit_microusd of the period row
  CreditLimit,   \* total_credit of the user
  Costs,         \* figures a settle, a capture or an operator may name
  TokenUse,      \* token totals a provider may report
  Callers,       \* threads that end holds
  Reapers,       \* threads that sweep
  RetainFlag,    \* STRATOCLAVE_UNOBSERVED_HOLDS
  Faults,        \* the steps that may fail, see FaultKinds
  MaxFaults,     \* bound: how many of them fail in one behaviour
  MaxCrashes     \* bound: how many threads die in one behaviour

FaultKinds ==
  {"exhaust",    \* a settle runs out of its retries
   "timeout",    \* a settle raises something that is not a ClientError
   "owe",        \* the OWED_SETTLE row cannot be written
   "late",       \* a LATE_SETTLE runs out of its retries
   "release",    \* a release runs out of its retries
   "mark",       \* the departure marker cannot be written
   "retain",     \* the retain write raises
   "reclaim"}    \* a reclaim commits and its answer is lost

ASSUME HoldsAssumption == IsFiniteSet(Holds) /\ Holds # {}
ASSUME AmountAssumption == Amount \in [Holds -> Nat \ {0}]
ASSUME TokensAssumption == Tokens \in [Holds -> Nat]
ASSUME SourceAssumption == Source \in [Holds -> {"inline", "external"}]
ASSUME LimitAssumption == PoolLimit \in Nat /\ CreditLimit \in Nat
ASSUME CostsAssumption == Costs \subseteq Nat /\ TokenUse \subseteq Nat
ASSUME FaultsAssumption ==
  /\ RetainFlag \in BOOLEAN
  /\ Faults \subseteq FaultKinds
  /\ MaxFaults \in Nat
  /\ MaxCrashes \in Nat

VARIABLES
  headroom, reserved, settled,  \* the pool row of the period
  credit,                       \* credit_used of the user
  row,                          \* the HOLD row: its status, or its absence
  departed,                     \* provider_invoked_at is on the HOLD row
  expired,                      \* the expiry in the HOLD row's key has passed
  ended,                        \* the owning process has claimed the ending
  terminal, charge,             \* the TERMINAL ledger cell and its amount
  late,                         \* amount of the LATE_SETTLE event
  owed,                         \* amount of the OWED_SETTLE row
  pc, op, at, amt, reply,       \* callers: next step, call, hold, figure, answer
  rpc, rat,                     \* reapers: next step, hold
  faults, crashes               \* how many have happened

pool == <<headroom, reserved, settled>>
ledger == <<terminal, charge, late, owed>>
flags == <<departed, expired, ended>>
caller == <<pc, op, at, amt, reply>>
reaper == <<rpc, rat>>
budget == <<faults, crashes>>
vars == <<pool, credit, row, flags, ledger, caller, reaper, budget>>

\* An absent LATE_SETTLE event or OWED_SETTLE row.
None == -1

\* The amounts that callers carry around.
Figures == Costs \cup {0}

RowStates == {"unborn", "ACTIVE", "RETAINED", "gone"}
Terminals == {"none", "SETTLE", "RELEASE", "RECLAIM"}
Ops == {"none", "settle", "return", "capture", "void", "charge", "pardon"}
CallerSteps == {"idle", "settle", "owe", "redrive", "late",
                "release", "readback", "giveback"}
Replies == {"none", "done", "200", "409", "410", "500", "503", "404", "crashed"}
ReaperSteps == {"idle", "retain", "reclaim", "bare", "recover", "late"}

\* The type invariant of the pool row, the holds, the ledger and the threads.
TypeOK ==
  /\ headroom \in Int /\ reserved \in Int /\ settled \in Int
  /\ credit \in Nat
  /\ row \in [Holds -> RowStates]
  /\ departed \in [Holds -> BOOLEAN]
  /\ expired \in [Holds -> BOOLEAN]
  /\ ended \in [Holds -> BOOLEAN]
  /\ terminal \in [Holds -> Terminals]
  /\ charge \in [Holds -> Figures]
  /\ late \in [Holds -> Figures \cup {None}]
  /\ owed \in [Holds -> Figures \cup {None}]
  /\ pc \in [Callers -> CallerSteps]
  /\ op \in [Callers -> Ops]
  /\ at \in [Callers -> Holds]
  /\ amt \in [Callers -> Figures]
  /\ reply \in [Callers -> Replies]
  /\ rpc \in [Reapers -> ReaperSteps]
  /\ rat \in [Reapers -> Holds]
  /\ faults \in Nat /\ crashes \in Nat

Init ==
  /\ headroom = PoolLimit /\ reserved = 0 /\ settled = 0
  /\ credit = 0
  /\ row = [h \in Holds |-> "unborn"]
  /\ departed = [h \in Holds |-> FALSE]
  /\ expired = [h \in Holds |-> FALSE]
  /\ ended = [h \in Holds |-> FALSE]
  /\ terminal = [h \in Holds |-> "none"]
  /\ charge = [h \in Holds |-> 0]
  /\ late = [h \in Holds |-> None]
  /\ owed = [h \in Holds |-> None]
  /\ pc = [c \in Callers |-> "idle"]
  /\ op = [c \in Callers |-> "none"]
  /\ at = [c \in Callers |-> CHOOSE h \in Holds : TRUE]
  /\ amt = [c \in Callers |-> 0]
  /\ reply = [c \in Callers |-> "none"]
  /\ rpc = [r \in Reapers |-> "idle"]
  /\ rat = [r \in Reapers |-> CHOOSE h \in Holds : TRUE]
  /\ faults = 0 /\ crashes = 0

-----------------------------------------------------------------------------
(* The writes. *)

\* Mutant of PoolMove: headroom does not follow the spend.
PoolMoveM(dr, ds) ==
  /\ reserved' = reserved + dr
  /\ settled' = settled + ds
  /\ headroom' = headroom - dr

\* Move dr into reserved and ds into settled; headroom moves by the opposite of
\* both, in the same update of the pool row.
PoolMove(dr, ds) ==
  /\ reserved' = reserved + dr
  /\ settled' = settled + ds
  /\ headroom' = headroom - dr - ds

\* Mutant of Open: the transaction conditions on nothing.
OpenM(h) == row[h] # "unborn"

\* The HOLD row is there and its TERMINAL cell is free: what the conditions of
\* the settle and the release transactions ask for.
Open(h) == row[h] \in {"ACTIVE", "RETAINED"} /\ terminal[h] = "none"

\* Mutants of Reclaimable: the reaper's delete without its condition, or with the
\* condition of the settle's delete.
ReclaimableM(h) == row[h] # "unborn"
ReclaimableRetainedM(h) == row[h] \in {"ACTIVE", "RETAINED"} /\ terminal[h] = "none"

\* What the reclaim transaction asks for: a RETAINED hold is not the reaper's.
Reclaimable(h) == row[h] = "ACTIVE" /\ terminal[h] = "none"

\* Mutant of EndHold: no TERMINAL event rides the transaction.
EndHoldM(h, event, a) ==
  /\ PoolMove(-Amount[h], a)
  /\ row' = [row EXCEPT ![h] = "gone"]
  /\ charge' = [charge EXCEPT ![h] = a]
  /\ UNCHANGED <<terminal, late, owed>>

\* One transaction: the reservation leaves the pool, a of it as spend, the HOLD
\* row is deleted and the TERMINAL cell is written.
EndHold(h, event, a) ==
  /\ PoolMove(-Amount[h], a)
  /\ row' = [row EXCEPT ![h] = "gone"]
  /\ terminal' = [terminal EXCEPT ![h] = event]
  /\ charge' = [charge EXCEPT ![h] = a]
  /\ UNCHANGED <<late, owed>>

\* Mutant of TakeBack: no underflow guard.
TakeBackM(used, n) == used - n

\* UserTenantsRepository.refund, and the reversal the reaper and the operator
\* run: a debit is taken back only if credit_used covers it.
TakeBack(used, n) == IF used >= n THEN used - n ELSE used

\* The token side of settle_reservation_and_log: refund what was not used, or
\* debit the overrun, clamped at the user's total.
SettledTokens(used, h, u) ==
  LET top == used + (u - Tokens[h])
  IN  IF u <= Tokens[h] THEN TakeBack(used, Tokens[h] - u)
      ELSE IF top <= CreditLimit THEN top
      ELSE IF used <= CreditLimit THEN CreditLimit ELSE used

\* A step of this kind may still fail.
MayFail(kind) == kind \in Faults /\ faults < MaxFaults

Fail == faults' = faults + 1 /\ UNCHANGED crashes

Goto(c, step) == pc' = [pc EXCEPT ![c] = step] /\ UNCHANGED <<op, at, amt, reply>>

\* The call ends and answers r.
Answer(c, r) ==
  /\ pc' = [pc EXCEPT ![c] = "idle"]
  /\ reply' = [reply EXCEPT ![c] = r]
  /\ UNCHANGED <<op, at, amt>>

\* Start call o on hold h with figure a, at this step.
Begin(c, o, h, a, step) ==
  /\ pc' = [pc EXCEPT ![c] = step]
  /\ op' = [op EXCEPT ![c] = o]
  /\ at' = [at EXCEPT ![c] = h]
  /\ amt' = [amt EXCEPT ![c] = a]
  /\ reply' = [reply EXCEPT ![c] = "none"]

\* A call that is answered as soon as it is made.
Refuse(c, o, h, a, r) ==
  /\ op' = [op EXCEPT ![c] = o]
  /\ at' = [at EXCEPT ![c] = h]
  /\ amt' = [amt EXCEPT ![c] = a]
  /\ reply' = [reply EXCEPT ![c] = r]
  /\ UNCHANGED pc

-----------------------------------------------------------------------------
(* Reserving, and the passing of time. *)

\* Mutant of Reserve: what others hold reserved is not counted.
ReserveM(h) ==
  /\ row[h] = "unborn"
  /\ headroom + reserved >= Amount[h]
  /\ credit + Tokens[h] <= CreditLimit
  /\ PoolMove(Amount[h], 0)
  /\ credit' = credit + Tokens[h]
  /\ row' = [row EXCEPT ![h] = "ACTIVE"]
  /\ UNCHANGED <<flags, ledger, caller, reaper, budget>>

\* The reserve transaction: user debit, pool debit, HOLD row, RESERVE event.
Reserve(h) ==
  /\ row[h] = "unborn"
  /\ headroom >= Amount[h]
  /\ credit + Tokens[h] <= CreditLimit
  /\ PoolMove(Amount[h], 0)
  /\ credit' = credit + Tokens[h]
  /\ row' = [row EXCEPT ![h] = "ACTIVE"]
  /\ UNCHANGED <<flags, ledger, caller, reaper, budget>>

\* The expiry embedded in the HOLD row's key passes.
Expire(h) ==
  /\ row[h] = "ACTIVE"
  /\ ~expired[h]
  /\ expired' = [expired EXCEPT ![h] = TRUE]
  /\ UNCHANGED <<pool, credit, row, departed, ended, ledger, caller, reaper, budget>>

-----------------------------------------------------------------------------
(* The request that owns an inline hold (Hold in mvp/_money.py).  Its claim
   is taken once; what follows is the write of the ending it chose. *)

Claim(h) == /\ Source[h] = "inline"
            /\ row[h] # "unborn"
            /\ ~ended[h]
            /\ ended' = [ended EXCEPT ![h] = TRUE]

\* Usage was observed: tokens are squared first, then the pool side is tried.
ClaimSettle(c, h, a, u) ==
  /\ pc[c] = "idle"
  /\ Claim(h)
  /\ credit' = SettledTokens(credit, h, u)
  /\ Begin(c, "settle", h, a, "settle")
  /\ UNCHANGED <<pool, row, departed, expired, ledger, reaper, budget>>

\* Nothing can have been billed: tokens are refunded first, then the hold is
\* released.
ReturnReservation(c, h) ==
  /\ pc[c] = "idle"
  /\ Claim(h)
  /\ credit' = TakeBack(credit, Tokens[h])
  /\ Begin(c, "return", h, 0, "release")
  /\ UNCHANGED <<pool, row, departed, expired, ledger, reaper, budget>>

\* The call departed and its outcome was not observed: the reservation stays and
\* the fact is written on the HOLD row, if that is still there.
KeepReservation(h) ==
  /\ RetainFlag
  /\ Claim(h)
  /\ departed' = [departed EXCEPT ![h] = @ \/ row[h] # "gone"]
  /\ UNCHANGED <<pool, credit, row, expired, ledger, caller, reaper, budget>>

KeepFails(h) ==
  /\ RetainFlag
  /\ MayFail("mark")
  /\ Claim(h)
  /\ Fail
  /\ UNCHANGED <<pool, credit, row, departed, expired, ledger, caller, reaper>>

-----------------------------------------------------------------------------
(* The endpoints of an external authorization (mvp/billing_authorize.py), and
   the operator who resolves a retained hold. *)

\* _capture_terminal_response: the answer the TERMINAL cell gives.
CaptureReply(h, a) ==
  CASE terminal[h] = "SETTLE" -> IF charge[h] = a THEN "200" ELSE "409"
    [] terminal[h] = "RELEASE" -> "409"
    [] terminal[h] = "RECLAIM" -> "410"
    [] OTHER -> IF row[h] = "gone" THEN "404" ELSE "503"

\* _void_terminal_response.
VoidReply(h) ==
  CASE terminal[h] = "RELEASE" -> "200"
    [] terminal[h] = "SETTLE" -> "409"
    [] terminal[h] = "RECLAIM" -> "410"
    [] OTHER -> IF row[h] = "gone" THEN "404" ELSE "503"

\* Mutant of ResolutionReply: any ending reads as the one that was asked for.
ResolutionReplyM(h, event, a) == IF terminal[h] = "none" THEN "503" ELSE "200"

\* _resolution_outcome: what was asked for must be what landed.
ResolutionReply(h, event, a) ==
  CASE terminal[h] = "none" -> "503"
    [] terminal[h] = event /\ charge[h] = a -> "200"
    [] OTHER -> "409"

\* Capture a of an authorization whose row is there and has not expired.
Capture(c, h, a) ==
  /\ pc[c] = "idle"
  /\ Source[h] = "external"
  /\ row[h] = "ACTIVE"
  /\ ~expired[h]
  /\ a <= Amount[h]
  /\ Begin(c, "capture", h, a, "settle")
  /\ UNCHANGED <<pool, credit, row, flags, ledger, reaper, budget>>

\* A capture that is answered from the ledger (the row is gone) or refused
\* because the published expiry has passed.
CaptureRefused(c, h, a) ==
  /\ pc[c] = "idle"
  /\ Source[h] = "external"
  /\ row[h] # "unborn"
  /\ row[h] = "gone" \/ expired[h]
  /\ a <= Amount[h]
  /\ Refuse(c, "capture", h, a, IF row[h] = "gone" THEN CaptureReply(h, a) ELSE "410")
  /\ UNCHANGED <<pool, credit, row, flags, ledger, reaper, budget>>

\* Void an authorization: its row is read, then released; without a row the
\* ledger answers.  A void does not look at the expiry.
Void(c, h) ==
  /\ pc[c] = "idle"
  /\ Source[h] = "external"
  /\ row[h] # "unborn"
  /\ IF row[h] = "gone" THEN Refuse(c, "void", h, 0, VoidReply(h))
                        ELSE Begin(c, "void", h, 0, "release")
  /\ UNCHANGED <<pool, credit, row, flags, ledger, reaper, budget>>

\* An operator names the provider's figure for a retained hold ...
ResolveCharge(c, h, a) ==
  /\ pc[c] = "idle"
  /\ row[h] = "RETAINED"
  /\ a <= Amount[h]
  /\ Begin(c, "charge", h, a, "settle")
  /\ UNCHANGED <<pool, credit, row, flags, ledger, reaper, budget>>

\* ... or releases it.
ResolveRelease(c, h) ==
  /\ pc[c] = "idle"
  /\ row[h] = "RETAINED"
  /\ Begin(c, "pardon", h, 0, "release")
  /\ UNCHANGED <<pool, credit, row, flags, ledger, reaper, budget>>

-----------------------------------------------------------------------------
(* _settle_pool_side. *)

\* It returns: the request is done, the capture endpoint answers 200, the
\* operator's call reads back what landed.
SettleReturns(c) ==
  \/ op[c] = "capture" /\ Answer(c, "200")
  \/ op[c] = "charge" /\ Goto(c, "readback")
  \/ op[c] \notin {"capture", "charge"} /\ Answer(c, "done")

\* It raises: the request swallows that, the capture endpoint reads the ledger,
\* the operator's call fails.
SettleRaises(c) ==
  \/ op[c] = "capture" /\ Goto(c, "readback")
  \/ op[c] = "charge" /\ Answer(c, "500")
  \/ op[c] \notin {"capture", "charge"} /\ Answer(c, "done")

\* The transaction commits.
SettleCommits(c) ==
  /\ pc[c] = "settle"
  /\ Open(at[c])
  /\ EndHold(at[c], "SETTLE", amt[c])
  /\ SettleReturns(c)
  /\ UNCHANGED <<credit, flags, reaper, budget>>

\* Mutant of SettleRouted: every taken TERMINAL reads as already settled.
SettleRoutedM(c) ==
  /\ pc[c] = "settle"
  /\ terminal[at[c]] # "none"
  /\ SettleReturns(c)
  /\ UNCHANGED <<pool, credit, row, flags, ledger, reaper, budget>>

\* The TERMINAL cell was taken: which event took it decides.  A reclaimed inline
\* hold goes to LATE_SETTLE, a reclaimed authorization answers 410, and a hold
\* that was settled or released is left as it is.
SettleRouted(c) ==
  /\ pc[c] = "settle"
  /\ \/ terminal[at[c]] \in {"SETTLE", "RELEASE"} /\ SettleReturns(c)
     \/ terminal[at[c]] = "RECLAIM" /\ op[c] = "capture" /\ Answer(c, "410")
     \/ terminal[at[c]] = "RECLAIM" /\ op[c] # "capture" /\ Goto(c, "late")
  /\ UNCHANGED <<pool, credit, row, flags, ledger, reaper, budget>>

\* Every retry failed.  The last of them, or none, may have been applied with its
\* answer lost.
SettleExhausted(c) ==
  /\ pc[c] = "settle"
  /\ MayFail("exhaust")
  /\ Fail
  /\ \/ Open(at[c]) /\ EndHold(at[c], "SETTLE", amt[c])
     \/ UNCHANGED <<pool, row, ledger>>
  /\ Goto(c, "owe")
  /\ UNCHANGED <<credit, flags, reaper>>

\* The client raises something other than a ClientError (a read timeout), before
\* or after the transaction was applied.
SettleTimesOut(c) ==
  /\ pc[c] = "settle"
  /\ MayFail("timeout")
  /\ Fail
  /\ \/ Open(at[c]) /\ EndHold(at[c], "SETTLE", amt[c])
     \/ UNCHANGED <<pool, row, ledger>>
  /\ SettleRaises(c)
  /\ UNCHANGED <<credit, flags, reaper>>

\* put_owed_settle after the last retry: first writer wins, a failure is
\* swallowed.
Owe(c) ==
  /\ pc[c] = "owe"
  /\ \/ /\ owed' = [owed EXCEPT ![at[c]] = IF @ = None THEN amt[c] ELSE @]
        /\ UNCHANGED budget
     \/ MayFail("owe") /\ Fail /\ UNCHANGED owed
  /\ Goto(c, "redrive")
  /\ UNCHANGED <<pool, credit, row, flags, terminal, charge, late, reaper>>

\* Mutant of Redrive: only the reaper looks for the other's write.
RedriveM(c) ==
  /\ pc[c] = "redrive"
  /\ SettleReturns(c)
  /\ UNCHANGED <<pool, credit, row, flags, ledger, reaper, budget>>

\* _redrive_owed_after_late_reclaim: if the reclaim is already there, it is this
\* side's turn to book what the row says.
Redrive(c) ==
  /\ pc[c] = "redrive"
  /\ IF terminal[at[c]] = "RECLAIM" /\ owed[at[c]] > 0
     THEN /\ pc' = [pc EXCEPT ![c] = "late"]
          /\ amt' = [amt EXCEPT ![c] = owed[at[c]]]
          /\ UNCHANGED <<op, at, reply>>
     ELSE SettleReturns(c)
  /\ UNCHANGED <<pool, credit, row, flags, ledger, reaper, budget>>

\* Mutant of BookLate: the LATE_SETTLE event is put without attribute_not_exists.
BookLateM(h, a) ==
  IF terminal[h] = "RECLAIM"
  THEN /\ PoolMove(0, a)
       /\ late' = [late EXCEPT ![h] = a]
       /\ UNCHANGED <<row, terminal, charge, owed>>
  ELSE UNCHANGED <<pool, row, ledger>>

\* _recover_spend_via_late_settle: the settled-only update, the LATE_SETTLE event
\* if there is none, and the check that the TERMINAL is a RECLAIM.
BookLate(h, a) ==
  IF terminal[h] = "RECLAIM" /\ late[h] = None
  THEN /\ PoolMove(0, a)
       /\ late' = [late EXCEPT ![h] = a]
       /\ UNCHANGED <<row, terminal, charge, owed>>
  ELSE UNCHANGED <<pool, row, ledger>>

LateSettle(c) ==
  /\ pc[c] = "late"
  /\ BookLate(at[c], amt[c])
  /\ SettleReturns(c)
  /\ UNCHANGED <<credit, flags, reaper, budget>>

\* Its retries run out.  It raises into the settle, or into a redrive, which
\* swallows it.  (Both leave an inline request the same way.)
LateSettleFails(c) ==
  /\ pc[c] = "late"
  /\ MayFail("late")
  /\ Fail
  /\ SettleReturns(c)
  /\ UNCHANGED <<pool, credit, row, flags, ledger, reaper>>

-----------------------------------------------------------------------------
(* ReservationContext.release_pool. *)

\* It always returns: the request is done, the others read back what landed.
ReleaseReturns(c) == IF op[c] = "return" THEN Answer(c, "done") ELSE Goto(c, "readback")

\* The transaction commits, or is cancelled because the hold has ended.
Release(c) ==
  /\ pc[c] = "release"
  /\ IF Open(at[c]) THEN EndHold(at[c], "RELEASE", 0)
                    ELSE UNCHANGED <<pool, row, ledger>>
  /\ ReleaseReturns(c)
  /\ UNCHANGED <<credit, flags, reaper, budget>>

\* Contention outlives _retry_release, or the write raises: the hold stays.
ReleaseFails(c) ==
  /\ pc[c] = "release"
  /\ MayFail("release")
  /\ Fail
  /\ ReleaseReturns(c)
  /\ UNCHANGED <<pool, credit, row, flags, ledger, reaper>>

\* The answer is read from the ledger, not from what the write seemed to do.
ReadBack(c) ==
  /\ pc[c] = "readback"
  /\ \/ op[c] = "capture" /\ Answer(c, CaptureReply(at[c], amt[c]))
     \/ op[c] = "void" /\ Answer(c, VoidReply(at[c]))
     \/ op[c] = "charge" /\ Answer(c, ResolutionReply(at[c], "SETTLE", amt[c]))
     \/ op[c] = "pardon" /\ LET r == ResolutionReply(at[c], "RELEASE", 0)
                            IN  IF r = "200" THEN Goto(c, "giveback") ELSE Answer(c, r)
  /\ UNCHANGED <<pool, credit, row, flags, ledger, reaper, budget>>

\* A released retention gives the user's tokens back, best effort.
GiveBack(c) ==
  /\ pc[c] = "giveback"
  /\ credit' = TakeBack(credit, Tokens[at[c]])
  /\ Answer(c, "200")
  /\ UNCHANGED <<pool, row, flags, ledger, reaper, budget>>

-----------------------------------------------------------------------------
(* _sweep_one_period, one hold at a time. *)

\* Mutant of Scan: a departed hold is passed over instead of retained.
ScanM(r, h) ==
  /\ rpc[r] = "idle"
  /\ row[h] = "ACTIVE" /\ expired[h] /\ ~departed[h]
  /\ rat' = [rat EXCEPT ![r] = h]
  /\ rpc' = [rpc EXCEPT ![r] = "reclaim"]
  /\ UNCHANGED <<pool, credit, row, flags, ledger, caller, budget>>

\* Mutant of Scan: the range scan runs past the expiry ceiling.
ScanEarlyM(r, h) ==
  /\ rpc[r] = "idle"
  /\ row[h] = "ACTIVE"
  /\ rat' = [rat EXCEPT ![r] = h]
  /\ rpc' = [rpc EXCEPT ![r] = "reclaim"]
  /\ UNCHANGED <<pool, credit, row, flags, ledger, caller, budget>>

\* The scan meets an expired ACTIVE hold.  Whether it is to be retained is decided
\* on the row as read here.
Scan(r, h) ==
  /\ rpc[r] = "idle"
  /\ row[h] = "ACTIVE" /\ expired[h]
  /\ rat' = [rat EXCEPT ![r] = h]
  /\ rpc' = [rpc EXCEPT ![r] =
       IF RetainFlag /\ departed[h] /\ Source[h] = "inline" THEN "retain" ELSE "reclaim"]
  /\ UNCHANGED <<pool, credit, row, flags, ledger, caller, budget>>

ReaperGoto(r, step) == rpc' = [rpc EXCEPT ![r] = step] /\ UNCHANGED rat

\* hold_retain: conditional on the row still being ACTIVE; if it is not, the sweep
\* goes on to reclaim.
Retain(r) ==
  /\ rpc[r] = "retain"
  /\ IF row[rat[r]] = "ACTIVE"
     THEN row' = [row EXCEPT ![rat[r]] = "RETAINED"] /\ ReaperGoto(r, "idle")
     ELSE UNCHANGED row /\ ReaperGoto(r, "reclaim")
  /\ UNCHANGED <<pool, credit, flags, ledger, caller, budget>>

RetainFails(r) ==
  /\ rpc[r] = "retain"
  /\ MayFail("retain")
  /\ Fail
  /\ ReaperGoto(r, "reclaim")
  /\ UNCHANGED <<pool, credit, row, flags, ledger, caller>>

\* The reclaim transaction with the token give-back in it.  It is cancelled if
\* the hold has ended; if only the give-back's own guard failed, it is tried
\* again without the give-back.
Reclaim(r) ==
  LET h == rat[r]
  IN  /\ rpc[r] = "reclaim"
      /\ \/ /\ ~Reclaimable(h)
            /\ ReaperGoto(r, "idle")
            /\ UNCHANGED <<pool, credit, row, ledger>>
         \/ /\ Reclaimable(h) /\ credit < Tokens[h]
            /\ ReaperGoto(r, "bare")
            /\ UNCHANGED <<pool, credit, row, ledger>>
         \/ /\ Reclaimable(h) /\ credit >= Tokens[h]
            /\ EndHold(h, "RECLAIM", 0)
            /\ credit' = credit - Tokens[h]
            /\ ReaperGoto(r, "recover")
      /\ UNCHANGED <<flags, caller, budget>>

ReclaimBare(r) ==
  /\ rpc[r] = "bare"
  /\ IF Reclaimable(rat[r])
     THEN EndHold(rat[r], "RECLAIM", 0) /\ ReaperGoto(r, "recover")
     ELSE UNCHANGED <<pool, row, ledger>> /\ ReaperGoto(r, "idle")
  /\ UNCHANGED <<credit, flags, caller, budget>>

\* The reclaim is applied and its answer is lost: the exception handler moves on
\* to the next hold.
ReclaimAnswerLost(r) ==
  /\ rpc[r] = "reclaim"
  /\ MayFail("reclaim")
  /\ Fail
  /\ Reclaimable(rat[r])
  /\ credit >= Tokens[rat[r]]
  /\ EndHold(rat[r], "RECLAIM", 0)
  /\ credit' = credit - Tokens[rat[r]]
  /\ ReaperGoto(r, "idle")
  /\ UNCHANGED <<flags, caller>>

\* Mutant of Recover: a reclaim settles at zero and asks nothing.
RecoverM(r) ==
  /\ rpc[r] = "recover"
  /\ rpc' = [rpc EXCEPT ![r] = "idle"]
  /\ UNCHANGED <<pool, credit, row, flags, ledger, caller, rat, budget>>

\* _recover_owed_settle_after_reclaim: read the owed row of the hold just
\* reclaimed ...
Recover(r) ==
  /\ rpc[r] = "recover"
  /\ ReaperGoto(r, IF owed[rat[r]] > 0 THEN "late" ELSE "idle")
  /\ UNCHANGED <<pool, credit, row, flags, ledger, caller, budget>>

\* ... and book it.
RecoverLate(r) ==
  /\ rpc[r] = "late"
  /\ BookLate(rat[r], owed[rat[r]])
  /\ ReaperGoto(r, "idle")
  /\ UNCHANGED <<credit, flags, caller, budget>>

RecoverLateFails(r) ==
  /\ rpc[r] = "late"
  /\ MayFail("late")
  /\ Fail
  /\ ReaperGoto(r, "idle")
  /\ UNCHANGED <<pool, credit, row, flags, ledger, caller>>

-----------------------------------------------------------------------------
(* Threads die between two writes. *)

CallerDies(c) ==
  /\ pc[c] # "idle"
  /\ crashes < MaxCrashes
  /\ crashes' = crashes + 1
  /\ Answer(c, "crashed")
  /\ UNCHANGED <<pool, credit, row, flags, ledger, reaper, faults>>

ReaperDies(r) ==
  /\ rpc[r] # "idle"
  /\ crashes < MaxCrashes
  /\ crashes' = crashes + 1
  /\ ReaperGoto(r, "idle")
  /\ UNCHANGED <<pool, credit, row, flags, ledger, caller, faults>>

-----------------------------------------------------------------------------

HoldStep(h) == Reserve(h) \/ Expire(h) \/ KeepReservation(h) \/ KeepFails(h)

CallStep(c, h) ==
  \/ \E a \in Costs, u \in TokenUse : ClaimSettle(c, h, a, u)
  \/ ReturnReservation(c, h)
  \/ \E a \in Costs : Capture(c, h, a) \/ CaptureRefused(c, h, a) \/ ResolveCharge(c, h, a)
  \/ Void(c, h)
  \/ ResolveRelease(c, h)

CallerStep(c) ==
  \/ SettleCommits(c) \/ SettleRouted(c) \/ SettleExhausted(c) \/ SettleTimesOut(c)
  \/ Owe(c) \/ Redrive(c) \/ LateSettle(c) \/ LateSettleFails(c)
  \/ Release(c) \/ ReleaseFails(c) \/ ReadBack(c) \/ GiveBack(c)

ReaperStep(r) ==
  \/ \E h \in Holds : Scan(r, h)
  \/ Retain(r) \/ RetainFails(r)
  \/ Reclaim(r) \/ ReclaimBare(r) \/ ReclaimAnswerLost(r)
  \/ Recover(r) \/ RecoverLate(r) \/ RecoverLateFails(r)

Next ==
  \/ \E h \in Holds : HoldStep(h)
  \/ \E c \in Callers, h \in Holds : CallStep(c, h)
  \/ \E c \in Callers : CallerStep(c) \/ CallerDies(c)
  \/ \E r \in Reapers : ReaperStep(r) \/ ReaperDies(r)

Spec == Init /\ [][Next]_vars

\* Reapers run inside every reserve call, so a tenant that keeps sending requests
\* keeps sweeping; the clock goes on; a thread that is not dead takes its next step.
Fairness ==
  /\ \A r \in Reapers : WF_vars(ReaperStep(r))
  /\ \A c \in Callers : WF_vars(CallerStep(c))
  /\ \A h \in Holds : WF_vars(Expire(h))

FairSpec == Spec /\ Fairness

-----------------------------------------------------------------------------
(* What the counters are compared with, per hold. *)

Outstanding == [h \in Holds |-> IF row[h] \in {"ACTIVE", "RETAINED"} THEN Amount[h] ELSE 0]
LateCharge == [h \in Holds |-> IF late[h] = None THEN 0 ELSE late[h]]
Overrun == [h \in Holds |-> IF charge[h] > Amount[h] THEN charge[h] - Amount[h] ELSE 0]

-----------------------------------------------------------------------------
(* Properties. *)

\* The gate counter never drifts from the figures it stands for: whatever the
\* order of reserves, endings, reclaims and late charges, headroom is the limit
\* less what is reserved and settled (the invariant billing/ledger.py states).
Conservation == headroom = PoolLimit - reserved - settled

\* Each reservation leaves the pool exactly once, with its HOLD row: reserved is
\* the sum of the rows that are still there, so nothing is returned twice and
\* nothing leaks when settle, release and reclaim race.
ReservedIsOutstanding == reserved = Total(Outstanding)

\* Counters and ledger agree (C3.5): settled is the sum of the TERMINAL charges
\* and of the LATE_SETTLE events, so no charge is booked twice or off the ledger.
SettledIsLedger == settled = Total(charge) + Total(LateCharge)

\* The hard ceiling: reservations and spend stay within the limit, except for
\* what settles booked above their own reservation and for reservation-less late
\* charges, which hard-ceiling.md excludes by name.
Ceiling == reserved + settled <= PoolLimit + Total(Overrun) + Total(LateCharge)

\* A HOLD row is gone exactly when its TERMINAL cell is written, and a late charge
\* only ever follows a RECLAIM.  So the LegacyHoldNoTerminal branch of the settle,
\* and the 404 of _no_terminal_error, are not reached by holds of this version.
OneEnding ==
  \A h \in Holds : /\ row[h] = "gone" <=> terminal[h] # "none"
                   /\ late[h] # None => terminal[h] = "RECLAIM"

\* The accounts agree, whoever raced whom over a hold and whichever write failed or
\* thread died: the counters of the pool row, the HOLD rows and the ledger's events
\* tell one story, under the ceiling, in which every hold ends once.
Accounts ==
  /\ TypeOK
  /\ Conservation
  /\ ReservedIsOutstanding
  /\ SettledIsLedger
  /\ Ceiling
  /\ OneEnding

\* An OWED_SETTLE row whose hold was reclaimed without its charge always has
\* somebody who is about to book it: the settle that wrote it or the reaper that
\* reclaimed, whichever came second ("together the two orders are total").
OwedNotStranded ==
  \A h \in Holds :
    owed[h] > 0 /\ terminal[h] = "RECLAIM" /\ late[h] = None =>
      \/ \E c \in Callers : at[c] = h /\ pc[c] \in {"redrive", "late"}
      \/ \E r \in Reapers : rat[r] = h /\ rpc[r] \in {"recover", "late"}

\* When the settle of observed usage is done, that very figure is on the TERMINAL,
\* on the LATE_SETTLE event, or on the OWED_SETTLE row (C3.5).
ObservedChargeIsDurable ==
  \A c \in Callers :
    pc[c] = "idle" /\ op[c] = "settle" /\ reply[c] = "done" /\ amt[c] > 0 =>
      \/ terminal[at[c]] = "SETTLE" /\ charge[at[c]] = amt[c]
      \/ late[at[c]] = amt[c]
      \/ owed[at[c]] = amt[c]

\* C3.5 in both orders of the settle that gave up and the sweep that reclaimed:
\* spend that was observed is recorded, and what is owed has somebody to book it.
ObservedSpendIsKept == OwedNotStranded /\ ObservedChargeIsDurable

\* Whoever is told that a void or a resolution succeeded is told the truth: that
\* ending, at that figure, is the one in the ledger, whoever they raced against.
ResolverLearnsWhoWon ==
  \A c \in Callers :
    pc[c] = "idle" /\ reply[c] = "200" =>
      /\ op[c] \in {"void", "pardon"} => terminal[at[c]] = "RELEASE"
      /\ op[c] = "charge" => terminal[at[c]] = "SETTLE" /\ charge[at[c]] = amt[c]

\* The same of a capture: "every pair of concurrent operations on one authorization
\* resolves to one terminal state, and the loser learns which state won" (C9.2).
CaptureLearnsWhoWon ==
  \A c \in Callers :
    pc[c] = "idle" /\ op[c] = "capture" /\ reply[c] = "200" =>
      terminal[at[c]] = "SETTLE" /\ charge[at[c]] = amt[c]

\* The tokens of a hold that nobody has ended are still debited: a give-back never
\* eats another reservation's debit ("the counter is restored iff the pool is").
LiveTokensStayDebited ==
  credit >= Total([h \in Holds |->
    IF row[h] = "ACTIVE" /\ ~ended[h] THEN Tokens[h] ELSE 0])

\* Of two operators who release one retained hold, one gives its counters back:
\* "the loser is detected by reading what actually landed" (resolve_retained_hold).
RetentionGivenBackOnce ==
  \A c, d \in Callers :
    /\ c # d /\ at[c] = at[d] /\ op[c] = "pardon" /\ op[d] = "pardon"
    /\ pc[c] = "giveback"
    => ~(pc[d] = "giveback" \/ reply[d] = "200")

\* An ended reservation cannot be ended again in either direction (C3.4): the
\* TERMINAL cell, its amount and the LATE_SETTLE event are written once.
EndingsAreFinal ==
  [][\A h \in Holds :
       /\ terminal[h] # "none" => terminal'[h] = terminal[h] /\ charge'[h] = charge[h]
       /\ late[h] # None => late'[h] = late[h]]_vars

\* Money held back for a call that departed is resolved by an operator, never
\* handed back by a sweep that read the hold before it was retained.
RetainedIsNotReclaimed ==
  [][\A h \in Holds : row[h] = "RETAINED" => terminal'[h] # "RECLAIM"]_vars

\* An orphaned hold does not tie up the pool for ever: once expired it is
\* reclaimed, retained or ended by its owner.
ExpiredHoldsEnd ==
  \A h \in Holds : expired[h] /\ row[h] = "ACTIVE" ~> row[h] # "ACTIVE"

\* A request's charge that was observed and could not be settled is booked in the
\* end: by the sweep that reclaims its hold, or by the settle that came second.
OwedIsBooked ==
  \A h \in Holds :
    Source[h] = "inline" /\ ~departed[h] /\ owed[h] > 0 ~>
      terminal[h] = "SETTLE" \/ late[h] # None

-----------------------------------------------------------------------------
(* The pool implements the executable specification: threads, retries, owed rows
   and retention are steps that change nothing there. *)

HoldState(h) ==
  IF row[h] = "unborn" THEN "unknown"
  ELSE IF row[h] # "gone" THEN "live"
  ELSE IF terminal[h] = "SETTLE" THEN "settled"
  ELSE IF terminal[h] = "RELEASE" THEN "released"
  ELSE "reaped"

Ledger == INSTANCE BillingLedger
            WITH Actuals <- Figures, Limits <- {PoolLimit}, limit <- PoolLimit,
                 state <- [h \in Holds |-> HoldState(h)],
                 leaseExpired <- expired, spend <- charge

\* Every behaviour of the racing, failing, retrying writers is a behaviour of
\* billing/ledger.py, where each operation is atomic and each hold ends once.
ImplementsLedger == Ledger!Spec

=============================================================================
