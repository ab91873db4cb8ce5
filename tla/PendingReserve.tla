---------------------------- MODULE PendingReserve ---------------------------
(***************************************************************************)
(* An external authorization under the PENDING protocol: the intent, the   *)
(* HOLD row, the pool debit and the activation are four writes, not one    *)
(* transaction, so a process may die or stall between any two of them.     *)
(* What ties them together is the MARKER item, written with the debit.     *)
(*                                                                         *)
(* Callers are the threads of authorize, capture and void; Reconcilers run *)
(* reconcile_pool.  A hold stands for one Idempotency-Key: its hold_id is  *)
(* derived from the key.                                                   *)
(***************************************************************************)
EXTENDS Integers, FiniteSets, Sums

CONSTANTS
  Holds,         \* one per Idempotency-Key, finite
  Amount,        \* [Holds -> Nat \ {0}]: micro-dollars each asks for
  Limit,         \* pool_limit_microusd
  Costs,         \* figures a capture may name
  Callers,       \* threads of authorize, capture and void
  Reconcilers,   \* threads of reconcile_pool
  Prompt,        \* no debit is sent after its hold's expiry, see Expire
  Faults,        \* the steps that may fail, see FaultKinds
  MaxFaults,     \* bound: how many of them fail in one behaviour
  MaxCrashes     \* bound: how many threads die in one behaviour

FaultKinds ==
  {"commit",     \* the debit transaction has no clear outcome
   "status",     \* a best-effort status write of a HOLD row is lost
   "credit",     \* a credit-back is cancelled by a conflict or a throttle
   "marker"}     \* a best-effort marker settle is lost

ASSUME HoldsAssumption == IsFiniteSet(Holds) /\ Holds # {}
ASSUME AmountAssumption == Amount \in [Holds -> Nat \ {0}]
ASSUME LimitAssumption == Limit \in Nat /\ Costs \subseteq Nat
ASSUME FaultsAssumption ==
  /\ Prompt \in BOOLEAN
  /\ Faults \subseteq FaultKinds
  /\ MaxFaults \in Nat
  /\ MaxCrashes \in Nat

VARIABLES
  headroom, reserved, settled,  \* the pool row
  idemp,                        \* the IDEMP intent row is written
  status,                       \* the HOLD row: its status, or its absence
  terminal,                     \* the TERMINAL ledger cell
  marker,                       \* the MARKER item: its phase, or its absence
  expired,                      \* the expiry in the HOLD row's key has passed
  issued,                       \* some client was told the authorization_id
  pc, op, at, reply,            \* callers: next step, call, hold, answer
  rpc, rat,                     \* reconcilers: next step, hold
  faults, crashes               \* how many have happened

pool == <<headroom, reserved, settled>>
hold == <<idemp, status, terminal, marker, expired>>
caller == <<pc, op, at, reply, issued>>
reconciler == <<rpc, rat>>
budget == <<faults, crashes>>
vars == <<pool, hold, caller, reconciler, budget>>

Statuses == {"none", "PENDING", "ACTIVE", "EXPIRED_UNCREDITED", "RECLAIMED",
             "FAILED", "gone"}
Terminals == {"none", "SETTLE", "RELEASE", "RECLAIM"}
Phases == {"none", "RESERVED", "SETTLED"}
CallerSteps == {"idle", "hold", "commit", "probe", "fail", "activate",
                "evidence", "verdict", "help", "end", "mark"}
Ops == {"none", "authorize", "capture", "void"}
Replies == {"none", "402"}
ReconcilerSteps == {"idle", "look", "credit", "retire"}

\* The type invariant of the pool row, the holds and the threads.
TypeOK ==
  /\ headroom \in Int /\ reserved \in Nat /\ settled \in Nat
  /\ idemp \in [Holds -> BOOLEAN]
  /\ status \in [Holds -> Statuses]
  /\ terminal \in [Holds -> Terminals]
  /\ marker \in [Holds -> Phases]
  /\ expired \in [Holds -> BOOLEAN]
  /\ issued \in [Holds -> BOOLEAN]
  /\ pc \in [Callers -> CallerSteps]
  /\ op \in [Callers -> Ops]
  /\ at \in [Callers -> Holds]
  /\ reply \in [Callers -> Replies]
  /\ rpc \in [Reconcilers -> ReconcilerSteps]
  /\ rat \in [Reconcilers -> Holds]
  /\ faults \in Nat /\ crashes \in Nat

Init ==
  /\ headroom = Limit /\ reserved = 0 /\ settled = 0
  /\ idemp = [h \in Holds |-> FALSE]
  /\ status = [h \in Holds |-> "none"]
  /\ terminal = [h \in Holds |-> "none"]
  /\ marker = [h \in Holds |-> "none"]
  /\ expired = [h \in Holds |-> FALSE]
  /\ issued = [h \in Holds |-> FALSE]
  /\ pc = [c \in Callers |-> "idle"]
  /\ op = [c \in Callers |-> "none"]
  /\ at = [c \in Callers |-> CHOOSE h \in Holds : TRUE]
  /\ reply = [c \in Callers |-> "none"]
  /\ rpc = [r \in Reconcilers |-> "idle"]
  /\ rat = [r \in Reconcilers |-> CHOOSE h \in Holds : TRUE]
  /\ faults = 0 /\ crashes = 0

-----------------------------------------------------------------------------
(* The writes. *)

\* Mutant of PoolMove: headroom does not follow the spend.
PoolMoveM(dr, ds) ==
  /\ reserved' = reserved + dr
  /\ settled' = settled + ds
  /\ headroom' = headroom - dr

\* Move dr into reserved and ds into settled; headroom follows.
PoolMove(dr, ds) ==
  /\ reserved' = reserved + dr
  /\ settled' = settled + ds
  /\ headroom' = headroom - dr - ds

\* _status_transition: a conditional status write; False if the row has moved on.
Transition(h, from, to) ==
  status' = [status EXCEPT ![h] = IF @ = from THEN to ELSE @]

MayFail(kind) == kind \in Faults /\ faults < MaxFaults

Fail == faults' = faults + 1 /\ UNCHANGED crashes

\* A best-effort write: done, or lost and swallowed.
Lost(kind) == MayFail(kind) /\ Fail

Goto(c, step) == pc' = [pc EXCEPT ![c] = step] /\ UNCHANGED <<op, at, reply, issued>>

Begin(c, o, h, step) ==
  /\ pc' = [pc EXCEPT ![c] = step]
  /\ op' = [op EXCEPT ![c] = o]
  /\ at' = [at EXCEPT ![c] = h]
  /\ reply' = [reply EXCEPT ![c] = "none"]
  /\ UNCHANGED issued

\* The call is over.  Of its answer only a refusal for want of budget is kept: it is
\* the one that a property asks about later.
Return(c, r) ==
  /\ pc' = [pc EXCEPT ![c] = "idle"]
  /\ op' = [op EXCEPT ![c] = "none"]
  /\ reply' = [reply EXCEPT ![c] = IF r = "402" THEN r ELSE "none"]
  /\ UNCHANGED at

Answer(c, r) == Return(c, r) /\ UNCHANGED issued

\* The authorize call answers with the authorization_id.
Authorized(c) ==
  /\ Return(c, "200")
  /\ issued' = [issued EXCEPT ![at[c]] = TRUE]

-----------------------------------------------------------------------------
(* reserve_external_authorization and _reserve_external_pending. *)

\* The conditional put of the intent decides who makes the attempt; everybody else
\* who brings the key resolves it by reading.
Authorize(c, h) ==
  /\ pc[c] = "idle"
  /\ Begin(c, "authorize", h, IF idemp[h] THEN "evidence" ELSE "hold")
  /\ idemp' = [idemp EXCEPT ![h] = TRUE]
  /\ UNCHANGED <<pool, status, terminal, marker, expired, reconciler, budget>>

\* Step 1: the HOLD row is written ahead of the debit.
PutHold(c) ==
  /\ pc[c] = "hold"
  /\ Transition(at[c], "none", "PENDING")
  /\ Goto(c, "commit")
  /\ UNCHANGED <<pool, idemp, terminal, marker, expired, reconciler, budget>>

\* The debit and the marker in one transaction.  It asks nothing of the HOLD row.
Debit(h) ==
  /\ marker[h] = "none"
  /\ headroom >= Amount[h]
  /\ PoolMove(Amount[h], 0)
  /\ marker' = [marker EXCEPT ![h] = "RESERVED"]

\* Step 2, the commit point: applied, applied before (the marker is there), or
\* exhausted.
Commit(c) ==
  /\ pc[c] = "commit"
  /\ \/ Debit(at[c]) /\ Goto(c, "activate")
     \/ marker[at[c]] # "none" /\ Goto(c, "activate") /\ UNCHANGED <<pool, marker>>
     \/ /\ marker[at[c]] = "none" /\ headroom < Amount[at[c]]
        /\ Goto(c, "fail")
        /\ UNCHANGED <<pool, marker>>
  /\ UNCHANGED <<idemp, status, terminal, expired, reconciler, budget>>

\* Its outcome is not clear: applied or not, the client gets an error that is
\* resolved by reading the marker, or one that leaves the call (a read timeout).
CommitUnclear(c) ==
  /\ pc[c] = "commit"
  /\ MayFail("commit")
  /\ Fail
  /\ Debit(at[c]) \/ UNCHANGED <<pool, marker>>
  /\ Goto(c, "probe") \/ Answer(c, "500")
  /\ UNCHANGED <<idemp, status, terminal, expired, reconciler>>

\* The marker says what happened.
Probe(c) ==
  /\ pc[c] = "probe"
  /\ IF marker[at[c]] # "none" THEN Goto(c, "activate") ELSE Answer(c, "503")
  /\ UNCHANGED <<pool, hold, reconciler, budget>>

\* Genuine exhaustion: the row is marked FAILED, best effort, and the call refused.
MarkFailed(c) ==
  /\ pc[c] = "fail"
  /\ \/ Transition(at[c], "PENDING", "FAILED") /\ UNCHANGED budget
     \/ Lost("status") /\ UNCHANGED status
  /\ Answer(c, "402")
  /\ UNCHANGED <<pool, idemp, terminal, marker, expired, reconciler>>

\* Step 3: PENDING -> ACTIVE.  Whether it wins, loses to a fence or fails, the
\* caller is told that it is authorized.
Activate(c) ==
  /\ pc[c] = "activate"
  /\ \/ Transition(at[c], "PENDING", "ACTIVE") /\ UNCHANGED budget
     \/ Lost("status") /\ UNCHANGED status
  /\ Authorized(c)
  /\ UNCHANGED <<pool, idemp, terminal, marker, expired, reconciler>>

\* Mutant of Committed: the presence of the intent is the evidence.
CommittedM(h) == idemp[h]

\* _commit_evidence: some durable fact proves the debit.
Committed(h) == marker[h] # "none" \/ status[h] = "ACTIVE" \/ terminal[h] # "none"

\* _replay_committed_or_refuse, first read: the evidence.
Evidence(c) ==
  /\ pc[c] = "evidence"
  /\ IF Committed(at[c]) THEN Authorized(c) ELSE Goto(c, "verdict")
  /\ UNCHANGED <<pool, hold, reconciler, budget>>

\* Mutant of Verdict: an attempt in flight reads as a refused one.
VerdictM(c) ==
  /\ pc[c] = "verdict"
  /\ Answer(c, IF status[at[c]] \in {"FAILED", "PENDING"} THEN "402" ELSE "404")
  /\ UNCHANGED <<pool, hold, reconciler, budget>>

\* Second read: the HOLD row, if there was no evidence.
Verdict(c) ==
  /\ pc[c] = "verdict"
  /\ Answer(c, CASE status[at[c]] = "FAILED" -> "402"
                 [] status[at[c]] = "PENDING" -> "503"
                 [] OTHER -> "404")
  /\ UNCHANGED <<pool, hold, reconciler, budget>>

-----------------------------------------------------------------------------
(* capture and void, from rehydrate_reservation_context to the ending. *)

\* A client that was told the authorization_id ends it: the HOLD row is read.  A
\* PENDING row counts only with its marker, and is first helped to ACTIVE.  (When
\* the row is gone the ledger answers and nothing changes: see HoldLifecycle.)
Rehydrate(c, h, o) ==
  /\ pc[c] = "idle"
  /\ issued[h]
  /\ status[h] # "gone"
  /\ Begin(c, o, h, IF status[h] = "PENDING" THEN "help" ELSE "end")
  /\ UNCHANGED <<pool, hold, reconciler, budget>>

\* The helping CAS: without a marker, or after a fence, the call is refused.
Help(c) ==
  /\ pc[c] = "help"
  /\ IF marker[at[c]] = "none" THEN UNCHANGED status /\ Answer(c, "404")
     ELSE /\ Transition(at[c], "PENDING", "ACTIVE")
          /\ IF status'[at[c]] = "ACTIVE" THEN Goto(c, "end") ELSE Answer(c, "404")
  /\ UNCHANGED <<pool, idemp, terminal, marker, expired, reconciler, budget>>

\* Mutant of EndHold: the delete asks for the row's presence and not its status.
EndHoldM(h, event, a) ==
  /\ status[h] \notin {"none", "gone"}
  /\ PoolMove(-Amount[h], a)
  /\ status' = [status EXCEPT ![h] = "gone"]
  /\ terminal' = [terminal EXCEPT ![h] = event]

\* The ending's transaction: the pool, the HOLD row's delete, which asks for
\* ACTIVE, and the TERMINAL cell.  The marker is not in it.
EndHold(h, event, a) ==
  /\ status[h] = "ACTIVE"
  /\ PoolMove(-Amount[h], a)
  /\ status' = [status EXCEPT ![h] = "gone"]
  /\ terminal' = [terminal EXCEPT ![h] = event]

\* A capture past the published expiry is refused.
CaptureRefused(c) ==
  /\ pc[c] = "end"
  /\ op[c] = "capture"
  /\ expired[at[c]]
  /\ Answer(c, "410")
  /\ UNCHANGED <<pool, hold, reconciler, budget>>

\* The ending commits (a void does not look at the expiry) ...
End(c) ==
  /\ pc[c] = "end"
  /\ \/ op[c] = "capture" /\ ~expired[at[c]]
        /\ \E a \in Costs : a <= Amount[at[c]] /\ EndHold(at[c], "SETTLE", a)
     \/ op[c] = "void" /\ EndHold(at[c], "RELEASE", 0)
  /\ Goto(c, "mark")
  /\ UNCHANGED <<idemp, marker, expired, reconciler, budget>>

\* ... or is cancelled: the row is not ACTIVE any more, and the ledger answers.
EndCancelled(c) ==
  /\ pc[c] = "end"
  /\ status[at[c]] # "ACTIVE"
  /\ Answer(c, "done")
  /\ UNCHANGED <<pool, hold, reconciler, budget>>

\* marker_settle_best_effort after an ending: cleanup, not money.
SettleMarker(c) ==
  /\ pc[c] = "mark"
  /\ \/ /\ marker' = [marker EXCEPT ![at[c]] =
                        IF @ = "RESERVED" THEN "SETTLED" ELSE @]
        /\ UNCHANGED budget
     \/ Lost("marker") /\ UNCHANGED marker
  /\ Answer(c, "done")
  /\ UNCHANGED <<pool, idemp, status, terminal, expired, reconciler>>

\* The process dies, or its instance is replaced, between two writes.
Crash(c) ==
  /\ pc[c] # "idle"
  /\ crashes < MaxCrashes
  /\ crashes' = crashes + 1
  /\ Answer(c, "none")
  /\ UNCHANGED <<pool, hold, reconciler, faults>>

-----------------------------------------------------------------------------
(* Time, and the background jobs. *)

\* The hold's expiry passes.  With Prompt, not while its debit can still be sent:
\* _PENDING_MIN_TTL_SECONDS is there so that the lifetime of a hold dominates the
\* attempt's horizon, but nothing in the code waits for it.
Expire(h) ==
  /\ status[h] \in {"PENDING", "ACTIVE"}
  /\ ~expired[h]
  /\ Prompt => \A c \in Callers : ~(pc[c] = "commit" /\ at[c] = h)
  /\ expired' = [expired EXCEPT ![h] = TRUE]
  /\ UNCHANGED <<pool, idemp, status, terminal, marker, caller, reconciler, budget>>

\* Mutant of Fence: the sweep returns the reservation as it fences.
FenceM(h) ==
  /\ status[h] = "PENDING" /\ expired[h]
  /\ status' = [status EXCEPT ![h] = "EXPIRED_UNCREDITED"]
  /\ PoolMove(-Amount[h], 0)
  /\ UNCHANGED <<idemp, terminal, marker, expired, caller, reconciler, budget>>

\* Mutant of Fence: holds whose debit is known are passed over.
FenceUndebitedM(h) ==
  /\ status[h] = "PENDING" /\ expired[h] /\ marker[h] = "none"
  /\ status' = [status EXCEPT ![h] = "EXPIRED_UNCREDITED"]
  /\ UNCHANGED <<pool, idemp, terminal, marker, expired, caller, reconciler, budget>>

\* sweep_fence_pending: an expired PENDING hold is fenced, the pool untouched.
Fence(h) ==
  /\ status[h] = "PENDING" /\ expired[h]
  /\ status' = [status EXCEPT ![h] = "EXPIRED_UNCREDITED"]
  /\ UNCHANGED <<pool, idemp, terminal, marker, expired, caller, reconciler, budget>>

\* The reaper's reclaim of an expired ACTIVE hold, and its marker settle.
Reap(h) ==
  /\ expired[h]
  /\ EndHold(h, "RECLAIM", 0)
  /\ \/ marker' = [marker EXCEPT ![h] = IF @ = "RESERVED" THEN "SETTLED" ELSE @]
        /\ UNCHANGED budget
     \/ Lost("marker") /\ UNCHANGED marker
  /\ UNCHANGED <<idemp, expired, caller, reconciler>>

ReconcilerGoto(r, step) == rpc' = [rpc EXCEPT ![r] = step] /\ UNCHANGED rat

\* reconcile_pool meets a fenced hold in its list.
Scan(r, h) ==
  /\ rpc[r] = "idle"
  /\ status[h] = "EXPIRED_UNCREDITED"
  /\ rpc' = [rpc EXCEPT ![r] = "look"]
  /\ rat' = [rat EXCEPT ![r] = h]
  /\ UNCHANGED <<pool, hold, caller, budget>>

\* pool_credit_back reads the marker: absent or SETTLED, there is nothing to
\* credit and the row is retired.
LookAtMarker(r) ==
  /\ rpc[r] = "look"
  /\ ReconcilerGoto(r, IF marker[rat[r]] = "RESERVED" THEN "credit" ELSE "retire")
  /\ UNCHANGED <<pool, hold, caller, budget>>

\* Mutant of CreditBack: the transaction has no phase condition.
CreditBackM(r) ==
  /\ rpc[r] = "credit"
  /\ PoolMove(-Amount[rat[r]], 0)
  /\ marker' = [marker EXCEPT ![rat[r]] = "SETTLED"]
  /\ ReconcilerGoto(r, "retire")
  /\ UNCHANGED <<idemp, status, terminal, expired, caller, budget>>

\* The credit-back transaction: the pool and the marker's phase CAS.  Losing the
\* CAS means that somebody else credited.
CreditBack(r) ==
  /\ rpc[r] = "credit"
  /\ IF marker[rat[r]] = "RESERVED"
     THEN /\ PoolMove(-Amount[rat[r]], 0)
          /\ marker' = [marker EXCEPT ![rat[r]] = "SETTLED"]
     ELSE UNCHANGED <<pool, marker>>
  /\ ReconcilerGoto(r, "retire")
  /\ UNCHANGED <<idemp, status, terminal, expired, caller, budget>>

\* Mutant of CreditDeferred: a transient failure reads as "already credited".
CreditDeferredM(r) ==
  /\ rpc[r] = "credit"
  /\ Lost("credit")
  /\ ReconcilerGoto(r, "retire")
  /\ UNCHANGED <<pool, hold, caller>>

\* A conflict or a throttle cancelled it: the hold is left for the next pass.
CreditDeferred(r) ==
  /\ rpc[r] = "credit"
  /\ Lost("credit")
  /\ ReconcilerGoto(r, "idle")
  /\ UNCHANGED <<pool, hold, caller>>

\* retire_reclaimed_best_effort.
Retire(r) ==
  /\ rpc[r] = "retire"
  /\ \/ Transition(rat[r], "EXPIRED_UNCREDITED", "RECLAIMED") /\ UNCHANGED budget
     \/ Lost("status") /\ UNCHANGED status
  /\ ReconcilerGoto(r, "idle")
  /\ UNCHANGED <<pool, idemp, terminal, marker, expired, caller>>

\* The audit sweep of reconcile_pool: an old RESERVED marker without a HOLD row is
\* settled, and nothing is credited.
Audit(h) ==
  /\ marker[h] = "RESERVED" /\ expired[h]
  /\ status[h] = "gone"
  /\ marker' = [marker EXCEPT ![h] = "SETTLED"]
  /\ UNCHANGED <<pool, idemp, status, terminal, expired, caller, reconciler, budget>>

-----------------------------------------------------------------------------
CallerStep(c) ==
  \/ PutHold(c)
  \/ Commit(c)
  \/ CommitUnclear(c)
  \/ Probe(c)
  \/ MarkFailed(c)
  \/ Activate(c)
  \/ Evidence(c)
  \/ Verdict(c)
  \/ Help(c)
  \/ CaptureRefused(c)
  \/ End(c)
  \/ EndCancelled(c)
  \/ SettleMarker(c)

ReconcilerStep(r) ==
  \/ LookAtMarker(r)
  \/ CreditBack(r)
  \/ CreditDeferred(r)
  \/ Retire(r)

Next ==
  \/ \E c \in Callers :
       \/ \E h \in Holds : Authorize(c, h)
       \/ \E h \in Holds, o \in {"capture", "void"} : Rehydrate(c, h, o)
       \/ CallerStep(c)
       \/ Crash(c)
  \/ \E h \in Holds : Expire(h) \/ Fence(h) \/ Reap(h) \/ Audit(h)
  \/ \E r \in Reconcilers :
       \/ \E h \in Holds : Scan(r, h)
       \/ ReconcilerStep(r)

Spec == Init /\ [][Next]_vars

\* A thread that has begun goes on; clocks advance; every request runs the sweep
\* of expired ACTIVE holds, so traffic keeps it running.
Served ==
  /\ \A c \in Callers : WF_vars(CallerStep(c))
  /\ \A h \in Holds : WF_vars(Expire(h)) /\ WF_vars(Reap(h))

\* "A scheduled worker calls them": the fence and reconcile_pool run again and
\* again, and a pass visits every hold of its list.
Scheduled ==
  /\ \A h \in Holds : WF_vars(Fence(h))
  /\ \A r \in Reconcilers : WF_vars(ReconcilerStep(r))
  /\ \A r \in Reconcilers, h \in Holds : SF_vars(Scan(r, h))

JobsSpec == Spec /\ Served /\ Scheduled

-----------------------------------------------------------------------------
(* Correctness. *)

\* The debit of h is in the pool and has not been given back.
Debited(h) == marker[h] = "RESERVED" /\ terminal[h] = "none"

\* The pool row conserves money: what is neither reserved nor spent is headroom.
Conservation == headroom = Limit - reserved - settled

\* I1': reserved is the sum of the debits that have not been given back.  A credit
\* of a hold that was never debited, or a second credit, would oversell.
NoOversell ==
  reserved = Total([h \in Holds |-> IF Debited(h) THEN Amount[h] ELSE 0])

\* A1: whoever was told the authorization_id holds a debit that was committed, and
\* a hold that can be captured or reaped has its debit still in the pool.
AuthorizedIsDebited ==
  \A h \in Holds : /\ issued[h] => marker[h] # "none"
                   /\ status[h] = "ACTIVE" => Debited(h)

\* I2: a debit that nobody has given back is one that some actor will still find:
\* the row is PENDING for the fence, fenced for the reconciler, ACTIVE for the reaper.
DebitIsRecoverable ==
  \A h \in Holds :
    Debited(h) => status[h] \in {"PENDING", "ACTIVE", "EXPIRED_UNCREDITED"}

\* C5.4: an authorize that was refused for want of budget holds no debit, then or
\* later: its client is free to go elsewhere.
RefusalIsFinal ==
  \A c \in Callers :
    pc[c] = "idle" /\ reply[c] = "402" =>
      marker[at[c]] = "none"

\* The debits add up, whatever the order of the separate writes and of whoever gives
\* them back: the pool conserves money, each debit leaves it once (I1'), an answer
\* with an authorization_id has its debit behind it (A1), and a refused authorize
\* never acquires one (C5.4).
DebitsAddUp ==
  TypeOK /\ Conservation /\ NoOversell /\ AuthorizedIsDebited /\ RefusalIsFinal

\* I5: the reservation of an authorization that has expired goes back to the pool,
\* however far its attempt got.
DebitsReturn == \A h \in Holds : Debited(h) /\ expired[h] ~> ~Debited(h)

-----------------------------------------------------------------------------
(* The protocol implements its executable specification: the intent row, the
   probes, the replays and the marker's cleanup are steps that change nothing
   there. *)

SpecStatus(h) ==
  CASE terminal[h] = "SETTLE" -> "SETTLED"
    [] terminal[h] = "RELEASE" -> "RELEASED"
    [] terminal[h] = "RECLAIM" -> "EXPIRED"
    [] status[h] = "EXPIRED_UNCREDITED" /\ marker[h] = "SETTLED" -> "RECLAIMED"
    [] OTHER -> status[h]

Protocol == INSTANCE PendingLedger
              WITH pool_reserved <- reserved,
                   status <- [h \in Holds |-> SpecStatus(h)],
                   debited <- [h \in Holds |-> Debited(h)]

\* Every behaviour of the four separate writes, their retries and the jobs is a
\* behaviour of billing/pending_protocol.py.
ImplementsProtocol == Protocol!Spec

=============================================================================
