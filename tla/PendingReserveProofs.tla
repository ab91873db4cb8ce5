------------------------ MODULE PendingReserveProofs -----------------------
(***************************************************************************)
(* What the PENDING protocol promises for every number of keys, threads,   *)
(* lost writes and deaths.  The rows of one hold are tied together by Rows *)
(* whatever the timing; the theorems on recovery and on the executable     *)
(* specification take Prompt as their hypothesis.                          *)
(***************************************************************************)
EXTENDS PendingReserve, SumsProofs, TLAPS

\* The HOLD row, the TERMINAL cell and the marker of one hold agree, and a thread
\* acts on a hold only in the states that its last read allows.
Rows ==
  /\ \A h \in Holds :
       /\ terminal[h] # "none" <=> status[h] = "gone"
       /\ marker[h] = "SETTLED" => status[h] \in {"EXPIRED_UNCREDITED", "RECLAIMED", "gone"}
       /\ status[h] = "ACTIVE" => marker[h] = "RESERVED"
       /\ status[h] = "gone" => marker[h] # "none"
       /\ issued[h] => marker[h] # "none"
  /\ \A c \in Callers :
       /\ pc[c] = "activate" => marker[at[c]] # "none"
       /\ pc[c] = "mark" => status[at[c]] = "gone"
  /\ \A r \in Reconcilers :
       rpc[r] # "idle" => status[rat[r]] \in {"EXPIRED_UNCREDITED", "RECLAIMED"}

\* TypeOK but for the sign of reserved, which NoOversell gives.
Typed ==
  /\ headroom \in Int /\ reserved \in Int /\ settled \in Nat
  /\ idemp \in [Holds -> BOOLEAN]
  /\ status \in [Holds -> Statuses]
  /\ terminal \in [Holds -> Terminals]
  /\ marker \in [Holds -> Phases]
  /\ expired \in [Holds -> BOOLEAN]
  /\ issued \in [Holds -> BOOLEAN]
  /\ pc \in [Callers -> CallerSteps]
  /\ op \in [Callers -> Ops]
  /\ at \in [Callers -> Holds]
  /\ reply \in [Callers -> Replies]
  /\ rpc \in [Reconcilers -> ReconcilerSteps]
  /\ rat \in [Reconcilers -> Holds]
  /\ faults \in Nat /\ crashes \in Nat

TimeStep(h) == Expire(h) \/ Fence(h) \/ Reap(h) \/ Audit(h)
CallStep(c, h) == Authorize(c, h) \/ \E o \in {"capture", "void"} : Rehydrate(c, h, o)

-----------------------------------------------------------------------------
\* Every step leaves the variables typed.
LEMMA TypedStep == Typed /\ Rows /\ [Next]_vars => Typed'
  <1> SUFFICES ASSUME Typed, Rows, [Next]_vars PROVE Typed'
    OBVIOUS
  <1> USE AmountAssumption, LimitAssumption
      DEF Typed, PoolMove, Transition, Goto, Begin, Answer, Authorized, Return, Lost, Fail,
          pool, hold, caller, reconciler, budget, Statuses, Terminals, Phases,
          CallerSteps, Ops, Replies, ReconcilerSteps
  <1>1. UNCHANGED vars => Typed'
    BY DEF vars
  <1>2. ASSUME NEW h \in Holds, TimeStep(h) PROVE Typed'
    <2>1. CASE Expire(h)  BY <2>1 DEF Expire
    <2>2. CASE Fence(h)  BY <2>2 DEF Fence
    <2>3. CASE Reap(h)  BY <2>3 DEF Reap, EndHold
    <2>4. CASE Audit(h)  BY <2>4 DEF Audit
    <2> QED  BY <1>2, <2>1, <2>2, <2>3, <2>4 DEF TimeStep
  <1>3. ASSUME NEW c \in Callers, NEW h \in Holds, CallStep(c, h) PROVE Typed'
    <2>1. CASE Authorize(c, h)  BY <2>1 DEF Authorize
    <2>2. CASE \E o \in {"capture", "void"} : Rehydrate(c, h, o)  BY <2>2 DEF Rehydrate
    <2> QED  BY <1>3, <2>1, <2>2 DEF CallStep
  <1>4. ASSUME NEW c \in Callers, CallerStep(c) PROVE Typed'
    <2>1. CASE PutHold(c)  BY <2>1 DEF PutHold
    <2>2. CASE Commit(c)  BY <2>2 DEF Commit, Debit
    <2>3. CASE CommitUnclear(c)
      <3>1. headroom' \in Int /\ reserved' \in Int /\ marker' \in [Holds -> Phases]
        BY <2>3 DEF CommitUnclear, Debit
      <3>2. CASE Goto(c, "probe")  BY <2>3, <3>1, <3>2 DEF CommitUnclear, Debit
      <3>3. CASE Answer(c, "500")  BY <2>3, <3>1, <3>3 DEF CommitUnclear, Debit
      <3> QED  BY <2>3, <3>2, <3>3 DEF CommitUnclear
    <2>4. CASE Probe(c)  BY <2>4 DEF Probe
    <2>5. CASE MarkFailed(c)  BY <2>5 DEF MarkFailed
    <2>6. CASE Activate(c)  BY <2>6 DEF Activate
    <2>7. CASE Evidence(c)
      <3>1. CASE Authorized(c)  BY <2>7, <3>1 DEF Evidence
      <3>2. CASE Goto(c, "verdict")  BY <2>7, <3>2 DEF Evidence
      <3> QED  BY <2>7, <3>1, <3>2 DEF Evidence
    <2>8. CASE Verdict(c)  BY <2>8 DEF Verdict
    <2>9. CASE Help(c)  BY <2>9 DEF Help
    <2>10. CASE CaptureRefused(c)  BY <2>10 DEF CaptureRefused
    <2>11. CASE End(c)  BY <2>11 DEF End, EndHold
    <2>12. CASE EndCancelled(c)  BY <2>12 DEF EndCancelled
    <2>13. CASE SettleMarker(c)  BY <2>13 DEF SettleMarker
    <2> QED  BY <1>4, <2>1, <2>2, <2>3, <2>4, <2>5, <2>6, <2>7, <2>8, <2>9, <2>10,
                <2>11, <2>12, <2>13 DEF CallerStep
  <1>5. ASSUME NEW c \in Callers, Crash(c) PROVE Typed'
    BY <1>5 DEF Crash
  <1>6. ASSUME NEW r \in Reconcilers, NEW h \in Holds, Scan(r, h) PROVE Typed'
    BY <1>6 DEF Scan
  <1>7. ASSUME NEW r \in Reconcilers, ReconcilerStep(r) PROVE Typed'
    <2>1. CASE LookAtMarker(r)  BY <2>1 DEF LookAtMarker, ReconcilerGoto
    <2>2. CASE CreditBack(r)  BY <2>2 DEF CreditBack, ReconcilerGoto
    <2>3. CASE CreditDeferred(r)  BY <2>3 DEF CreditDeferred, ReconcilerGoto
    <2>4. CASE Retire(r)  BY <2>4 DEF Retire, ReconcilerGoto
    <2> QED  BY <1>7, <2>1, <2>2, <2>3, <2>4 DEF ReconcilerStep
  <1> QED  BY <1>1, <1>2, <1>3, <1>4, <1>5, <1>6, <1>7 DEF Next, TimeStep, CallStep

\* Every step keeps rows, markers and ledger cells related as Rows says.
LEMMA RowsStep == Typed /\ Rows /\ [Next]_vars => Rows'
  <1> SUFFICES ASSUME Typed, Rows, [Next]_vars PROVE Rows'
    OBVIOUS
  <1> USE DEF Typed, Rows, Transition, Goto, Begin, Answer,
          Authorized, Return, hold, caller, reconciler, Statuses, Terminals, Phases
  <1>1. UNCHANGED vars => Rows'
    BY DEF vars
  <1>2. ASSUME NEW h \in Holds, TimeStep(h) PROVE Rows'
    <2>1. CASE Expire(h)  BY <2>1 DEF Expire
    <2>2. CASE Fence(h)  BY <2>2 DEF Fence
    <2>3. CASE Reap(h)  BY <2>3 DEF Reap, EndHold
    <2>4. CASE Audit(h)  BY <2>4 DEF Audit
    <2> QED  BY <1>2, <2>1, <2>2, <2>3, <2>4 DEF TimeStep
  <1>3. ASSUME NEW c \in Callers, NEW h \in Holds, CallStep(c, h) PROVE Rows'
    BY <1>3 DEF CallStep, Authorize, Rehydrate
  <1>4. ASSUME NEW c \in Callers, CallerStep(c) PROVE Rows'
    <2>1. CASE PutHold(c)  BY <2>1 DEF PutHold
    <2>2. CASE Commit(c)  BY <2>2 DEF Commit, Debit
    <2>3. CASE CommitUnclear(c)  BY <2>3 DEF CommitUnclear, Debit
    <2>4. CASE Probe(c)  BY <2>4 DEF Probe
    <2>5. CASE MarkFailed(c)  BY <2>5 DEF MarkFailed
    <2>6. CASE Activate(c)  BY <2>6 DEF Activate
    <2>7. CASE Evidence(c)  BY <2>7 DEF Evidence, Committed
    <2>8. CASE Verdict(c)  BY <2>8 DEF Verdict
    <2>9. CASE Help(c)  BY <2>9 DEF Help
    <2>10. CASE CaptureRefused(c)  BY <2>10 DEF CaptureRefused
    <2>11. CASE End(c)  BY <2>11 DEF End, EndHold
    <2>12. CASE EndCancelled(c)  BY <2>12 DEF EndCancelled
    <2>13. CASE SettleMarker(c)  BY <2>13 DEF SettleMarker
    <2> QED  BY <1>4, <2>1, <2>2, <2>3, <2>4, <2>5, <2>6, <2>7, <2>8, <2>9, <2>10,
                <2>11, <2>12, <2>13 DEF CallerStep
  <1>5. ASSUME NEW c \in Callers, Crash(c) PROVE Rows'
    BY <1>5 DEF Crash
  <1>6. ASSUME NEW r \in Reconcilers, NEW h \in Holds, Scan(r, h) PROVE Rows'
    BY <1>6 DEF Scan
  <1>7. ASSUME NEW r \in Reconcilers, ReconcilerStep(r) PROVE Rows'
    <2>1. CASE LookAtMarker(r)  BY <2>1 DEF LookAtMarker, ReconcilerGoto
    <2>2. CASE CreditBack(r)  BY <2>2 DEF CreditBack, ReconcilerGoto
    <2>3. CASE CreditDeferred(r)  BY <2>3 DEF CreditDeferred, ReconcilerGoto
    <2>4. CASE Retire(r)  BY <2>4 DEF Retire, ReconcilerGoto
    <2> QED  BY <1>7, <2>1, <2>2, <2>3, <2>4 DEF ReconcilerStep
  <1> QED  BY <1>1, <1>2, <1>3, <1>4, <1>5, <1>6, <1>7 DEF Next, TimeStep, CallStep

-----------------------------------------------------------------------------
(* The counters.  For the pool a step is a debit, a return or nothing. *)

\* What each hold still has in the pool.
Share == [h \in Holds |-> IF Debited(h) THEN Amount[h] ELSE 0]

DebitMove(h) ==
  /\ ~Debited(h) /\ headroom >= Amount[h]
  /\ PoolMove(Amount[h], 0)
  /\ Share' = [Share EXCEPT ![h] = Amount[h]]

ReturnMove(h, a) ==
  /\ Debited(h)
  /\ PoolMove(-Amount[h], a)
  /\ Share' = [Share EXCEPT ![h] = 0]

PoolStep ==
  \/ UNCHANGED pool /\ UNCHANGED Share
  \/ \E h \in Holds : DebitMove(h)
  \/ \E h \in Holds, a \in Costs \cup {0} : ReturnMove(h, a)

\* If no hold gains or loses its debit, the shares of the pool stay.
LEMMA ShareSame ==
  ASSUME \A k \in Holds : Debited(k)' = Debited(k)
  PROVE  UNCHANGED Share
  BY DEF Share

\* If one hold alone may, one share alone moves.
LEMMA ShareAt ==
  ASSUME NEW h \in Holds, \A k \in Holds \ {h} : Debited(k)' = Debited(k)
  PROVE  Share' = [Share EXCEPT ![h] = IF Debited(h)' THEN Amount[h] ELSE 0]
  BY DEF Share

\* The debit moves the pool by the amount of a hold that had none of it.
LEMMA DebitIsMove ==
  ASSUME Typed, Rows, NEW h \in Holds, Debit(h), UNCHANGED terminal
  PROVE  DebitMove(h)
  <1>1. \A k \in Holds \ {h} : Debited(k)' = Debited(k)
    BY DEF Typed, Debit, Debited
  <1>2. terminal[h] = "none" /\ marker[h] = "none"
    BY DEF Typed, Rows, Debit
  <1>3. Debited(h)' /\ ~Debited(h)
    BY <1>2 DEF Typed, Debit, Debited
  <1>4. Share' = [Share EXCEPT ![h] = Amount[h]]
    BY <1>1, <1>3, ShareAt
  <1> QED  BY <1>3, <1>4 DEF Debit, DebitMove

\* A transaction that ends one debit gives that hold's amount back.
LEMMA ReturnIsMove ==
  ASSUME Typed, NEW h \in Holds, NEW a, PoolMove(-Amount[h], a), Debited(h), ~Debited(h)',
         \A k \in Holds \ {h} : Debited(k)' = Debited(k)
  PROVE  ReturnMove(h, a)
  BY ShareAt DEF ReturnMove

\* The end of an ACTIVE hold is such a transaction.
LEMMA EndIsMove ==
  ASSUME Typed, Rows, NEW h \in Holds, NEW a, NEW event \in Terminals \ {"none"},
         EndHold(h, event, a), \A k \in Holds \ {h} : marker'[k] = marker[k]
  PROVE  ReturnMove(h, a)
  <1>1. Debited(h)
    BY DEF Typed, Rows, EndHold, Debited
  <1>2. ~Debited(h)' /\ \A k \in Holds \ {h} : Debited(k)' = Debited(k)
    BY DEF Typed, EndHold, Debited
  <1> QED  BY <1>1, <1>2, ReturnIsMove DEF EndHold

\* A step that leaves pool, ledger and markers alone is nothing to the money.
LEMMA QuietStep ==
  ASSUME UNCHANGED <<pool, terminal, marker>>
  PROVE  PoolStep
  <1>1. \A k \in Holds : Debited(k)' = Debited(k)
    BY DEF Debited
  <1> QED  BY <1>1, ShareSame DEF PoolStep

\* For the pool, every step of the protocol is one debit, one return or nothing.
LEMMA StepIsPoolStep == Typed /\ Rows /\ [Next]_vars => PoolStep
  <1> SUFFICES ASSUME Typed, Rows, [Next]_vars PROVE PoolStep
    OBVIOUS
  <1> USE DEF hold
  <1>1. UNCHANGED vars => PoolStep
    BY QuietStep DEF vars
  <1>2. ASSUME NEW h \in Holds, TimeStep(h) PROVE PoolStep
    <2>1. CASE Expire(h)  BY <2>1, QuietStep DEF Expire
    <2>2. CASE Fence(h)  BY <2>2, QuietStep DEF Fence
    <2>3. CASE Reap(h)
      <3>1. EndHold(h, "RECLAIM", 0) /\ \A k \in Holds \ {h} : marker'[k] = marker[k]
        BY <2>3 DEF Reap, Typed
      <3>2. ReturnMove(h, 0)
        BY <3>1, EndIsMove DEF Terminals
      <3> QED  BY <3>2 DEF PoolStep
    <2>4. CASE Audit(h)
      <3>1. \A k \in Holds : Debited(k)' = Debited(k)
        BY <2>4 DEF Audit, Typed, Rows, Debited
      <3> QED  BY <2>4, <3>1, ShareSame DEF Audit, PoolStep
    <2> QED  BY <1>2, <2>1, <2>2, <2>3, <2>4 DEF TimeStep
  <1>3. ASSUME NEW c \in Callers, NEW h \in Holds, CallStep(c, h) PROVE PoolStep
    BY <1>3, QuietStep DEF CallStep, Authorize, Rehydrate
  <1>4. ASSUME NEW c \in Callers, CallerStep(c) PROVE PoolStep
    <2> at[c] \in Holds
      BY DEF Typed
    <2>1. CASE PutHold(c)  BY <2>1, QuietStep DEF PutHold
    <2>2. CASE Commit(c) \/ CommitUnclear(c)
      <3>1. UNCHANGED terminal /\ (Debit(at[c]) \/ UNCHANGED <<pool, marker>>)
        BY <2>2 DEF Commit, CommitUnclear
      <3>2. CASE Debit(at[c])
        BY <3>1, <3>2, DebitIsMove DEF PoolStep
      <3>3. CASE UNCHANGED <<pool, marker>>
        BY <3>1, <3>3, QuietStep
      <3> QED  BY <3>1, <3>2, <3>3
    <2>3. CASE Probe(c) \/ MarkFailed(c) \/ Activate(c)
      BY <2>3, QuietStep DEF Probe, MarkFailed, Activate
    <2>4. CASE Evidence(c) \/ Verdict(c) \/ Help(c)
      BY <2>4, QuietStep DEF Evidence, Verdict, Help
    <2>5. CASE CaptureRefused(c) \/ EndCancelled(c)
      BY <2>5, QuietStep DEF CaptureRefused, EndCancelled
    <2>6. CASE End(c)
      <3>1. PICK a \in Costs \cup {0}, event \in Terminals \ {"none"} :
              EndHold(at[c], event, a)
        BY <2>6 DEF End, Terminals
      <3>2. ReturnMove(at[c], a)
        BY <2>6, <3>1, EndIsMove DEF End
      <3> QED  BY <3>2 DEF PoolStep
    <2>7. CASE SettleMarker(c)
      <3>1. \A k \in Holds : Debited(k)' = Debited(k)
        BY <2>7 DEF SettleMarker, Typed, Rows, Debited
      <3> QED  BY <2>7, <3>1, ShareSame DEF SettleMarker, PoolStep
    <2> QED  BY <1>4, <2>1, <2>2, <2>3, <2>4, <2>5, <2>6, <2>7 DEF CallerStep
  <1>5. ASSUME NEW c \in Callers, Crash(c) PROVE PoolStep
    BY <1>5, QuietStep DEF Crash
  <1>6. ASSUME NEW r \in Reconcilers, NEW h \in Holds, Scan(r, h) PROVE PoolStep
    BY <1>6, QuietStep DEF Scan
  <1>7. ASSUME NEW r \in Reconcilers, ReconcilerStep(r) PROVE PoolStep
    <2>1. CASE LookAtMarker(r) \/ CreditDeferred(r) \/ Retire(r)
      BY <2>1, QuietStep DEF LookAtMarker, CreditDeferred, Retire
    <2>2. CASE CreditBack(r) /\ marker[rat[r]] # "RESERVED"
      BY <2>2, QuietStep DEF CreditBack
    <2>3. CASE CreditBack(r) /\ marker[rat[r]] = "RESERVED"
      <3>1. PICK h \in Holds : h = rat[r]
        BY DEF Typed
      <3>2. PoolMove(-Amount[h], 0) /\ Debited(h)
        BY <2>3, <3>1 DEF CreditBack, Typed, Rows, Debited
      <3>3. ~Debited(h)' /\ \A k \in Holds \ {h} : Debited(k)' = Debited(k)
        BY <2>3, <3>1 DEF CreditBack, Typed, Debited
      <3>4. ReturnMove(h, 0)
        BY <3>2, <3>3, ReturnIsMove
      <3> QED  BY <3>4 DEF PoolStep
    <2> QED  BY <1>7, <2>1, <2>2, <2>3 DEF ReconcilerStep
  <1> QED  BY <1>1, <1>2, <1>3, <1>4, <1>5, <1>6, <1>7 DEF Next, TimeStep, CallStep

\* Debits and returns keep the sum, and never sell more than there is.
LEMMA PoolStepKeeps ==
  ASSUME Typed, Conservation, NoOversell, PoolStep
  PROVE  Conservation' /\ NoOversell'
  <1> USE HoldsAssumption, AmountAssumption
  <1>1. Share \in [Holds -> Nat] /\ reserved = Total(Share)
    BY DEF Share, NoOversell
  <1>2. ASSUME reserved' = Total(Share') PROVE NoOversell'
    BY <1>2 DEF Share, NoOversell
  <1>3. CASE UNCHANGED pool /\ UNCHANGED Share
    BY <1>1, <1>2, <1>3 DEF Conservation, pool
  <1>4. ASSUME NEW h \in Holds, DebitMove(h) PROVE Conservation' /\ NoOversell'
    <2>1. Share[h] = 0
      BY <1>4 DEF DebitMove, Share
    <2>2. Total(Share') = Total(Share) - 0 + Amount[h]
      <3>1. Amount[h] \in Nat
        OBVIOUS
      <3>2. Total([Share EXCEPT ![h] = Amount[h]]) = Total(Share) - Share[h] + Amount[h]
        BY <1>1, <3>1, TotalUpdate
      <3> QED  BY <1>4, <2>1, <3>2 DEF DebitMove
    <2>3. Conservation'
      BY <1>4, LimitAssumption DEF DebitMove, PoolMove, Typed, Conservation
    <2>4. reserved' = Total(Share')
      BY <1>1, <1>4, <2>2 DEF DebitMove, PoolMove, Typed
    <2> QED  BY <1>2, <2>3, <2>4
  <1>5. ASSUME NEW h \in Holds, NEW a \in Costs \cup {0}, ReturnMove(h, a)
        PROVE  Conservation' /\ NoOversell'
    <2>1. Share[h] = Amount[h]
      BY <1>5 DEF ReturnMove, Share
    <2>2. Total(Share') = Total(Share) - Amount[h] + 0
      <3> DEFINE f == Share
                 zero == 0
      <3>1. zero \in Nat /\ f \in [Holds -> Nat] /\ IsFiniteSet(Holds)
        BY <1>1
      <3> HIDE DEF f, zero
      <3>2. Total([f EXCEPT ![h] = zero]) = Total(f) - f[h] + zero
        BY <3>1, TotalUpdate
      <3>3. Total([Share EXCEPT ![h] = 0]) = Total(Share) - Share[h] + 0
        BY <3>2 DEF f, zero
      <3> QED  BY <1>5, <2>1, <3>3 DEF ReturnMove
    <2>3. Conservation'
      BY <1>5, LimitAssumption DEF ReturnMove, PoolMove, Typed, Conservation
    <2>4. reserved' = Total(Share')
      BY <1>1, <1>5, <2>2 DEF ReturnMove, PoolMove, Typed
    <2> QED  BY <1>2, <2>3, <2>4
  <1> QED  BY <1>3, <1>4, <1>5 DEF PoolStep

-----------------------------------------------------------------------------
\* The inductive invariant: types, the rows of each hold, and the two sums.
IndInv == Typed /\ Rows /\ Conservation /\ NoOversell

\* The first state satisfies the inductive invariant.
LEMMA InitIndInv == Init => IndInv
  <1> SUFFICES ASSUME Init PROVE IndInv
    OBVIOUS
  <1> USE HoldsAssumption, LimitAssumption DEF Init
  <1>1. Typed
    <2>1. (CHOOSE h \in Holds : TRUE) \in Holds
      OBVIOUS
    <2> QED  BY <2>1 DEF Typed, Statuses, Terminals, Phases, CallerSteps, Ops, Replies,
                         ReconcilerSteps
  <1>2. Rows
    BY DEF Rows
  <1>3. Conservation
    BY DEF Conservation
  <1>4. NoOversell
    <2>1. [h \in Holds |-> IF Debited(h) THEN Amount[h] ELSE 0] = [h \in Holds |-> 0]
      BY DEF Debited
    <2> QED  BY <2>1, TotalZero DEF NoOversell
  <1> QED  BY <1>1, <1>2, <1>3, <1>4 DEF IndInv

\* The inductive invariant holds for good, whatever the timing.
LEMMA IndInvHolds == Spec => []IndInv
  <1>1. IndInv /\ [Next]_vars => IndInv'
    BY TypedStep, RowsStep, StepIsPoolStep, PoolStepKeeps DEF IndInv
  <1> QED  BY InitIndInv, <1>1, PTL DEF Spec

\* No counter of the pool goes below zero and no row takes a value that the code
\* does not write, whichever writes are lost or repeated.
THEOREM TypeCorrect == Spec => []TypeOK
  <1>1. IndInv => TypeOK
    <2> SUFFICES ASSUME IndInv PROVE TypeOK
      OBVIOUS
    <2>1. [h \in Holds |-> IF Debited(h) THEN Amount[h] ELSE 0] \in [Holds -> Nat]
      BY AmountAssumption
    <2>2. reserved \in Nat
      BY <2>1, HoldsAssumption, UnitsFinite DEF IndInv, NoOversell
    <2> QED  BY <2>2 DEF IndInv, Typed, TypeOK
  <1> QED  BY <1>1, IndInvHolds, PTL

\* Debits, endings, reclaims and credit-backs keep headroom what is neither reserved
\* nor spent.
THEOREM PendingConserves == Spec => []Conservation
  BY IndInvHolds, PTL DEF IndInv

\* I1': a reservation is given back once and only if it was debited, whoever gives it
\* back: capture, void, the reaper or any number of reconcilers, at whatever time.
THEOREM NeverOversold == Spec => []NoOversell
  BY IndInvHolds, PTL DEF IndInv

\* A1: an answer that carries an authorization_id has its debit behind it.
THEOREM AuthorizationsAreDebited == Spec => []AuthorizedIsDebited
  <1>1. IndInv => AuthorizedIsDebited
    BY DEF IndInv, Typed, Rows, AuthorizedIsDebited, Debited, Statuses, Terminals
  <1> QED  BY <1>1, IndInvHolds, PTL

-----------------------------------------------------------------------------
(* With Prompt: no debit is sent for a hold whose expiry has passed. *)

Attempt == {"hold", "commit", "probe", "fail", "activate"}

\* A key is attempted once, by one thread: no other thread debits its hold, and its
\* HOLD row is still PENDING when it does.
Attempts ==
  /\ \A c \in Callers :
       /\ pc[c] \in Attempt => idemp[at[c]]
       /\ pc[c] = "hold" => status[at[c]] = "none"
       /\ pc[c] = "commit" =>
            status[at[c]] = "PENDING" /\ marker[at[c]] = "none" /\ ~expired[at[c]]
       /\ pc[c] = "fail" => marker[at[c]] = "none"
  /\ \A c, d \in Callers :
       pc[c] \in Attempt /\ pc[d] \in Attempt /\ at[c] = at[d] => c = d
  /\ \A c \in Callers :
       pc[c] = "idle" /\ reply[c] = "402" =>
         /\ marker[at[c]] = "none" /\ idemp[at[c]]
         /\ \A d \in Callers : pc[d] \in {"hold", "commit"} => at[d] # at[c]
  /\ \A h \in Holds :
       /\ status[h] = "none" => marker[h] = "none" /\ ~expired[h]
       /\ status[h] # "none" => idemp[h]
       /\ status[h] = "FAILED" => marker[h] = "none"
       /\ status[h] = "RECLAIMED" => marker[h] # "RESERVED"
  /\ \A r \in Reconcilers : rpc[r] = "retire" => marker[rat[r]] # "RESERVED"

\* With Prompt, every step keeps a key to one attempt, PENDING when it debits.
LEMMA AttemptsStep ==
  ASSUME Prompt, Typed, Rows, Attempts, [Next]_vars
  PROVE  Attempts'
  <1> USE DEF Typed, Rows, Attempts, Attempt, Transition, Goto, Begin, Answer,
          Authorized, Return, hold, caller, reconciler, Statuses, Terminals, Phases
  <1>1. UNCHANGED vars => Attempts'
    BY DEF vars
  <1>2. ASSUME NEW h \in Holds, TimeStep(h) PROVE Attempts'
    <2>1. CASE Expire(h)  BY <2>1 DEF Expire
    <2>2. CASE Fence(h)  BY <2>2 DEF Fence
    <2>3. CASE Reap(h)  BY <2>3 DEF Reap, EndHold
    <2>4. CASE Audit(h)  BY <2>4 DEF Audit
    <2> QED  BY <1>2, <2>1, <2>2, <2>3, <2>4 DEF TimeStep
  <1>3. ASSUME NEW c \in Callers, NEW h \in Holds, CallStep(c, h) PROVE Attempts'
    <2>1. CASE Authorize(c, h)  BY <2>1 DEF Authorize
    <2>2. CASE \E o \in {"capture", "void"} : Rehydrate(c, h, o)  BY <2>2 DEF Rehydrate
    <2> QED  BY <1>3, <2>1, <2>2 DEF CallStep
  <1>4. ASSUME NEW c \in Callers, CallerStep(c) PROVE Attempts'
    <2>1. CASE PutHold(c)  BY <2>1 DEF PutHold
    <2>2. CASE Commit(c)  BY <2>2 DEF Commit, Debit
    <2>3. CASE CommitUnclear(c)  BY <2>3 DEF CommitUnclear, Debit
    <2>4. CASE Probe(c)  BY <2>4 DEF Probe
    <2>5. CASE MarkFailed(c)  BY <2>5 DEF MarkFailed
    <2>6. CASE Activate(c)  BY <2>6 DEF Activate
    <2>7. CASE Evidence(c)  BY <2>7 DEF Evidence, Committed
    <2>8. CASE Verdict(c)  BY <2>8 DEF Verdict
    <2>9. CASE Help(c)  BY <2>9 DEF Help
    <2>10. CASE CaptureRefused(c)  BY <2>10 DEF CaptureRefused
    <2>11. CASE End(c)  BY <2>11 DEF End, EndHold
    <2>12. CASE EndCancelled(c)  BY <2>12 DEF EndCancelled
    <2>13. CASE SettleMarker(c)  BY <2>13 DEF SettleMarker
    <2> QED  BY <1>4, <2>1, <2>2, <2>3, <2>4, <2>5, <2>6, <2>7, <2>8, <2>9, <2>10,
                <2>11, <2>12, <2>13 DEF CallerStep
  <1>5. ASSUME NEW c \in Callers, Crash(c) PROVE Attempts'
    BY <1>5 DEF Crash
  <1>6. ASSUME NEW r \in Reconcilers, NEW h \in Holds, Scan(r, h) PROVE Attempts'
    BY <1>6 DEF Scan
  <1>7. ASSUME NEW r \in Reconcilers, ReconcilerStep(r) PROVE Attempts'
    <2>1. CASE LookAtMarker(r)  BY <2>1 DEF LookAtMarker, ReconcilerGoto
    <2>2. CASE CreditBack(r)  BY <2>2 DEF CreditBack, ReconcilerGoto
    <2>3. CASE CreditDeferred(r)  BY <2>3 DEF CreditDeferred, ReconcilerGoto
    <2>4. CASE Retire(r)  BY <2>4 DEF Retire, ReconcilerGoto
    <2> QED  BY <1>7, <2>1, <2>2, <2>3, <2>4 DEF ReconcilerStep
  <1> QED  BY <1>1, <1>2, <1>3, <1>4, <1>5, <1>6, <1>7 DEF Next, TimeStep, CallStep

\* With Prompt, that holds for good.
LEMMA AttemptsHold == ASSUME Prompt PROVE Spec => [](IndInv /\ Attempts)
  <1>1. Init => Attempts
    BY DEF Init, Attempts, Attempt
  <1>2. IndInv /\ Attempts /\ [Next]_vars => Attempts'
    BY AttemptsStep DEF IndInv
  <1> QED  BY <1>1, <1>2, IndInvHolds, PTL DEF Spec

\* I2: if no attempt outlives its hold, the sweep, the reconciler or the reaper can
\* still find every debit, whatever dies or is lost in between.
THEOREM DebitsAreRecoverable == ASSUME Prompt PROVE Spec => []DebitIsRecoverable
  <1>1. IndInv /\ Attempts => DebitIsRecoverable
    BY DEF IndInv, Typed, Rows, Attempts, DebitIsRecoverable, Debited, Statuses
  <1> QED  BY <1>1, AttemptsHold, PTL

\* C5.4: nobody debits a hold whose authorize was answered 402, not even its own
\* attempt.
THEOREM RefusalsAreFinal == ASSUME Prompt PROVE Spec => []RefusalIsFinal
  <1>1. Attempts => RefusalIsFinal
    BY DEF Attempts, RefusalIsFinal
  <1> QED  BY <1>1, AttemptsHold, PTL

\* All of it together: with attempts that do not outlive their holds, the debits add
\* up in every state, for any number of keys, callers, reconcilers, faults and crashes.
THEOREM DebitsAlwaysAddUp == ASSUME Prompt PROVE Spec => []DebitsAddUp
  BY TypeCorrect, PendingConserves, NeverOversold, AuthorizationsAreDebited,
     RefusalsAreFinal, PTL DEF DebitsAddUp

-----------------------------------------------------------------------------
(* The four writes implement the atomic protocol. *)

SpecStatuses == [h \in Holds |-> SpecStatus(h)]
DebitedHolds == [h \in Holds |-> Debited(h)]

\* For the protocol only h changes.
OnlyAt(h) ==
  \A k \in Holds \ {h} : SpecStatus(k)' = SpecStatus(k) /\ Debited(k)' = Debited(k)

\* If neither a status nor a debit of the abstract protocol changes, it stutters.
LEMMA ProtocolStutters ==
  ASSUME UNCHANGED reserved,
         \A k \in Holds : SpecStatus(k)' = SpecStatus(k) /\ Debited(k)' = Debited(k)
  PROVE  UNCHANGED Protocol!vars
  BY DEF Protocol!vars

\* It stutters when none of the rows that the mapping reads is written.
LEMMA UnreadRows ==
  ASSUME UNCHANGED <<pool, status, terminal, marker>>
  PROVE  UNCHANGED Protocol!vars
  <1>1. \A k \in Holds : SpecStatus(k)' = SpecStatus(k) /\ Debited(k)' = Debited(k)
    BY DEF SpecStatus, Debited
  <1> QED  BY <1>1, ProtocolStutters DEF pool

\* A step at one hold changes the abstract status and debit of that hold only.
LEMMA StatusAt ==
  ASSUME NEW h \in Holds, OnlyAt(h)
  PROVE  /\ SpecStatuses' = [SpecStatuses EXCEPT ![h] = SpecStatus(h)']
         /\ DebitedHolds' = [DebitedHolds EXCEPT ![h] = Debited(h)']
  BY DEF OnlyAt, SpecStatuses, DebitedHolds

\* A change of status alone.
LEMMA MoveAt ==
  ASSUME NEW h \in Holds, OnlyAt(h), UNCHANGED reserved, Debited(h)' = Debited(h),
         NEW to, SpecStatus(h)' = to,
         \/ SpecStatus(h) = "none" /\ to = "PENDING"
         \/ SpecStatus(h) = "PENDING" /\ to \in {"ACTIVE", "EXPIRED_UNCREDITED", "FAILED"}
         \/ SpecStatus(h) = "EXPIRED_UNCREDITED" /\ to = "RECLAIMED" /\ ~Debited(h)
  PROVE  Protocol!Next
  <1>1. SpecStatuses' = [SpecStatuses EXCEPT ![h] = to]
    BY StatusAt
  <1>2. UNCHANGED DebitedHolds
    BY DEF OnlyAt, DebitedHolds
  <1>3. SpecStatuses[h] = SpecStatus(h) /\ DebitedHolds[h] = Debited(h)
    BY DEF SpecStatuses, DebitedHolds
  <1>4. Protocol!put_pending(h) \/ Protocol!activate(h) \/ Protocol!mark_failed(h)
          \/ Protocol!fence_pending_expired(h) \/ Protocol!reconcile(h)
    BY <1>1, <1>2, <1>3
       DEF SpecStatuses, DebitedHolds, Protocol!put_pending, Protocol!activate,
           Protocol!mark_failed, Protocol!fence_pending_expired, Protocol!reconcile,
           Protocol!Move
  <1> QED  BY <1>4 DEF Protocol!Next

\* The debit of a hold that is PENDING is a step of the abstract protocol.
LEMMA CommitAt ==
  ASSUME IndInv, NEW h \in Holds, Debit(h), UNCHANGED <<status, terminal>>,
         status[h] = "PENDING"
  PROVE  Protocol!Next
  <1>1. SpecStatus(h) = "PENDING" /\ ~Debited(h) /\ Debited(h)' /\ SpecStatus(h)' = "PENDING"
    BY DEF IndInv, Typed, Rows, Debit, Debited, SpecStatus
  <1>2. OnlyAt(h)
    BY DEF IndInv, Typed, Debit, OnlyAt, SpecStatus, Debited
  <1>3. UNCHANGED SpecStatuses
    BY <1>1, <1>2 DEF OnlyAt, SpecStatuses
  <1>4. DebitedHolds' = [DebitedHolds EXCEPT ![h] = TRUE]
    BY <1>1, <1>2, StatusAt
  <1>5. Limit - reserved >= Amount[h] /\ reserved' = reserved + Amount[h]
    <2>1. headroom = Limit - reserved - settled /\ headroom >= Amount[h]
      BY DEF IndInv, Conservation, Debit
    <2>2. Limit \in Nat /\ reserved \in Int /\ settled \in Nat /\ Amount[h] \in Nat
      BY AmountAssumption, LimitAssumption DEF IndInv, Typed
    <2>3. Limit - reserved >= Amount[h]
      BY <2>1, <2>2
    <2> QED  BY <2>3 DEF Debit, PoolMove
  <1>6. SpecStatuses[h] = "PENDING" /\ ~DebitedHolds[h]
    BY <1>1 DEF SpecStatuses, DebitedHolds
  <1>7. Protocol!commit_debit(h)
    BY <1>3, <1>4, <1>5, <1>6
       DEF SpecStatuses, DebitedHolds, Protocol!commit_debit, Protocol!headroom
  <1> QED  BY <1>7 DEF Protocol!Next

\* A debit given back is the abstract step for the status it ends in.
LEMMA GiveBackAt ==
  ASSUME Typed, NEW h \in Holds, OnlyAt(h), Debited(h), ~Debited(h)',
         reserved' = reserved - Amount[h], NEW to, SpecStatus(h)' = to,
         \/ SpecStatus(h) = "ACTIVE" /\ to \in {"SETTLED", "RELEASED", "EXPIRED"}
         \/ SpecStatus(h) = "EXPIRED_UNCREDITED" /\ to = "RECLAIMED"
  PROVE  Protocol!Next
  <1>1. /\ SpecStatuses' = [SpecStatuses EXCEPT ![h] = to]
        /\ DebitedHolds' = [DebitedHolds EXCEPT ![h] = FALSE]
    BY StatusAt
  <1>2. SpecStatuses[h] = SpecStatus(h) /\ DebitedHolds[h]
    BY DEF SpecStatuses, DebitedHolds
  <1>3. \/ \E t \in {"SETTLED", "RELEASED"} : Protocol!return_reservation(h, t)
        \/ Protocol!reap_active_expired(h)
        \/ Protocol!reconcile(h)
    BY <1>1, <1>2
       DEF SpecStatuses, DebitedHolds, Protocol!return_reservation, Protocol!GiveBack,
           Protocol!reap_active_expired, Protocol!reconcile, Protocol!Move
  <1> QED  BY <1>3 DEF Protocol!Next

\* The end of an ACTIVE hold is a step of the abstract protocol.
LEMMA EndAt ==
  ASSUME IndInv, NEW h \in Holds, NEW a, NEW event \in Terminals \ {"none"},
         EndHold(h, event, a), \A k \in Holds \ {h} : marker'[k] = marker[k]
  PROVE  Protocol!Next
  <1> DEFINE to == CASE event = "SETTLE" -> "SETTLED"
                     [] event = "RELEASE" -> "RELEASED"
                     [] OTHER -> "EXPIRED"
  <1>1. terminal[h] = "none" /\ Debited(h)
    BY DEF IndInv, Typed, Rows, EndHold, Debited
  <1>2. SpecStatus(h) = "ACTIVE" /\ SpecStatus(h)' = to
    BY <1>1 DEF IndInv, Typed, EndHold, SpecStatus, Terminals
  <1>3. ~Debited(h)' /\ OnlyAt(h)
    BY DEF IndInv, Typed, EndHold, OnlyAt, SpecStatus, Debited
  <1>4. reserved' = reserved - Amount[h]
    BY AmountAssumption DEF IndInv, Typed, EndHold, PoolMove
  <1>5. to \in {"SETTLED", "RELEASED", "EXPIRED"}
    OBVIOUS
  <1> HIDE DEF to
  <1> QED  BY <1>1, <1>2, <1>3, <1>4, <1>5, GiveBackAt DEF IndInv

\* A write of the HOLD row's status alone.
LEMMA TransitionAt ==
  ASSUME IndInv, NEW h \in Holds, NEW from, NEW to, Transition(h, from, to),
         UNCHANGED <<pool, terminal, marker>>,
         \/ from = "none" /\ to = "PENDING"
         \/ from = "PENDING" /\ to \in {"ACTIVE", "EXPIRED_UNCREDITED", "FAILED"}
         \/ /\ from = "EXPIRED_UNCREDITED" /\ to = "RECLAIMED"
            /\ marker[h] # "RESERVED"
  PROVE  [Protocol!Next]_Protocol!vars
  <1>1. CASE status[h] # from
    <2>1. UNCHANGED status
      BY <1>1 DEF Transition, IndInv, Typed
    <2> QED  BY <2>1, UnreadRows
  <1>2. CASE status[h] = from
    <2>1. terminal[h] = "none" /\ status'[h] = to
      BY <1>2 DEF IndInv, Typed, Rows, Transition
    <2>2. OnlyAt(h) /\ Debited(h)' = Debited(h)
      BY DEF IndInv, Typed, Transition, OnlyAt, SpecStatus, Debited
    <2>3. CASE marker[h] = "SETTLED"
      <3>1. \A k \in Holds : SpecStatus(k)' = SpecStatus(k) /\ Debited(k)' = Debited(k)
        BY <1>2, <2>1, <2>2, <2>3 DEF IndInv, Rows, OnlyAt, SpecStatus
      <3> QED  BY <3>1, ProtocolStutters DEF pool
    <2>4. CASE marker[h] # "SETTLED"
      <3>1. SpecStatus(h) = from /\ SpecStatus(h)' = to
        BY <1>2, <2>1, <2>4 DEF SpecStatus
      <3>2. to = "RECLAIMED" => ~Debited(h)
        BY DEF Debited
      <3> QED  BY <2>2, <3>1, <3>2, MoveAt DEF pool
    <2> QED  BY <2>3, <2>4
  <1> QED  BY <1>1, <1>2

\* Each step of the four writes and their jobs is one step of the protocol, or none.
LEMMA StepImplements ==
  ASSUME Prompt, IndInv, Attempts, [Next]_vars
  PROVE  [Protocol!Next]_Protocol!vars
  <1> USE DEF hold
  <1>1. UNCHANGED vars => UNCHANGED Protocol!vars
    BY UnreadRows DEF vars
  <1>2. ASSUME NEW h \in Holds, TimeStep(h) PROVE [Protocol!Next]_Protocol!vars
    <2>1. CASE Expire(h)  BY <2>1, UnreadRows DEF Expire
    <2>2. CASE Fence(h)
      BY <2>2, TransitionAt DEF Fence, Transition
    <2>3. CASE Reap(h)
      <3>1. EndHold(h, "RECLAIM", 0) /\ \A k \in Holds \ {h} : marker'[k] = marker[k]
        BY <2>3 DEF Reap, IndInv, Typed
      <3> QED  BY <3>1, EndAt DEF Terminals
    <2>4. CASE Audit(h)
      <3>1. \A k \in Holds : SpecStatus(k)' = SpecStatus(k) /\ Debited(k)' = Debited(k)
        BY <2>4 DEF Audit, IndInv, Typed, Rows, Debited, SpecStatus
      <3> QED  BY <2>4, <3>1, ProtocolStutters DEF Audit, pool
    <2> QED  BY <1>2, <2>1, <2>2, <2>3, <2>4 DEF TimeStep
  <1>3. ASSUME NEW c \in Callers, NEW h \in Holds, CallStep(c, h)
        PROVE  [Protocol!Next]_Protocol!vars
    BY <1>3, UnreadRows DEF CallStep, Authorize, Rehydrate
  <1>4. ASSUME NEW c \in Callers, CallerStep(c) PROVE [Protocol!Next]_Protocol!vars
    <2> at[c] \in Holds
      BY DEF IndInv, Typed
    <2>1. CASE PutHold(c)
      BY <2>1, TransitionAt DEF PutHold
    <2>2. CASE Commit(c) \/ CommitUnclear(c)
      <3>1. /\ UNCHANGED <<status, terminal>>
            /\ Debit(at[c]) \/ UNCHANGED <<pool, marker>>
            /\ status[at[c]] = "PENDING"
        BY <2>2 DEF Commit, CommitUnclear, Attempts
      <3>2. CASE Debit(at[c])
        BY <3>1, <3>2, CommitAt
      <3>3. CASE UNCHANGED <<pool, marker>>
        BY <3>1, <3>3, UnreadRows
      <3> QED  BY <3>1, <3>2, <3>3
    <2>3. CASE MarkFailed(c)
      BY <2>3, TransitionAt, UnreadRows DEF MarkFailed
    <2>4. CASE Activate(c)
      BY <2>4, TransitionAt, UnreadRows DEF Activate
    <2>5. CASE Help(c)
      BY <2>5, TransitionAt, UnreadRows DEF Help
    <2>6. CASE Probe(c) \/ Evidence(c) \/ Verdict(c) \/ CaptureRefused(c) \/ EndCancelled(c)
      BY <2>6, UnreadRows DEF Probe, Evidence, Verdict, CaptureRefused, EndCancelled
    <2>7. CASE End(c)
      <3>1. PICK a \in Costs \cup {0}, event \in Terminals \ {"none"} :
              EndHold(at[c], event, a)
        BY <2>7 DEF End, Terminals
      <3> QED  BY <2>7, <3>1, EndAt DEF End
    <2>8. CASE SettleMarker(c)
      <3>1. \A k \in Holds : SpecStatus(k)' = SpecStatus(k) /\ Debited(k)' = Debited(k)
        BY <2>8 DEF SettleMarker, IndInv, Typed, Rows, Debited, SpecStatus
      <3> QED  BY <2>8, <3>1, ProtocolStutters DEF SettleMarker, pool
    <2> QED  BY <1>4, <2>1, <2>2, <2>3, <2>4, <2>5, <2>6, <2>7, <2>8 DEF CallerStep
  <1>5. ASSUME NEW c \in Callers, Crash(c) PROVE UNCHANGED Protocol!vars
    BY <1>5, UnreadRows DEF Crash
  <1>6. ASSUME NEW r \in Reconcilers, NEW h \in Holds, Scan(r, h)
        PROVE  UNCHANGED Protocol!vars
    BY <1>6, UnreadRows DEF Scan
  <1>7. ASSUME NEW r \in Reconcilers, ReconcilerStep(r)
        PROVE  [Protocol!Next]_Protocol!vars
    <2>1. CASE LookAtMarker(r) \/ CreditDeferred(r)
      BY <2>1, UnreadRows DEF LookAtMarker, CreditDeferred
    <2>2. CASE Retire(r)
      <3>1. rat[r] \in Holds /\ marker[rat[r]] # "RESERVED"
        BY <2>2 DEF Retire, IndInv, Typed, Attempts
      <3> QED  BY <2>2, <3>1, TransitionAt, UnreadRows DEF Retire
    <2>3. CASE CreditBack(r) /\ marker[rat[r]] # "RESERVED"
      BY <2>3, UnreadRows DEF CreditBack
    <2>4. CASE CreditBack(r) /\ marker[rat[r]] = "RESERVED"
      <3>1. PICK h \in Holds : h = rat[r]
        BY DEF IndInv, Typed
      <3>2. status[h] = "EXPIRED_UNCREDITED" /\ terminal[h] = "none"
        BY <2>4, <3>1 DEF CreditBack, IndInv, Typed, Rows, Attempts
      <3>3. Debited(h) /\ SpecStatus(h) = "EXPIRED_UNCREDITED"
        BY <2>4, <3>1, <3>2 DEF Debited, SpecStatus
      <3>4. marker' = [marker EXCEPT ![h] = "SETTLED"] /\ UNCHANGED <<status, terminal>>
        BY <2>4, <3>1 DEF CreditBack
      <3>5. ~Debited(h)' /\ SpecStatus(h)' = "RECLAIMED" /\ OnlyAt(h)
        BY <3>2, <3>4 DEF IndInv, Typed, Debited, SpecStatus, OnlyAt
      <3>6. reserved' = reserved - Amount[h]
        BY <2>4, <3>1, AmountAssumption DEF CreditBack, PoolMove, IndInv, Typed
      <3> QED  BY <3>3, <3>5, <3>6, GiveBackAt DEF IndInv
    <2> QED  BY <1>7, <2>1, <2>2, <2>3, <2>4 DEF ReconcilerStep
  <1> QED  BY <1>1, <1>2, <1>3, <1>4, <1>5, <1>6, <1>7 DEF Next, TimeStep, CallStep

\* If no attempt outlives its hold, the intent, the HOLD row, the debit and the
\* activation written one by one behave as the repository's executable
\* specification, for any number of keys, threads, faults and deaths.
THEOREM PendingImplementsProtocol == ASSUME Prompt PROVE Spec => ImplementsProtocol
  <1>1. Init => Protocol!Init
    <2> SUFFICES ASSUME Init PROVE Protocol!Init
      OBVIOUS
    <2>1. \A h \in Holds : SpecStatus(h) = "none" /\ Debited(h) = FALSE
      BY DEF Init, SpecStatus, Debited
    <2> QED  BY <2>1 DEF Init, Protocol!Init
  <1>2. IndInv /\ Attempts /\ [Next]_vars => [Protocol!Next]_Protocol!vars
    BY StepImplements
  <1> QED  BY <1>1, <1>2, AttemptsHold, PTL DEF Spec, ImplementsProtocol, Protocol!Spec

=============================================================================
