------------------------ MODULE HoldLifecycleProofs ------------------------
(***************************************************************************)
(* What HoldLifecycle promises for every number of holds, callers and      *)
(* reapers, every amount, and every number of failed writes and dead       *)
(* threads: types, money, answers, observed spend, and the refinement of   *)
(* BillingLedger.  A step of any thread is, for the pool, one of six moves *)
(* (MoneyStep); each invariant of the money and the refinement is then a   *)
(* matter of these six.                                                    *)
(***************************************************************************)
EXTENDS HoldLifecycle, SumsProofs

USE DEF None

\* A reaper goes to book a late charge only for an OWED_SETTLE row it has read.
\* Without it the figure it books would not be known to be a number.
RecoveryIsOwed == \A r \in Reapers : rpc[r] = "late" => owed[rat[r]] > 0

-----------------------------------------------------------------------------
(* Types. *)

\* Figures are amounts, and zero is one.
LEMMA FiguresType == Figures \subseteq Nat /\ Costs \subseteq Figures /\ 0 \in Figures
  BY CostsAssumption DEF Figures

\* The writes of the pool row keep its counters integers.
LEMMA EndHoldType ==
  ASSUME TypeOK, NEW h \in Holds, NEW event \in Terminals, NEW a \in Figures,
         EndHold(h, event, a)
  PROVE  /\ headroom' \in Int /\ reserved' \in Int /\ settled' \in Int
         /\ row' \in [Holds -> RowStates]
         /\ terminal' \in [Holds -> Terminals]
         /\ charge' \in [Holds -> Figures]
         /\ late' \in [Holds -> Figures \cup {None}]
         /\ owed' \in [Holds -> Figures \cup {None}]
  BY AmountAssumption, FiguresType DEF TypeOK, EndHold, PoolMove, RowStates, Terminals

\* Booking a late charge leaves the row, the ledger and the counters typed.
LEMMA BookLateType ==
  ASSUME TypeOK, NEW h \in Holds, NEW a \in Figures, BookLate(h, a)
  PROVE  /\ headroom' \in Int /\ reserved' \in Int /\ settled' \in Int
         /\ row' \in [Holds -> RowStates]
         /\ terminal' \in [Holds -> Terminals]
         /\ charge' \in [Holds -> Figures]
         /\ late' \in [Holds -> Figures \cup {None}]
         /\ owed' \in [Holds -> Figures \cup {None}]
  BY FiguresType DEF TypeOK, BookLate, PoolMove, pool, ledger

\* Whatever a call answers, its thread keeps its type.
LEMMA CallerType ==
  ASSUME TypeOK, NEW c \in Callers,
         \/ \E step \in CallerSteps : Goto(c, step)
         \/ \E r \in Replies : Answer(c, r)
         \/ SettleReturns(c) \/ SettleRaises(c) \/ ReleaseReturns(c)
  PROVE  /\ pc' \in [Callers -> CallerSteps]
         /\ op' \in [Callers -> Ops]
         /\ at' \in [Callers -> Holds]
         /\ amt' \in [Callers -> Figures]
         /\ reply' \in [Callers -> Replies]
  BY DEF TypeOK, Goto, Answer, SettleReturns, SettleRaises, ReleaseReturns, CallerSteps, Replies

\* A reaper goes from one of its steps to another, at a hold.
LEMMA ReaperType ==
  ASSUME TypeOK, NEW r \in Reapers, NEW step \in ReaperSteps, ReaperGoto(r, step)
  PROVE  rpc' \in [Reapers -> ReaperSteps] /\ rat' \in [Reapers -> Holds]
  BY DEF TypeOK, ReaperGoto

\* Taking tokens back leaves a natural number.
LEMMA TakeBackType ==
  ASSUME NEW used \in Nat, NEW n \in Nat
  PROVE  TakeBack(used, n) \in Nat
  BY DEF TakeBack

\* So does settling a hold's tokens for what was used.
LEMMA SettledTokensType ==
  ASSUME NEW used \in Nat, NEW h \in Holds, NEW u \in Nat
  PROVE  SettledTokens(used, h, u) \in Nat
  BY TokensAssumption, LimitAssumption DEF SettledTokens, TakeBack

\* Every answer read from the ledger is one of the answers.
LEMMA ReplyType ==
  ASSUME NEW h, NEW a, NEW event
  PROVE  /\ CaptureReply(h, a) \in Replies
         /\ VoidReply(h) \in Replies
         /\ ResolutionReply(h, event, a) \in Replies
  <1>1. CaptureReply(h, a) \in {"200", "409", "410", "404", "503"}
    BY Zenon DEF CaptureReply
  <1>2. VoidReply(h) \in {"200", "409", "410", "404", "503"}
    BY Zenon DEF VoidReply
  <1>3. ResolutionReply(h, event, a) \in {"200", "409", "503"}
    BY Zenon DEF ResolutionReply
  <1> QED  BY <1>1, <1>2, <1>3 DEF Replies

\* Every step keeps the types.
LEMMA TypeStep == TypeOK /\ RecoveryIsOwed /\ [Next]_vars => TypeOK'
  <1> SUFFICES ASSUME TypeOK, RecoveryIsOwed, [Next]_vars PROVE TypeOK'
    OBVIOUS
  <1> USE TokensAssumption, AmountAssumption, CostsAssumption, FiguresType
  <1>1. ASSUME NEW h \in Holds, Reserve(h) PROVE TypeOK'
    BY <1>1 DEF TypeOK, Reserve, PoolMove, flags, ledger, caller, reaper, budget, RowStates
  <1>2. ASSUME NEW h \in Holds, Expire(h) PROVE TypeOK'
    BY <1>2 DEF TypeOK, Expire, pool, ledger, caller, reaper, budget
  <1>3. ASSUME NEW h \in Holds, KeepReservation(h) PROVE TypeOK'
    BY <1>3 DEF TypeOK, KeepReservation, Claim, pool, ledger, caller, reaper, budget
  <1>4. ASSUME NEW h \in Holds, KeepFails(h) PROVE TypeOK'
    BY <1>4 DEF TypeOK, KeepFails, Claim, Fail, pool, ledger, caller, reaper
  <1>5. ASSUME NEW c \in Callers, NEW h \in Holds, NEW a \in Costs, NEW u \in TokenUse,
               ClaimSettle(c, h, a, u)
        PROVE  TypeOK'
    <2>1. credit' \in Nat
      BY <1>5, SettledTokensType DEF TypeOK, ClaimSettle
    <2> QED
      BY <1>5, <2>1 DEF TypeOK, ClaimSettle, Claim, Begin, pool, ledger, reaper, budget, CallerSteps, Ops, Replies
  <1>6. ASSUME NEW c \in Callers, NEW h \in Holds, ReturnReservation(c, h) PROVE TypeOK'
    <2>1. credit' \in Nat
      BY <1>6, TakeBackType DEF TypeOK, ReturnReservation
    <2> QED
      BY <1>6, <2>1 DEF TypeOK, ReturnReservation, Claim, Begin, pool, ledger, reaper, budget, CallerSteps, Ops, Replies
  <1>7. ASSUME NEW c \in Callers, NEW h \in Holds, NEW a \in Costs, Capture(c, h, a)
        PROVE  TypeOK'
    BY <1>7 DEF TypeOK, Capture, Begin, pool, flags, ledger, reaper, budget, CallerSteps, Ops, Replies
  <1>8. ASSUME NEW c \in Callers, NEW h \in Holds, NEW a \in Costs, CaptureRefused(c, h, a)
        PROVE  TypeOK'
    <2> DEFINE r == IF row[h] = "gone" THEN CaptureReply(h, a) ELSE "410"
    <2>1. r \in Replies
      BY ReplyType DEF Replies
    <2> HIDE DEF r
    <2>2. Refuse(c, "capture", h, a, r)
      BY <1>8 DEF CaptureRefused, r
    <2> QED
      BY <1>8, <2>1, <2>2 DEF TypeOK, CaptureRefused, Refuse, pool, flags, ledger, reaper, budget, Ops
  <1>9. ASSUME NEW c \in Callers, NEW h \in Holds, Void(c, h) PROVE TypeOK'
    <2> DEFINE r == VoidReply(h)
    <2>1. r \in Replies
      BY ReplyType
    <2> HIDE DEF r
    <2>2. Refuse(c, "void", h, 0, r) \/ Begin(c, "void", h, 0, "release")
      BY <1>9 DEF Void, r
    <2>3. UNCHANGED <<pool, credit, row, flags, ledger, reaper, budget>>
      BY <1>9 DEF Void
    <2>4. CASE Refuse(c, "void", h, 0, r)
      BY <2>1, <2>3, <2>4 DEF TypeOK, Refuse, pool, flags, ledger, reaper, budget, Ops
    <2>5. CASE Begin(c, "void", h, 0, "release")
      BY <2>3, <2>5 DEF TypeOK, Begin, pool, flags, ledger, reaper, budget, Ops, CallerSteps, Replies
    <2> QED  BY <2>2, <2>4, <2>5
  <1>10. ASSUME NEW c \in Callers, NEW h \in Holds, NEW a \in Costs, ResolveCharge(c, h, a)
         PROVE  TypeOK'
    BY <1>10 DEF TypeOK, ResolveCharge, Begin, pool, flags, ledger, reaper, budget, Ops, CallerSteps, Replies
  <1>11. ASSUME NEW c \in Callers, NEW h \in Holds, ResolveRelease(c, h) PROVE TypeOK'
    BY <1>11 DEF TypeOK, ResolveRelease, Begin, pool, flags, ledger, reaper, budget, Ops, CallerSteps, Replies
  <1>12. ASSUME NEW c \in Callers, SettleCommits(c) PROVE TypeOK'
    BY <1>12, EndHoldType, CallerType DEF TypeOK, SettleCommits, flags, reaper, budget, Terminals
  <1>13. ASSUME NEW c \in Callers, SettleRouted(c) PROVE TypeOK'
    BY <1>13, CallerType DEF TypeOK, SettleRouted, pool, flags, ledger, reaper, budget, CallerSteps, Replies
  <1>14. ASSUME NEW c \in Callers, SettleExhausted(c) PROVE TypeOK'
    <2>1. CASE EndHold(at[c], "SETTLE", amt[c])
      <3>1. at[c] \in Holds /\ amt[c] \in Figures /\ "SETTLE" \in Terminals
        BY DEF TypeOK, Terminals
      <3>2. headroom' \in Int /\ reserved' \in Int /\ settled' \in Int /\ row' \in [Holds -> RowStates] /\ terminal' \in [Holds -> Terminals]
            /\ charge' \in [Holds -> Figures] /\ late' \in [Holds -> Figures \cup {None}]
            /\ owed' \in [Holds -> Figures \cup {None}]
        BY <2>1, <3>1, EndHoldType DEF TypeOK
      <3> QED
        BY <1>14, <3>2, CallerType DEF TypeOK, SettleExhausted, Fail, flags, reaper, CallerSteps
    <2>2. CASE UNCHANGED <<pool, row, ledger>>
      BY <1>14, <2>2, CallerType DEF TypeOK, SettleExhausted, Fail, pool, flags, ledger, reaper, CallerSteps
    <2> QED  BY <1>14, <2>1, <2>2 DEF SettleExhausted
  <1>15. ASSUME NEW c \in Callers, SettleTimesOut(c) PROVE TypeOK'
    <2>1. CASE EndHold(at[c], "SETTLE", amt[c])
      <3>1. at[c] \in Holds /\ amt[c] \in Figures /\ "SETTLE" \in Terminals
        BY DEF TypeOK, Terminals
      <3>2. headroom' \in Int /\ reserved' \in Int /\ settled' \in Int /\ row' \in [Holds -> RowStates] /\ terminal' \in [Holds -> Terminals]
            /\ charge' \in [Holds -> Figures] /\ late' \in [Holds -> Figures \cup {None}]
            /\ owed' \in [Holds -> Figures \cup {None}]
        BY <2>1, <3>1, EndHoldType DEF TypeOK
      <3> QED
        BY <1>15, <3>2, CallerType DEF TypeOK, SettleTimesOut, Fail, flags, reaper
    <2>2. CASE UNCHANGED <<pool, row, ledger>>
      BY <1>15, <2>2, CallerType DEF TypeOK, SettleTimesOut, Fail, pool, flags, ledger, reaper
    <2> QED  BY <1>15, <2>1, <2>2 DEF SettleTimesOut
  <1>16. ASSUME NEW c \in Callers, Owe(c) PROVE TypeOK'
    <2>1. owed' \in [Holds -> Figures \cup {None}]
      BY <1>16 DEF TypeOK, Owe
    <2> QED
      BY <1>16, <2>1, CallerType DEF TypeOK, Owe, Fail, pool, flags, reaper, budget, CallerSteps
  <1>17. ASSUME NEW c \in Callers, Redrive(c) PROVE TypeOK'
    <2>1. CASE terminal[at[c]] = "RECLAIM" /\ owed[at[c]] > 0
      <3>1. owed[at[c]] \in Figures
        BY <2>1 DEF TypeOK
      <3> QED
        BY <1>17, <2>1, <3>1 DEF TypeOK, Redrive, pool, flags, ledger, reaper, budget, CallerSteps
    <2>2. CASE ~(terminal[at[c]] = "RECLAIM" /\ owed[at[c]] > 0)
      BY <1>17, <2>2, CallerType DEF TypeOK, Redrive, pool, flags, ledger, reaper, budget
    <2> QED  BY <2>1, <2>2
  <1>18. ASSUME NEW c \in Callers, LateSettle(c) PROVE TypeOK'
    BY <1>18, BookLateType, CallerType DEF TypeOK, LateSettle, flags, reaper, budget
  <1>19. ASSUME NEW c \in Callers, LateSettleFails(c) PROVE TypeOK'
    BY <1>19, CallerType DEF TypeOK, LateSettleFails, Fail, pool, flags, ledger, reaper
  <1>20. ASSUME NEW c \in Callers, Release(c) PROVE TypeOK'
    BY <1>20, EndHoldType, CallerType DEF TypeOK, Release, pool, flags, ledger, reaper, budget, Terminals
  <1>21. ASSUME NEW c \in Callers, ReleaseFails(c) PROVE TypeOK'
    BY <1>21, CallerType DEF TypeOK, ReleaseFails, Fail, pool, flags, ledger, reaper
  <1>22. ASSUME NEW c \in Callers, ReadBack(c) PROVE TypeOK'
    BY <1>22, ReplyType, CallerType DEF TypeOK, ReadBack, pool, flags, ledger, reaper, budget, CallerSteps
  <1>23. ASSUME NEW c \in Callers, GiveBack(c) PROVE TypeOK'
    <2>1. credit' \in Nat
      BY <1>23, TakeBackType DEF TypeOK, GiveBack
    <2> QED
      BY <1>23, <2>1, CallerType DEF TypeOK, GiveBack, pool, flags, ledger, reaper, budget, Replies
  <1>24. ASSUME NEW c \in Callers, CallerDies(c) PROVE TypeOK'
    BY <1>24, CallerType DEF TypeOK, CallerDies, pool, flags, ledger, reaper, Replies
  <1>25. ASSUME NEW r \in Reapers, NEW h \in Holds, Scan(r, h) PROVE TypeOK'
    BY <1>25 DEF TypeOK, Scan, pool, flags, ledger, caller, budget, ReaperSteps
  <1>26. ASSUME NEW r \in Reapers, Retain(r) PROVE TypeOK'
    BY <1>26, ReaperType DEF TypeOK, Retain, pool, flags, ledger, caller, budget, ReaperSteps, RowStates
  <1>27. ASSUME NEW r \in Reapers, RetainFails(r) PROVE TypeOK'
    BY <1>27, ReaperType DEF TypeOK, RetainFails, Fail, pool, flags, ledger, caller, ReaperSteps
  <1>28. ASSUME NEW r \in Reapers, Reclaim(r) PROVE TypeOK'
    BY <1>28, ReaperType, EndHoldType DEF TypeOK, Reclaim, pool, flags, ledger, caller, budget, ReaperSteps, Terminals
  <1>29. ASSUME NEW r \in Reapers, ReclaimBare(r) PROVE TypeOK'
    BY <1>29, ReaperType, EndHoldType DEF TypeOK, ReclaimBare, pool, flags, ledger, caller, budget, ReaperSteps, Terminals
  <1>30. ASSUME NEW r \in Reapers, ReclaimAnswerLost(r) PROVE TypeOK'
    BY <1>30, ReaperType, EndHoldType DEF TypeOK, ReclaimAnswerLost, Fail, flags, caller, ReaperSteps, Terminals
  <1>31. ASSUME NEW r \in Reapers, Recover(r) PROVE TypeOK'
    BY <1>31, ReaperType DEF TypeOK, Recover, pool, flags, ledger, caller, budget, ReaperSteps
  <1>32. ASSUME NEW r \in Reapers, RecoverLate(r) PROVE TypeOK'
    <2>1. owed[rat[r]] \in Figures
      BY <1>32 DEF TypeOK, RecoveryIsOwed, RecoverLate
    <2> QED
      BY <1>32, <2>1, ReaperType, BookLateType DEF TypeOK, RecoverLate, flags, caller, budget, ReaperSteps
  <1>33. ASSUME NEW r \in Reapers, RecoverLateFails(r) PROVE TypeOK'
    BY <1>33, ReaperType DEF TypeOK, RecoverLateFails, Fail, pool, flags, ledger, caller, ReaperSteps
  <1>34. ASSUME NEW r \in Reapers, ReaperDies(r) PROVE TypeOK'
    BY <1>34, ReaperType DEF TypeOK, ReaperDies, pool, flags, ledger, caller, ReaperSteps
  <1>35. CASE UNCHANGED vars
    BY <1>35 DEF TypeOK, vars, pool, flags, ledger, caller, reaper, budget
  <1> QED
    BY <1>1, <1>2, <1>3, <1>4, <1>5, <1>6, <1>7, <1>8, <1>9, <1>10, <1>11, <1>12, <1>13, <1>14,
       <1>15, <1>16, <1>17, <1>18, <1>19, <1>20, <1>21, <1>22, <1>23, <1>24, <1>25, <1>26, <1>27,
       <1>28, <1>29, <1>30, <1>31, <1>32, <1>33, <1>34, <1>35
       DEF Next, HoldStep, CallStep, CallerStep, ReaperStep

\* An OWED_SETTLE row is written once.
LEMMA OwedStable ==
  ASSUME TypeOK, [Next]_vars, NEW h \in Holds, owed[h] # None
  PROVE  owed'[h] = owed[h]
  <1>1. ASSUME NEW c \in Callers, Owe(c) PROVE owed'[h] = owed[h]
    BY <1>1 DEF TypeOK, Owe
  <1>2. ASSUME NEW k \in Holds, HoldStep(k) PROVE owed'[h] = owed[h]
    BY <1>2 DEF HoldStep, Reserve, Expire, KeepReservation, KeepFails, ledger
  <1>3. ASSUME NEW c \in Callers, NEW k \in Holds, CallStep(c, k) PROVE owed'[h] = owed[h]
    BY <1>3 DEF CallStep, ClaimSettle, ReturnReservation, Capture, CaptureRefused, Void,
                ResolveCharge, ResolveRelease, ledger
  <1>4. ASSUME NEW c \in Callers, CallerStep(c) PROVE owed'[h] = owed[h]
    BY <1>1, <1>4 DEF CallerStep, SettleCommits, SettleRouted, SettleExhausted, SettleTimesOut,
                Redrive, LateSettle, LateSettleFails, Release, ReleaseFails, ReadBack, GiveBack,
                EndHold, BookLate, ledger
  <1>5. ASSUME NEW r \in Reapers, ReaperStep(r) PROVE owed'[h] = owed[h]
    BY <1>5 DEF ReaperStep, Scan, Retain, RetainFails, Reclaim, ReclaimBare, ReclaimAnswerLost,
                Recover, RecoverLate, RecoverLateFails, EndHold, BookLate, ledger
  <1> QED
    BY <1>2, <1>3, <1>4, <1>5 DEF Next, CallerDies, ReaperDies, vars, ledger

\* So a reaper that goes to book a late charge still has one when it gets there.
LEMMA RecoveryStep == TypeOK /\ RecoveryIsOwed /\ [Next]_vars => RecoveryIsOwed'
  <1> SUFFICES ASSUME TypeOK, RecoveryIsOwed, [Next]_vars,
                      NEW r \in Reapers, rpc'[r] = "late"
               PROVE  owed'[rat'[r]] > 0
    BY DEF RecoveryIsOwed
  <1>1. rat[r] \in Holds /\ (owed[rat[r]] > 0 => owed'[rat[r]] > 0)
    BY OwedStable, FiguresType DEF TypeOK
  <1>2. SUFFICES rat'[r] = rat[r] /\ owed[rat[r]] > 0
    BY <1>1
  <1>3. ASSUME NEW q \in Reapers, ReaperStep(q) PROVE rat'[r] = rat[r] /\ owed[rat[r]] > 0
    <2>1. CASE q = r
      BY <1>3, <2>1 DEF TypeOK, RecoveryIsOwed, ReaperStep, Scan, Retain, RetainFails, Reclaim,
           ReclaimBare, ReclaimAnswerLost, Recover, RecoverLate, RecoverLateFails, ReaperGoto
    <2>2. CASE q # r
      BY <1>3, <2>2 DEF TypeOK, RecoveryIsOwed, ReaperStep, Scan, Retain, RetainFails, Reclaim,
           ReclaimBare, ReclaimAnswerLost, Recover, RecoverLate, RecoverLateFails, ReaperGoto
    <2> QED  BY <2>1, <2>2
  <1>4. ASSUME NEW q \in Reapers, ReaperDies(q) PROVE rat'[r] = rat[r] /\ owed[rat[r]] > 0
    BY <1>4 DEF TypeOK, RecoveryIsOwed, ReaperDies, ReaperGoto
  <1>5. CASE UNCHANGED reaper
    BY <1>5 DEF RecoveryIsOwed, reaper
  <1>6. CASE Next
    <2>1. ASSUME NEW k \in Holds, HoldStep(k) PROVE UNCHANGED reaper
      BY <2>1 DEF HoldStep, Reserve, Expire, KeepReservation, KeepFails, reaper
    <2>2. ASSUME NEW c \in Callers, NEW k \in Holds, CallStep(c, k) PROVE UNCHANGED reaper
      BY <2>2 DEF CallStep, ClaimSettle, ReturnReservation, Capture, CaptureRefused, Void,
                  ResolveCharge, ResolveRelease, reaper
    <2>3. ASSUME NEW c \in Callers, CallerStep(c) \/ CallerDies(c) PROVE UNCHANGED reaper
      BY <2>3 DEF CallerStep, CallerDies, SettleCommits, SettleRouted, SettleExhausted,
                  SettleTimesOut, Owe, Redrive, LateSettle, LateSettleFails, Release,
                  ReleaseFails, ReadBack, GiveBack, reaper
    <2> QED  BY <1>3, <1>4, <1>5, <1>6, <2>1, <2>2, <2>3 DEF Next
  <1> QED  BY <1>5, <1>6 DEF vars

\* The first state is typed, and no reaper is about to book what is not owed.
LEMMA InitType == Init => TypeOK /\ RecoveryIsOwed
  <1>1. Init => TypeOK
    BY HoldsAssumption, LimitAssumption, FiguresType
       DEF Init, TypeOK, RowStates, Terminals, CallerSteps, Ops, Replies, ReaperSteps
  <1>2. Init => RecoveryIsOwed
    BY DEF Init, RecoveryIsOwed
  <1> QED  BY <1>1, <1>2

\* The type invariant of HoldLifecycle: no step of a request, an endpoint, an
\* operator or a reaper leaves the counters, rows, ledger cells or threads outside
\* their domains; in particular credit_used never underflows.
THEOREM TypeCorrect == Spec => []TypeOK
  BY InitType, TypeStep, RecoveryStep, PTL DEF Spec

-----------------------------------------------------------------------------
(* Money. *)

\* What the pool row, the HOLD rows and the ledger cells are.
money == <<pool, row, terminal, charge, late, expired>>

MoneyReserve(h) ==
  /\ row[h] = "unborn" /\ headroom >= Amount[h]
  /\ PoolMove(Amount[h], 0)
  /\ row' = [row EXCEPT ![h] = "ACTIVE"]
  /\ UNCHANGED <<terminal, charge, late, expired>>

MoneyExpire(h) ==
  /\ row[h] = "ACTIVE" /\ ~expired[h]
  /\ expired' = [expired EXCEPT ![h] = TRUE]
  /\ UNCHANGED <<pool, row, terminal, charge, late>>

MoneyRetain(h) ==
  /\ row[h] = "ACTIVE"
  /\ row' = [row EXCEPT ![h] = "RETAINED"]
  /\ UNCHANGED <<pool, terminal, charge, late, expired>>

MoneyEnd(h, event, a) ==
  /\ Open(h)
  /\ event # "none"
  /\ event # "SETTLE" => a = 0
  /\ event = "RECLAIM" => row[h] = "ACTIVE" /\ expired[h]
  /\ PoolMove(-Amount[h], a)
  /\ row' = [row EXCEPT ![h] = "gone"]
  /\ terminal' = [terminal EXCEPT ![h] = event]
  /\ charge' = [charge EXCEPT ![h] = a]
  /\ UNCHANGED <<late, expired>>

MoneyLate(h, a) ==
  /\ terminal[h] = "RECLAIM" /\ late[h] = None
  /\ PoolMove(0, a)
  /\ late' = [late EXCEPT ![h] = a]
  /\ UNCHANGED <<row, terminal, charge, expired>>

MoneyMove ==
  \/ UNCHANGED money
  \/ \E h \in Holds : MoneyReserve(h) \/ MoneyExpire(h) \/ MoneyRetain(h)
  \/ \E h \in Holds, event \in Terminals, a \in Figures : MoneyEnd(h, event, a)
  \/ \E h \in Holds, a \in Figures : MoneyLate(h, a)

\* A reaper that is about to take a hold has seen that it had expired; the expiry
\* is in the row's key, so it does not come back.
ReaperSawExpiry ==
  \A r \in Reapers : rpc[r] \in {"retain", "reclaim", "bare"} => expired[rat[r]]

\* An amount stands only on a SETTLE.
ChargeIsSettled == \A h \in Holds : terminal[h] # "SETTLE" => charge[h] = 0

-----------------------------------------------------------------------------

\* Every step leaves a reaper past its expiry check at a hold that has expired.
LEMMA ExpiryStep == TypeOK /\ ReaperSawExpiry /\ [Next]_vars => ReaperSawExpiry'
  <1> SUFFICES ASSUME TypeOK, ReaperSawExpiry, [Next]_vars, NEW r \in Reapers,
                      rpc'[r] \in {"retain", "reclaim", "bare"}
               PROVE  expired'[rat'[r]]
    BY DEF ReaperSawExpiry
  <1> USE DEF reaper
  <1>1. ASSUME NEW k \in Holds, expired[k] PROVE expired'[k]
    <2>1. ASSUME NEW h \in Holds, HoldStep(h) PROVE expired'[k]
      BY <1>1, <2>1 DEF TypeOK, HoldStep, Reserve, Expire, KeepReservation, KeepFails, flags
    <2>2. ASSUME NEW c \in Callers, NEW h \in Holds, CallStep(c, h) PROVE expired'[k]
      BY <1>1, <2>2 DEF CallStep, ClaimSettle, ReturnReservation, Capture, CaptureRefused, Void,
                  ResolveCharge, ResolveRelease, flags
    <2>3. ASSUME NEW c \in Callers, CallerStep(c) \/ CallerDies(c) PROVE expired'[k]
      BY <1>1, <2>3 DEF CallerStep, CallerDies, SettleCommits, SettleRouted, SettleExhausted,
                  SettleTimesOut, Owe, Redrive, LateSettle, LateSettleFails, Release,
                  ReleaseFails, ReadBack, GiveBack, flags
    <2>4. ASSUME NEW q \in Reapers, ReaperStep(q) \/ ReaperDies(q) PROVE expired'[k]
      BY <1>1, <2>4 DEF ReaperStep, ReaperDies, Scan, Retain, RetainFails, Reclaim, ReclaimBare,
                  ReclaimAnswerLost, Recover, RecoverLate, RecoverLateFails, flags
    <2> QED  BY <1>1, <2>1, <2>2, <2>3, <2>4 DEF Next, vars, flags
  <1>2. rat[r] \in Holds
    BY DEF TypeOK
  <1>3. CASE UNCHANGED reaper
    BY <1>1, <1>2, <1>3 DEF ReaperSawExpiry
  <1>4. ASSUME NEW q \in Reapers, ReaperStep(q) \/ ReaperDies(q) PROVE expired'[rat'[r]]
    <2>1. CASE q # r
      BY <1>1, <1>2, <1>4, <2>1 DEF TypeOK, ReaperSawExpiry, ReaperStep, ReaperDies, Scan, Retain,
           RetainFails, Reclaim, ReclaimBare, ReclaimAnswerLost, Recover, RecoverLate,
           RecoverLateFails, ReaperGoto
    <2>2. CASE q = r
      <3>1. ASSUME NEW h \in Holds, Scan(r, h) PROVE expired'[rat'[r]]
        BY <1>1, <3>1 DEF TypeOK, Scan
      <3> QED
        BY <1>1, <1>2, <1>4, <2>2, <3>1 DEF TypeOK, ReaperSawExpiry, ReaperStep, ReaperDies, Retain,
           RetainFails, Reclaim, ReclaimBare, ReclaimAnswerLost, Recover, RecoverLate,
           RecoverLateFails, ReaperGoto
    <2> QED  BY <2>1, <2>2
  <1>5. CASE Next
    <2>1. ASSUME NEW h \in Holds, HoldStep(h) PROVE UNCHANGED reaper
      BY <2>1 DEF HoldStep, Reserve, Expire, KeepReservation, KeepFails
    <2>2. ASSUME NEW c \in Callers, NEW h \in Holds, CallStep(c, h) PROVE UNCHANGED reaper
      BY <2>2 DEF CallStep, ClaimSettle, ReturnReservation, Capture, CaptureRefused, Void,
                  ResolveCharge, ResolveRelease
    <2>3. ASSUME NEW c \in Callers, CallerStep(c) \/ CallerDies(c) PROVE UNCHANGED reaper
      BY <2>3 DEF CallerStep, CallerDies, SettleCommits, SettleRouted, SettleExhausted,
                  SettleTimesOut, Owe, Redrive, LateSettle, LateSettleFails, Release,
                  ReleaseFails, ReadBack, GiveBack
    <2> QED  BY <1>3, <1>4, <1>5, <2>1, <2>2, <2>3 DEF Next
  <1> QED  BY <1>3, <1>5 DEF vars

\* The writes of EndHold and BookLate are moves.
LEMMA EndIsMove ==
  ASSUME TypeOK, NEW h \in Holds, NEW event \in Terminals, NEW a \in Figures,
         Open(h), EndHold(h, event, a), event # "none",
         event # "SETTLE" => a = 0,
         event = "RECLAIM" => row[h] = "ACTIVE" /\ expired[h],
         UNCHANGED expired
  PROVE  MoneyMove
  <1>1. MoneyEnd(h, event, a)
    BY DEF MoneyEnd, EndHold
  <1> QED  BY <1>1 DEF MoneyMove

\* Booking a late charge is the move of that name.
LEMMA LateIsMove ==
  ASSUME NEW h \in Holds, NEW a \in Figures, BookLate(h, a), UNCHANGED expired
  PROVE  MoneyMove
  <1>1. CASE terminal[h] = "RECLAIM" /\ late[h] = None
    <2>1. MoneyLate(h, a)
      BY <1>1 DEF BookLate, MoneyLate
    <2> QED  BY <2>1 DEF MoneyMove
  <1>2. CASE ~(terminal[h] = "RECLAIM" /\ late[h] = None)
    BY <1>2 DEF BookLate, MoneyMove, money, ledger
  <1> QED  BY <1>1, <1>2

\* Every step of every thread is a move of the money.
LEMMA MoneyStep ==
  ASSUME TypeOK, RecoveryIsOwed, ReaperSawExpiry, [Next]_vars
  PROVE  MoneyMove
  <1> USE DEF pool, ledger, flags
  <1>1. ASSUME NEW h \in Holds, HoldStep(h) PROVE MoneyMove
    <2>1. CASE Reserve(h)
      BY <2>1 DEF Reserve, MoneyReserve, MoneyMove
    <2>2. CASE Expire(h)
      BY <2>2 DEF Expire, MoneyExpire, MoneyMove
    <2>3. CASE KeepReservation(h) \/ KeepFails(h)
      BY <2>3 DEF KeepReservation, KeepFails, MoneyMove, money
    <2> QED  BY <1>1, <2>1, <2>2, <2>3 DEF HoldStep
  <1>2. ASSUME NEW c \in Callers, NEW h \in Holds, CallStep(c, h) PROVE MoneyMove
    <2>1. UNCHANGED money
      BY <1>2 DEF CallStep, ClaimSettle, ReturnReservation, Capture, CaptureRefused, Void,
                  ResolveCharge, ResolveRelease, money
    <2> QED  BY <2>1 DEF MoneyMove
  <1>3. ASSUME NEW c \in Callers, CallerStep(c) \/ CallerDies(c) PROVE MoneyMove
    <2>1. at[c] \in Holds /\ amt[c] \in Figures /\ 0 \in Figures
          /\ "SETTLE" \in Terminals /\ "RELEASE" \in Terminals
      BY FiguresType DEF TypeOK, Terminals
    <2>2. CASE UNCHANGED money
      BY <2>2 DEF MoneyMove
    <2>3. CASE Open(at[c]) /\ EndHold(at[c], "SETTLE", amt[c]) /\ UNCHANGED expired
      BY <2>1, <2>3, EndIsMove
    <2>4. CASE Open(at[c]) /\ EndHold(at[c], "RELEASE", 0) /\ UNCHANGED expired
      BY <2>1, <2>4, EndIsMove
    <2>5. CASE BookLate(at[c], amt[c]) /\ UNCHANGED expired
      BY <2>1, <2>5, LateIsMove
    <2> QED
      BY <1>3, <2>2, <2>3, <2>4, <2>5
         DEF CallerStep, CallerDies, SettleCommits, SettleRouted, SettleExhausted, SettleTimesOut,
             Owe, Redrive, LateSettle, LateSettleFails, Release, ReleaseFails, ReadBack, GiveBack,
             money
  <1>4. ASSUME NEW r \in Reapers, ReaperStep(r) \/ ReaperDies(r) PROVE MoneyMove
    <2>1. rat[r] \in Holds /\ 0 \in Figures /\ "RECLAIM" \in Terminals
      BY FiguresType DEF TypeOK, Terminals
    <2>2. CASE UNCHANGED money
      BY <2>2 DEF MoneyMove
    <2>3. CASE Retain(r)
      BY <2>1, <2>3 DEF Retain, MoneyRetain, MoneyMove, money
    <2>4. CASE /\ rpc[r] \in {"reclaim", "bare"} /\ Reclaimable(rat[r])
               /\ EndHold(rat[r], "RECLAIM", 0) /\ UNCHANGED expired
      <3>1. Open(rat[r]) /\ row[rat[r]] = "ACTIVE" /\ expired[rat[r]]
        BY <2>4 DEF Reclaimable, Open, ReaperSawExpiry
      <3> QED  BY <2>1, <2>4, <3>1, EndIsMove
    <2>5. CASE RecoverLate(r)
      <3>1. owed[rat[r]] \in Figures
        BY <2>1, <2>5 DEF TypeOK, RecoverLate, RecoveryIsOwed
      <3> QED  BY <2>1, <2>5, <3>1, LateIsMove DEF RecoverLate
    <2> QED
      BY <1>4, <2>2, <2>3, <2>4, <2>5
         DEF ReaperStep, ReaperDies, Scan, RetainFails, Reclaim, ReclaimBare, ReclaimAnswerLost,
             Recover, RecoverLateFails, money
  <1>5. CASE UNCHANGED vars
    BY <1>5 DEF vars, MoneyMove, money
  <1> QED  BY <1>1, <1>2, <1>3, <1>4, <1>5 DEF Next

-----------------------------------------------------------------------------
(* The sums change with one hold at a time. *)

\* What a hold contributes to each sum is an amount.
LEMMA SumsType ==
  ASSUME TypeOK
  PROVE  /\ IsFiniteSet(Holds)
         /\ Outstanding \in [Holds -> Nat]
         /\ charge \in [Holds -> Nat]
         /\ LateCharge \in [Holds -> Nat]
         /\ Overrun \in [Holds -> Nat]
         /\ Total(Outstanding) \in Nat /\ Total(charge) \in Nat
         /\ Total(LateCharge) \in Nat /\ Total(Overrun) \in Nat
  <1>1. charge \in [Holds -> Nat]
    BY FiguresType DEF TypeOK
  <1>2. Outstanding \in [Holds -> Nat]
    BY AmountAssumption DEF Outstanding
  <1>3. LateCharge \in [Holds -> Nat]
    BY FiguresType DEF TypeOK, LateCharge
  <1>4. Overrun \in [Holds -> Nat]
    BY <1>1, AmountAssumption DEF Overrun
  <1> QED  BY <1>1, <1>2, <1>3, <1>4, HoldsAssumption, UnitsFinite

\* Reserving adds the hold's amount to what is outstanding ...
LEMMA ReserveSums ==
  ASSUME TypeOK, NEW h \in Holds, MoneyReserve(h)
  PROVE  /\ Total(Outstanding)' = Total(Outstanding) + Amount[h]
         /\ UNCHANGED <<charge, LateCharge, Overrun>>
  <1>1. Outstanding' = [Outstanding EXCEPT ![h] = Amount[h]]
    BY DEF TypeOK, MoneyReserve, Outstanding
  <1>2. Outstanding[h] = 0
    BY DEF MoneyReserve, Outstanding
  <1>3. Amount[h] \in Nat
    BY AmountAssumption
  <1>4. Total(Outstanding)' = Total(Outstanding) + Amount[h]
    <2>1. Total([Outstanding EXCEPT ![h] = Amount[h]]) = Total(Outstanding) - Outstanding[h] + Amount[h]
      BY <1>3, SumsType, TotalUpdate
    <2> QED  BY <1>1, <1>2, <1>3, <2>1, SumsType
  <1> QED  BY <1>4 DEF MoneyReserve, LateCharge, Overrun

\* ... ending it takes it away, and adds the charge ...
LEMMA EndSums ==
  ASSUME TypeOK, ChargeIsSettled, NEW h \in Holds, NEW event \in Terminals,
         NEW a \in Figures, MoneyEnd(h, event, a)
  PROVE  /\ Total(Outstanding)' = Total(Outstanding) - Amount[h]
         /\ Total(charge)' = Total(charge) + a
         /\ Total(Overrun)' = Total(Overrun) + (IF a > Amount[h] THEN a - Amount[h] ELSE 0)
         /\ UNCHANGED LateCharge
  <1> DEFINE over == IF a > Amount[h] THEN a - Amount[h] ELSE 0
  <1>1. Outstanding' = [Outstanding EXCEPT ![h] = 0]
    BY DEF TypeOK, MoneyEnd, Outstanding
  <1>2. Outstanding[h] = Amount[h]
    BY DEF MoneyEnd, Open, Outstanding
  <1>3. charge[h] = 0 /\ Overrun[h] = 0
    BY AmountAssumption DEF ChargeIsSettled, MoneyEnd, Open, Overrun
  <1>4. Overrun' = [Overrun EXCEPT ![h] = over]
    BY DEF TypeOK, MoneyEnd, Overrun
  <1>5. a \in Nat /\ Amount[h] \in Nat /\ over \in Nat
    BY AmountAssumption, FiguresType
  <1>6. Total(Outstanding)' = Total(Outstanding) - Outstanding[h] + 0
    <2>1. ASSUME NEW n \in Nat
          PROVE  Total([Outstanding EXCEPT ![h] = n]) = Total(Outstanding) - Outstanding[h] + n
      BY SumsType, TotalUpdate
    <2> QED  BY <1>1, <2>1
  <1>7. Total(charge)' = Total(charge) - charge[h] + a
    BY <1>5, SumsType, TotalUpdate DEF MoneyEnd
  <1> HIDE DEF over
  <1>8. Total(Overrun)' = Total(Overrun) - Overrun[h] + over
    BY <1>4, <1>5, SumsType, TotalUpdate
  <1>9. UNCHANGED LateCharge
    BY DEF MoneyEnd, LateCharge
  <1> QED  BY <1>2, <1>3, <1>5, <1>6, <1>7, <1>8, <1>9, SumsType DEF over

\* ... and a late charge is added to the late charges.
LEMMA LateSums ==
  ASSUME TypeOK, NEW h \in Holds, NEW a \in Figures, MoneyLate(h, a)
  PROVE  /\ Total(LateCharge)' = Total(LateCharge) + a
         /\ UNCHANGED <<Outstanding, charge, Overrun>>
  <1>1. a \in Nat
    BY FiguresType
  <1>2. LateCharge' = [LateCharge EXCEPT ![h] = a]
    <2>1. ASSUME NEW k \in Holds PROVE LateCharge'[k] = [LateCharge EXCEPT ![h] = a][k]
      BY <1>1 DEF TypeOK, MoneyLate, LateCharge
    <2> QED  BY <2>1 DEF LateCharge
  <1>3. LateCharge[h] = 0
    BY DEF MoneyLate, LateCharge
  <1>4. Total(LateCharge)' = Total(LateCharge) + a
    <2>1. Total([LateCharge EXCEPT ![h] = a]) = Total(LateCharge) - LateCharge[h] + a
      BY <1>1, SumsType, TotalUpdate
    <2> QED  BY <1>1, <1>2, <1>3, <2>1, SumsType
  <1> QED  BY <1>4 DEF MoneyLate, Outstanding, Overrun

\* Expiry and retention leave all of them alone.
LEMMA QuietSums ==
  ASSUME TypeOK, NEW h \in Holds, MoneyExpire(h) \/ MoneyRetain(h)
  PROVE  UNCHANGED <<pool, Outstanding, charge, LateCharge, Overrun>>
  <1>1. Outstanding' = Outstanding
    BY DEF TypeOK, MoneyExpire, MoneyRetain, Outstanding, RowStates
  <1> QED  BY <1>1 DEF MoneyExpire, MoneyRetain, LateCharge, Overrun, pool

-----------------------------------------------------------------------------
(* The invariants. *)

\* Everything that is proved together: none of the five properties is inductive
\* without the types, OneEnding (which cells are free) and ChargeIsSettled (the
\* cell of a hold that has not been settled holds no amount).
MoneyInv ==
  /\ Conservation
  /\ ReservedIsOutstanding
  /\ SettledIsLedger
  /\ Ceiling
  /\ OneEnding
  /\ ChargeIsSettled

\* At first there is no money to account for.
LEMMA MoneyInit == Init => MoneyInv
  <1> SUFFICES ASSUME Init PROVE MoneyInv
    OBVIOUS
  <1>1. /\ Outstanding = [h \in Holds |-> 0]
        /\ charge = [h \in Holds |-> 0]
        /\ LateCharge = [h \in Holds |-> 0]
        /\ Overrun = [h \in Holds |-> 0]
    <2>1. Overrun = [h \in Holds |-> 0]
      BY AmountAssumption DEF Init, Overrun
    <2> QED  BY <2>1 DEF Init, Outstanding, LateCharge
  <1>2. /\ Total(Outstanding) = 0 /\ Total(charge) = 0
        /\ Total(LateCharge) = 0 /\ Total(Overrun) = 0
    BY <1>1, TotalZero
  <1>3. Conservation /\ ReservedIsOutstanding /\ SettledIsLedger /\ Ceiling
    BY <1>2, LimitAssumption
       DEF Init, Conservation, ReservedIsOutstanding, SettledIsLedger, Ceiling
  <1>4. OneEnding /\ ChargeIsSettled
    BY DEF Init, OneEnding, ChargeIsSettled
  <1> QED  BY <1>3, <1>4 DEF MoneyInv

\* A move keeps the agreement between rows and TERMINAL cells.
LEMMA EndingMove ==
  ASSUME TypeOK, OneEnding, ChargeIsSettled, MoneyMove
  PROVE  OneEnding' /\ ChargeIsSettled'
  <1> USE DEF TypeOK, OneEnding, ChargeIsSettled
  <1>1. CASE UNCHANGED money
    BY <1>1 DEF money
  <1>2. ASSUME NEW h \in Holds, MoneyReserve(h) \/ MoneyExpire(h) \/ MoneyRetain(h)
        PROVE  OneEnding' /\ ChargeIsSettled'
    BY <1>2 DEF MoneyReserve, MoneyExpire, MoneyRetain
  <1>3. ASSUME NEW h \in Holds, NEW event \in Terminals, NEW a \in Figures,
               MoneyEnd(h, event, a)
        PROVE  OneEnding' /\ ChargeIsSettled'
    BY <1>3 DEF MoneyEnd, Open
  <1>4. ASSUME NEW h \in Holds, NEW a \in Figures, MoneyLate(h, a)
        PROVE  OneEnding' /\ ChargeIsSettled'
    BY <1>4 DEF MoneyLate
  <1> QED  BY <1>1, <1>2, <1>3, <1>4 DEF MoneyMove

\* A move keeps the counters in step with the rows and the ledger.
LEMMA CounterMove ==
  ASSUME TypeOK, MoneyInv, MoneyMove
  PROVE  Conservation' /\ ReservedIsOutstanding' /\ SettledIsLedger' /\ Ceiling'
  <1> USE DEF MoneyInv, Conservation, ReservedIsOutstanding, SettledIsLedger, Ceiling
  <1>1. /\ headroom \in Int /\ reserved \in Int /\ settled \in Int
        /\ Total(Outstanding) \in Nat /\ Total(charge) \in Nat
        /\ Total(LateCharge) \in Nat /\ Total(Overrun) \in Nat
    BY SumsType DEF TypeOK
  <1>2. CASE UNCHANGED <<pool, Outstanding, charge, LateCharge, Overrun>>
    BY <1>2 DEF pool
  <1>3. CASE UNCHANGED money
    <2>1. UNCHANGED <<pool, Outstanding, charge, LateCharge, Overrun>>
      BY <1>3 DEF money, Outstanding, LateCharge, Overrun
    <2> QED  BY <1>2, <2>1
  <1>4. ASSUME NEW h \in Holds, MoneyExpire(h) \/ MoneyRetain(h)
        PROVE  Conservation' /\ ReservedIsOutstanding' /\ SettledIsLedger' /\ Ceiling'
    BY <1>2, <1>4, QuietSums
  <1>5. ASSUME NEW h \in Holds, MoneyReserve(h)
        PROVE  Conservation' /\ ReservedIsOutstanding' /\ SettledIsLedger' /\ Ceiling'
    <2>1. Amount[h] \in Nat /\ PoolLimit \in Nat
      BY AmountAssumption, LimitAssumption
    <2>2. /\ headroom >= Amount[h]
          /\ reserved' = reserved + Amount[h] /\ settled' = settled + 0
          /\ headroom' = headroom - Amount[h] - 0
      BY <1>5 DEF MoneyReserve, PoolMove
    <2>3. /\ Total(Outstanding)' = Total(Outstanding) + Amount[h]
          /\ Total(charge)' = Total(charge)
          /\ Total(LateCharge)' = Total(LateCharge) /\ Total(Overrun)' = Total(Overrun)
      BY <1>5, ReserveSums
    <2> QED  BY <1>1, <2>1, <2>2, <2>3
  <1>6. ASSUME NEW h \in Holds, NEW event \in Terminals, NEW a \in Figures,
               MoneyEnd(h, event, a)
        PROVE  Conservation' /\ ReservedIsOutstanding' /\ SettledIsLedger' /\ Ceiling'
    <2>1. Amount[h] \in Nat /\ PoolLimit \in Nat /\ a \in Nat
      BY AmountAssumption, LimitAssumption, FiguresType
    <2>2. /\ reserved' = reserved + (-Amount[h]) /\ settled' = settled + a
          /\ headroom' = headroom - (-Amount[h]) - a
      BY <1>6 DEF MoneyEnd, PoolMove
    <2>3. /\ Total(Outstanding)' = Total(Outstanding) - Amount[h]
          /\ Total(charge)' = Total(charge) + a
          /\ Total(Overrun)' = Total(Overrun) + (IF a > Amount[h] THEN a - Amount[h] ELSE 0)
          /\ Total(LateCharge)' = Total(LateCharge)
      BY <1>6, EndSums
    <2> QED  BY <1>1, <2>1, <2>2, <2>3
  <1>7. ASSUME NEW h \in Holds, NEW a \in Figures, MoneyLate(h, a)
        PROVE  Conservation' /\ ReservedIsOutstanding' /\ SettledIsLedger' /\ Ceiling'
    <2>1. PoolLimit \in Nat /\ a \in Nat
      BY LimitAssumption, FiguresType
    <2>2. /\ reserved' = reserved + 0 /\ settled' = settled + a
          /\ headroom' = headroom - 0 - a
      BY <1>7 DEF MoneyLate, PoolMove
    <2>3. /\ Total(Outstanding)' = Total(Outstanding)
          /\ Total(charge)' = Total(charge) /\ Total(Overrun)' = Total(Overrun)
          /\ Total(LateCharge)' = Total(LateCharge) + a
      BY <1>7, LateSums
    <2> QED  BY <1>1, <2>1, <2>2, <2>3
  <1> QED  BY <1>3, <1>4, <1>5, <1>6, <1>7 DEF MoneyMove

\* Every step keeps the accounts, being one of the moves.
LEMMA MoneyInvStep ==
  ASSUME TypeOK, RecoveryIsOwed, ReaperSawExpiry, MoneyInv, [Next]_vars
  PROVE  MoneyInv'
  <1>1. MoneyMove
    BY MoneyStep
  <1>2. OneEnding' /\ ChargeIsSettled'
    BY <1>1, EndingMove DEF MoneyInv
  <1> QED  BY <1>1, <1>2, CounterMove DEF MoneyInv

-----------------------------------------------------------------------------
(* The theorems. *)

\* The inductive invariant of HoldLifecycle.
IndInv == TypeOK /\ RecoveryIsOwed /\ ReaperSawExpiry /\ MoneyInv

\* IndInv holds initially and every step of every thread keeps it.
THEOREM Inductive == Spec => []IndInv
  <1>1. Init => IndInv
    <2>1. Init => TypeOK /\ RecoveryIsOwed
      BY InitType
    <2>2. Init => ReaperSawExpiry
      BY DEF Init, ReaperSawExpiry
    <2> QED  BY <2>1, <2>2, MoneyInit DEF IndInv
  <1>2. IndInv /\ [Next]_vars => IndInv'
    BY TypeStep, RecoveryStep, ExpiryStep, MoneyInvStep DEF IndInv
  <1> QED  BY <1>1, <1>2, PTL DEF Spec

\* The gate counter equals the limit less what is reserved and settled, for any
\* number of holds, of racing endings and of failed writes.
THEOREM HeadroomConserved == Spec => []Conservation
  <1>1. IndInv => Conservation
    BY DEF IndInv, MoneyInv
  <1> QED  BY <1>1, Inductive, PTL

\* Nothing is returned to the pool twice and nothing leaks: reserved is the sum of
\* the HOLD rows that are there.
THEOREM ReservationsReturnOnce == Spec => []ReservedIsOutstanding
  <1>1. IndInv => ReservedIsOutstanding
    BY DEF IndInv, MoneyInv
  <1> QED  BY <1>1, Inductive, PTL

\* Every settled micro-dollar is on the ledger, once.
THEOREM SpendIsOnLedger == Spec => []SettledIsLedger
  <1>1. IndInv => SettledIsLedger
    BY DEF IndInv, MoneyInv
  <1> QED  BY <1>1, Inductive, PTL

\* The hard ceiling, up to overruns and late charges.
THEOREM CeilingHolds == Spec => []Ceiling
  <1>1. IndInv => Ceiling
    BY DEF IndInv, MoneyInv
  <1> QED  BY <1>1, Inductive, PTL

\* Rows and TERMINAL cells agree and late charges follow a RECLAIM.
THEOREM HoldsEndOnce == Spec => []OneEnding
  <1>1. IndInv => OneEnding
    BY DEF IndInv, MoneyInv
  <1> QED  BY <1>1, Inductive, PTL

\* All of it together: the accounts agree in every state, for any number of holds,
\* callers, reapers, faults and crashes.
THEOREM AccountsAlwaysAgree == Spec => []Accounts
  BY TypeCorrect, HeadroomConserved, ReservationsReturnOnce, SpendIsOnLedger,
     CeilingHolds, HoldsEndOnce, PTL DEF Accounts

\* The TERMINAL cell, its amount and the LATE_SETTLE event are written once.
THEOREM EndingsFinal == Spec => EndingsAreFinal
  <1> DEFINE Kept(h) == /\ terminal[h] # "none" => terminal'[h] = terminal[h] /\ charge'[h] = charge[h]
                        /\ late[h] # None => late'[h] = late[h]
  <1>1. IndInv /\ [Next]_vars => \A h \in Holds : Kept(h)
    <2> SUFFICES ASSUME IndInv, [Next]_vars, NEW h \in Holds PROVE Kept(h)
      OBVIOUS
    <2>1. TypeOK /\ MoneyMove
      BY MoneyStep DEF IndInv
    <2> QED
      BY <2>1 DEF TypeOK, MoneyMove, money, MoneyReserve, MoneyExpire, MoneyRetain, MoneyEnd,
                  MoneyLate, Open
  <1>2. IndInv /\ [Next]_vars => [\A h \in Holds : Kept(h)]_vars
    BY <1>1
  <1> HIDE DEF Kept
  <1>3. Spec => [][\A h \in Holds : Kept(h)]_vars
    BY <1>2, Inductive, PTL DEF Spec
  <1> QED  BY <1>3 DEF EndingsAreFinal, Kept

\* A hold that was retained is never reclaimed, however stale the sweep's read.
THEOREM RetainedKept == Spec => RetainedIsNotReclaimed
  <1> DEFINE Kept(h) == row[h] = "RETAINED" => terminal'[h] # "RECLAIM"
  <1>1. IndInv /\ [Next]_vars => \A h \in Holds : Kept(h)
    <2> SUFFICES ASSUME IndInv, [Next]_vars, NEW h \in Holds PROVE Kept(h)
      OBVIOUS
    <2>1. TypeOK /\ MoneyMove /\ OneEnding
      BY MoneyStep DEF IndInv, MoneyInv
    <2> QED
      BY <2>1 DEF TypeOK, OneEnding, MoneyMove, money, MoneyReserve, MoneyExpire, MoneyRetain,
                  MoneyEnd, MoneyLate, Open
  <1>2. IndInv /\ [Next]_vars => [\A h \in Holds : Kept(h)]_vars
    BY <1>1
  <1> HIDE DEF Kept
  <1>3. Spec => [][\A h \in Holds : Kept(h)]_vars
    BY <1>2, Inductive, PTL DEF Spec
  <1> QED  BY <1>3 DEF RetainedIsNotReclaimed, Kept

-----------------------------------------------------------------------------
(* What a caller is told. *)

\* Which calls are at which step: a step belongs to one kind of call, and only a
\* pardon that read its own RELEASE gives tokens back.
CallAtStep(c) ==
  /\ pc[c] \in {"settle", "owe", "redrive", "late"} => op[c] \in {"settle", "capture", "charge"}
  /\ pc[c] = "release" => op[c] \in {"return", "void", "pardon"}
  /\ pc[c] = "readback" => op[c] \in {"capture", "void", "charge", "pardon"}
  /\ pc[c] = "giveback" => op[c] = "pardon" /\ terminal[at[c]] = "RELEASE"

\* A void or a resolution that was answered 200 is in the ledger as asked for.
ToldTheTruth(c) ==
  pc[c] = "idle" /\ reply[c] = "200" =>
    /\ op[c] \in {"void", "pardon"} => terminal[at[c]] = "RELEASE"
    /\ op[c] = "charge" => terminal[at[c]] = "SETTLE" /\ charge[at[c]] = amt[c]

\* ResolverLearnsWhoWon is not inductive without where each call can be.
AnswerInv == \A c \in Callers : CallAtStep(c) /\ ToldTheTruth(c)

\* No step changes an ending that is written.
LEMMA EndingStays ==
  ASSUME IndInv, [Next]_vars, NEW h \in Holds, terminal[h] # "none"
  PROVE  terminal'[h] = terminal[h] /\ charge'[h] = charge[h]
  <1>1. TypeOK /\ MoneyMove
    BY MoneyStep DEF IndInv
  <1> QED
    BY <1>1 DEF TypeOK, MoneyMove, money, MoneyReserve, MoneyExpire, MoneyRetain, MoneyEnd,
                MoneyLate, Open

\* A caller whose own variables stand still keeps its truth, whatever others do.
LEMMA BystanderAnswer ==
  ASSUME IndInv, [Next]_vars, NEW c \in Callers, CallAtStep(c), ToldTheTruth(c),
         pc'[c] = pc[c], op'[c] = op[c], at'[c] = at[c], amt'[c] = amt[c], reply'[c] = reply[c]
  PROVE  CallAtStep(c)' /\ ToldTheTruth(c)'
  <1>1. at[c] \in Holds
    BY DEF IndInv, TypeOK
  <1>2. terminal[at[c]] # "none" =>
          terminal'[at[c]] = terminal[at[c]] /\ charge'[at[c]] = charge[at[c]]
    BY <1>1, EndingStays
  <1> QED  BY <1>2 DEF CallAtStep, ToldTheTruth

\* A call that starts, or is refused, starts at a step of its kind and is told what
\* the ledger says.
LEMMA CallStepAnswer ==
  ASSUME IndInv, NEW c \in Callers, NEW h \in Holds, CallStep(c, h)
  PROVE  CallAtStep(c)' /\ ToldTheTruth(c)'
  <1> USE DEF Begin, Refuse, CallAtStep, ToldTheTruth, ledger
  <1>0. TypeOK
    BY DEF IndInv
  <1>1. ASSUME NEW a \in Costs, NEW u \in TokenUse, ClaimSettle(c, h, a, u)
        PROVE  CallAtStep(c)' /\ ToldTheTruth(c)'
    BY <1>0, <1>1 DEF TypeOK, ClaimSettle
  <1>2. CASE ReturnReservation(c, h)
    BY <1>0, <1>2 DEF TypeOK, ReturnReservation
  <1>3. ASSUME NEW a \in Costs,
               Capture(c, h, a) \/ CaptureRefused(c, h, a) \/ ResolveCharge(c, h, a)
        PROVE  CallAtStep(c)' /\ ToldTheTruth(c)'
    BY <1>0, <1>3 DEF TypeOK, Capture, CaptureRefused, ResolveCharge
  <1>4. CASE Void(c, h)
    BY <1>0, <1>4 DEF TypeOK, Void, VoidReply
  <1>5. CASE ResolveRelease(c, h)
    BY <1>0, <1>5 DEF TypeOK, ResolveRelease
  <1> QED  BY <1>1, <1>2, <1>3, <1>4, <1>5 DEF CallStep

\* A call that goes on, ends or dies.
LEMMA CallerStepAnswer ==
  ASSUME IndInv, NEW c \in Callers, CallAtStep(c), CallerStep(c) \/ CallerDies(c)
  PROVE  CallAtStep(c)' /\ ToldTheTruth(c)'
  <1> USE DEF Goto, Answer, CallAtStep, ToldTheTruth
  <1>0. TypeOK
    BY DEF IndInv
  <1>1. CASE SettleCommits(c) \/ SettleRouted(c) \/ LateSettle(c) \/ LateSettleFails(c)
    BY <1>0, <1>1 DEF TypeOK, SettleCommits, SettleRouted, LateSettle, LateSettleFails, SettleReturns
  <1>2. CASE SettleExhausted(c) \/ Owe(c)
    BY <1>0, <1>2 DEF TypeOK, SettleExhausted, Owe
  <1>3. CASE SettleTimesOut(c)
    BY <1>0, <1>3 DEF TypeOK, SettleTimesOut, SettleRaises
  <1>4. CASE Redrive(c)
    BY <1>0, <1>4 DEF TypeOK, Redrive, SettleReturns
  <1>5. CASE Release(c) \/ ReleaseFails(c)
    BY <1>0, <1>5 DEF TypeOK, Release, ReleaseFails, ReleaseReturns
  <1>6. CASE ReadBack(c)
    BY <1>0, <1>6 DEF TypeOK, ReadBack, VoidReply, ResolutionReply, ledger
  <1>7. CASE GiveBack(c)
    BY <1>0, <1>7 DEF TypeOK, GiveBack, ledger
  <1>8. CASE CallerDies(c)
    BY <1>0, <1>8 DEF TypeOK, CallerDies
  <1> QED  BY <1>1, <1>2, <1>3, <1>4, <1>5, <1>6, <1>7, <1>8 DEF CallerStep

\* No step leaves an answer, given or about to be given, that the ledger belies.
LEMMA AnswerStep == IndInv /\ AnswerInv /\ [Next]_vars => AnswerInv'
  <1> SUFFICES ASSUME IndInv, AnswerInv, [Next]_vars, NEW c \in Callers
               PROVE  CallAtStep(c)' /\ ToldTheTruth(c)'
    BY DEF AnswerInv
  <1>0. CallAtStep(c) /\ ToldTheTruth(c) /\ TypeOK
    BY DEF AnswerInv, IndInv
  <1>1. CASE UNCHANGED caller
    BY <1>0, <1>1, BystanderAnswer DEF caller
  <1>2. ASSUME NEW d \in Callers, d # c, NEW h \in Holds, CallStep(d, h)
        PROVE  CallAtStep(c)' /\ ToldTheTruth(c)'
    <2>1. /\ pc'[c] = pc[c] /\ op'[c] = op[c] /\ at'[c] = at[c]
          /\ amt'[c] = amt[c] /\ reply'[c] = reply[c]
      BY <1>0, <1>2 DEF TypeOK, CallStep, ClaimSettle, ReturnReservation, Capture, CaptureRefused,
                        Void, ResolveCharge, ResolveRelease, Begin, Refuse
    <2> QED  BY <1>0, <2>1, BystanderAnswer
  <1>3. ASSUME NEW d \in Callers, d # c, CallerStep(d) \/ CallerDies(d)
        PROVE  CallAtStep(c)' /\ ToldTheTruth(c)'
    <2>1. /\ pc'[c] = pc[c] /\ op'[c] = op[c] /\ at'[c] = at[c]
          /\ amt'[c] = amt[c] /\ reply'[c] = reply[c]
      BY <1>0, <1>3 DEF TypeOK, CallerStep, CallerDies, SettleCommits, SettleRouted, SettleExhausted,
                        SettleTimesOut, Owe, Redrive, LateSettle, LateSettleFails, Release,
                        ReleaseFails, ReadBack, GiveBack, SettleReturns, SettleRaises,
                        ReleaseReturns, Goto, Answer
    <2> QED  BY <1>0, <2>1, BystanderAnswer
  <1>4. CASE \E h \in Holds : HoldStep(h)
    BY <1>1, <1>4 DEF HoldStep, Reserve, Expire, KeepReservation, KeepFails
  <1>5. CASE \E r \in Reapers : ReaperStep(r) \/ ReaperDies(r)
    BY <1>1, <1>5 DEF ReaperStep, ReaperDies, Scan, Retain, RetainFails, Reclaim, ReclaimBare,
                      ReclaimAnswerLost, Recover, RecoverLate, RecoverLateFails
  <1>6. CASE UNCHANGED vars
    BY <1>1, <1>6 DEF vars
  <1> QED
    BY <1>0, <1>2, <1>3, <1>4, <1>5, <1>6, CallStepAnswer, CallerStepAnswer DEF Next

\* Whoever is answered 200 for a void or a resolution is told what the ledger holds,
\* now and ever after: however many callers and reapers race for the hold, and
\* whichever of their writes fail or are lost.
THEOREM ResolversAlwaysLearn == Spec => []ResolverLearnsWhoWon
  <1>1. Init => AnswerInv
    BY DEF Init, AnswerInv, CallAtStep, ToldTheTruth
  <1>2. AnswerInv => ResolverLearnsWhoWon
    BY DEF AnswerInv, ToldTheTruth, ResolverLearnsWhoWon
  <1> QED  BY <1>1, <1>2, AnswerStep, Inductive, PTL DEF Spec

-----------------------------------------------------------------------------
(* Spend that was observed. *)

\* A settle ends in nothing but its retries, and the writes that recover its charge
\* succeed.  Threads die, and answers of reclaims are lost.
WritesSucceed == Faults \cap {"timeout", "owe", "late"} = {}

\* Besides, no answer of a reclaim is lost and no thread dies.
RecoverySucceeds == WritesSucceed /\ "reclaim" \notin Faults /\ MaxCrashes = 0

\* The request that owns a hold has claimed its ending, and did not keep it; the
\* endpoints end external holds, and an operator holds that have departed.
CallOfHold(c) ==
  /\ op[c] \in {"settle", "return"} =>
       Source[at[c]] = "inline" /\ ended[at[c]] /\ ~departed[at[c]]
  /\ op[c] \in {"capture", "void"} => Source[at[c]] = "external"
  /\ op[c] \in {"charge", "pardon"} => departed[at[c]]

\* An ending is claimed once.
OneOwner == \A c, d \in Callers :
  op[c] \in {"settle", "return"} /\ op[d] \in {"settle", "return"} /\ at[c] = at[d] => c = d

\* What is retained has departed, and what departed was an inline hold that its owner kept.
DepartedIsKept ==
  /\ \A h \in Holds : /\ row[h] = "RETAINED" => departed[h]
                      /\ departed[h] => ended[h] /\ Source[h] = "inline"
  /\ \A r \in Reapers : rpc[r] = "retain" => departed[rat[r]]

Unsettled(c) == terminal[at[c]] \in {"none", "RECLAIM"}
OnTerminal(c) == terminal[at[c]] = "SETTLE" /\ charge[at[c]] = amt[c]

\* How far the settle of an observed figure is: only it can settle, owe or book its
\* hold, so whatever stands in the ledger is that figure.
Progress(c) ==
  op[c] = "settle" =>
    /\ pc[c] \in {"settle", "owe"} => owed[at[c]] = None /\ late[at[c]] = None
    /\ pc[c] = "settle" => Unsettled(c)
    /\ pc[c] \in {"owe", "redrive"} => Unsettled(c) \/ OnTerminal(c)
    /\ pc[c] = "redrive" => owed[at[c]] = amt[c] /\ late[at[c]] \in {None, amt[c]}
    /\ pc[c] = "late" => /\ terminal[at[c]] = "RECLAIM"
                         /\ owed[at[c]] \in {None, amt[c]} /\ late[at[c]] \in {None, amt[c]}
    /\ pc[c] = "idle" /\ reply[c] = "done" =>
         OnTerminal(c) \/ late[at[c]] = amt[c] \/ owed[at[c]] = amt[c]

\* A hold whose ending nobody has claimed was reclaimed at most, and owes nothing.
Unclaimed(h) ==
  Source[h] = "inline" /\ ~ended[h] =>
    terminal[h] \in {"none", "RECLAIM"} /\ owed[h] = None /\ late[h] = None

Owners == OneOwner /\ DepartedIsKept /\ \A c \in Callers : CallOfHold(c)

\* ObservedChargeIsDurable is not inductive without who owns a hold and how far it is.
SpendInv ==
  /\ Owners
  /\ \A h \in Holds : Unclaimed(h)
  /\ \A c \in Callers : Progress(c)

\* A claim is kept, and a hold departs only by the claim of its owner.
LEMMA ClaimsStay ==
  ASSUME TypeOK, [Next]_vars, NEW h \in Holds
  PROVE  /\ ended[h] => ended'[h]
         /\ departed'[h] # departed[h] => ~ended[h] /\ departed'[h] /\ ended'[h] /\ Source[h] = "inline"
  <1> USE DEF flags
  <1>1. ASSUME NEW k \in Holds, HoldStep(k)
        PROVE  /\ ended[h] => ended'[h]
               /\ departed'[h] # departed[h] => ~ended[h] /\ departed'[h] /\ ended'[h] /\ Source[h] = "inline"
    <2>0. ended \in [Holds -> BOOLEAN] /\ departed \in [Holds -> BOOLEAN]
      BY DEF TypeOK
    <2>1. ASSUME Claim(k) PROVE ended'[k] /\ ~ended[k] /\ Source[k] = "inline" /\ (ended[h] => ended'[h])
      BY <2>0, <2>1 DEF Claim
    <2>2. CASE KeepReservation(k)
      <3>1. Claim(k) /\ departed' = [departed EXCEPT ![k] = @ \/ row[k] # "gone"]
        BY <2>2 DEF KeepReservation
      <3>2. departed'[h] # departed[h] => h = k /\ departed'[h]
        BY <2>0, <3>1
      <3> QED  BY <2>1, <3>1, <3>2
    <2>3. CASE KeepFails(k)
      <3>1. Claim(k) /\ departed' = departed
        BY <2>3 DEF KeepFails
      <3> QED  BY <2>1, <3>1
    <2>4. CASE Reserve(k) \/ Expire(k)
      BY <2>4 DEF Reserve, Expire
    <2> QED  BY <1>1, <2>2, <2>3, <2>4 DEF HoldStep
  <1>2. ASSUME NEW c \in Callers, NEW k \in Holds, CallStep(c, k)
        PROVE  departed' = departed /\ (ended[h] => ended'[h])
    BY <1>2 DEF TypeOK, CallStep, ClaimSettle, ReturnReservation, Capture, CaptureRefused, Void,
                ResolveCharge, ResolveRelease, Claim
  <1>3. ASSUME NEW c \in Callers, CallerStep(c) \/ CallerDies(c) PROVE UNCHANGED flags
    BY <1>3 DEF CallerStep, CallerDies, SettleCommits, SettleRouted, SettleExhausted, SettleTimesOut,
                Owe, Redrive, LateSettle, LateSettleFails, Release, ReleaseFails, ReadBack, GiveBack
  <1>4. ASSUME NEW r \in Reapers, ReaperStep(r) \/ ReaperDies(r) PROVE UNCHANGED flags
    BY <1>4 DEF ReaperStep, ReaperDies, Scan, Retain, RetainFails, Reclaim, ReclaimBare,
                ReclaimAnswerLost, Recover, RecoverLate, RecoverLateFails
  <1>5. CASE UNCHANGED vars
    BY <1>5 DEF vars
  <1> QED  BY <1>1, <1>2, <1>3, <1>4, <1>5 DEF Next

\* A row is retained by a reaper that has read it as departed.
LEMMA RetainedAsRead ==
  ASSUME TypeOK, [Next]_vars, NEW h \in Holds, row'[h] = "RETAINED", row[h] # "RETAINED"
  PROVE  \E r \in Reapers : rpc[r] = "retain" /\ rat[r] = h
  <1>1. ASSUME NEW k \in Holds, HoldStep(k) PROVE FALSE
    BY <1>1 DEF TypeOK, HoldStep, Reserve, Expire, KeepReservation, KeepFails
  <1>2. ASSUME NEW c \in Callers, NEW k \in Holds, CallStep(c, k) PROVE FALSE
    BY <1>2 DEF CallStep, ClaimSettle, ReturnReservation, Capture, CaptureRefused, Void,
                ResolveCharge, ResolveRelease
  <1>3. ASSUME NEW c \in Callers, CallerStep(c) \/ CallerDies(c) PROVE FALSE
    BY <1>3 DEF TypeOK, CallerStep, CallerDies, SettleCommits, SettleRouted, SettleExhausted,
                SettleTimesOut, Owe, Redrive, LateSettle, LateSettleFails, Release, ReleaseFails,
                ReadBack, GiveBack, EndHold, BookLate
  <1>4. ASSUME NEW r \in Reapers, ReaperStep(r) \/ ReaperDies(r)
        PROVE  rpc[r] = "retain" /\ rat[r] = h
    BY <1>4 DEF TypeOK, ReaperStep, ReaperDies, Scan, Retain, RetainFails, Reclaim, ReclaimBare,
                ReclaimAnswerLost, Recover, RecoverLate, RecoverLateFails, EndHold, BookLate
  <1> QED  BY <1>1, <1>2, <1>3, <1>4 DEF Next, vars

\* A reaper goes to retain only what it reads as departed and inline.
LEMMA RetainsDeparted ==
  ASSUME TypeOK, [Next]_vars, NEW r \in Reapers, rpc'[r] = "retain"
  PROVE  \/ rpc[r] = "retain" /\ rat'[r] = rat[r]
         \/ departed[rat'[r]]
  <1> USE DEF reaper
  <1>1. CASE UNCHANGED reaper
    BY <1>1
  <1>2. ASSUME NEW k \in Holds, HoldStep(k) PROVE UNCHANGED reaper
    BY <1>2 DEF HoldStep, Reserve, Expire, KeepReservation, KeepFails
  <1>3. ASSUME NEW c \in Callers, NEW k \in Holds, CallStep(c, k) PROVE UNCHANGED reaper
    BY <1>3 DEF CallStep, ClaimSettle, ReturnReservation, Capture, CaptureRefused, Void,
                ResolveCharge, ResolveRelease
  <1>4. ASSUME NEW c \in Callers, CallerStep(c) \/ CallerDies(c) PROVE UNCHANGED reaper
    BY <1>4 DEF CallerStep, CallerDies, SettleCommits, SettleRouted, SettleExhausted, SettleTimesOut,
                Owe, Redrive, LateSettle, LateSettleFails, Release, ReleaseFails, ReadBack, GiveBack
  <1>5. ASSUME NEW q \in Reapers, ReaperStep(q) \/ ReaperDies(q)
        PROVE  \/ rpc[r] = "retain" /\ rat'[r] = rat[r]
               \/ departed[rat'[r]]
    BY <1>5 DEF TypeOK, ReaperStep, ReaperDies, Scan, Retain, RetainFails, Reclaim, ReclaimBare,
                ReclaimAnswerLost, Recover, RecoverLate, RecoverLateFails, ReaperGoto
  <1>6. CASE UNCHANGED vars
    BY <1>1, <1>6 DEF vars
  <1> QED  BY <1>1, <1>2, <1>3, <1>4, <1>5, <1>6 DEF Next

\* A caller's call and hold change only when it makes a call of that kind.
LEMMA NewCall ==
  ASSUME TypeOK, [Next]_vars, NEW c \in Callers
  PROVE  \/ op'[c] = op[c] /\ at'[c] = at[c]
         \/ /\ \A d \in Callers \ {c} : op'[d] = op[d] /\ at'[d] = at[d]
            /\ at'[c] \in Holds
            /\ \/ /\ op'[c] \in {"settle", "return"} /\ Source[at'[c]] = "inline"
                  /\ ~ended[at'[c]] /\ ended'[at'[c]] /\ departed' = departed
               \/ op'[c] \in {"capture", "void"} /\ Source[at'[c]] = "external"
               \/ op'[c] \in {"charge", "pardon"} /\ row[at'[c]] = "RETAINED" /\ departed' = departed
  <1> USE DEF caller, flags
  <1>1. ASSUME NEW k \in Holds, HoldStep(k) PROVE UNCHANGED caller
    BY <1>1 DEF HoldStep, Reserve, Expire, KeepReservation, KeepFails
  <1>2. ASSUME NEW d \in Callers, d # c, NEW k \in Holds, CallStep(d, k)
        PROVE  op'[c] = op[c] /\ at'[c] = at[c]
    BY <1>2 DEF TypeOK, CallStep, ClaimSettle, ReturnReservation, Capture, CaptureRefused, Void,
                ResolveCharge, ResolveRelease, Begin, Refuse
  <1>3. ASSUME NEW k \in Holds, CallStep(c, k)
        PROVE  /\ \A d \in Callers \ {c} : op'[d] = op[d] /\ at'[d] = at[d]
               /\ at'[c] \in Holds
               /\ \/ /\ op'[c] \in {"settle", "return"} /\ Source[at'[c]] = "inline"
                     /\ ~ended[at'[c]] /\ ended'[at'[c]] /\ departed' = departed
                  \/ op'[c] \in {"capture", "void"} /\ Source[at'[c]] = "external"
                  \/ op'[c] \in {"charge", "pardon"} /\ row[at'[c]] = "RETAINED" /\ departed' = departed
    <2> USE DEF TypeOK, Begin, Refuse, Claim
    <2>1. ASSUME NEW a \in Costs, NEW u \in TokenUse, ClaimSettle(c, k, a, u)
          PROVE  /\ \A d \in Callers \ {c} : op'[d] = op[d] /\ at'[d] = at[d]
                 /\ at'[c] = k /\ op'[c] = "settle" /\ Source[k] = "inline"
                 /\ ~ended[k] /\ ended'[k] /\ departed' = departed
      BY <2>1 DEF ClaimSettle
    <2>2. CASE ReturnReservation(c, k)
      BY <2>2 DEF ReturnReservation
    <2>3. ASSUME NEW a \in Costs, Capture(c, k, a) \/ CaptureRefused(c, k, a)
          PROVE  /\ \A d \in Callers \ {c} : op'[d] = op[d] /\ at'[d] = at[d]
                 /\ at'[c] = k /\ op'[c] = "capture" /\ Source[k] = "external"
      BY <2>3 DEF Capture, CaptureRefused
    <2>4. ASSUME NEW a \in Costs, ResolveCharge(c, k, a)
          PROVE  /\ \A d \in Callers \ {c} : op'[d] = op[d] /\ at'[d] = at[d]
                 /\ at'[c] = k /\ op'[c] = "charge" /\ row[k] = "RETAINED" /\ departed' = departed
      BY <2>4 DEF ResolveCharge
    <2>5. CASE Void(c, k)
      BY <2>5 DEF Void
    <2>6. CASE ResolveRelease(c, k)
      BY <2>6 DEF ResolveRelease
    <2> QED  BY <1>3, <2>1, <2>2, <2>3, <2>4, <2>5, <2>6 DEF CallStep
  <1>4. ASSUME NEW d \in Callers, CallerStep(d) \/ CallerDies(d) PROVE UNCHANGED <<op, at>>
    BY <1>4 DEF CallerStep, CallerDies, SettleCommits, SettleRouted, SettleExhausted, SettleTimesOut,
                Owe, Redrive, LateSettle, LateSettleFails, Release, ReleaseFails, ReadBack, GiveBack,
                SettleReturns, SettleRaises, ReleaseReturns, Goto, Answer
  <1>5. ASSUME NEW r \in Reapers, ReaperStep(r) \/ ReaperDies(r) PROVE UNCHANGED caller
    BY <1>5 DEF ReaperStep, ReaperDies, Scan, Retain, RetainFails, Reclaim, ReclaimBare,
                ReclaimAnswerLost, Recover, RecoverLate, RecoverLateFails
  <1>6. CASE UNCHANGED vars
    BY <1>6 DEF vars
  <1> QED  BY <1>1, <1>2, <1>3, <1>4, <1>5, <1>6 DEF Next

\* Who owns which hold stays so.
LEMMA OwnersStep == IndInv /\ Owners /\ [Next]_vars => Owners'
  <1> SUFFICES ASSUME IndInv, Owners, [Next]_vars PROVE Owners'
    OBVIOUS
  <1>0. TypeOK /\ TypeOK'
    BY TypeStep DEF IndInv
  <1> USE DEF Owners
  <1>1. DepartedIsKept'
    <2>1. ASSUME NEW h \in Holds, row'[h] = "RETAINED" PROVE departed'[h]
      BY <1>0, <2>1, RetainedAsRead, ClaimsStay DEF DepartedIsKept
    <2>2. ASSUME NEW h \in Holds, departed'[h] PROVE ended'[h] /\ Source[h] = "inline"
      BY <1>0, <2>2, ClaimsStay DEF DepartedIsKept
    <2>3. ASSUME NEW r \in Reapers, rpc'[r] = "retain" PROVE departed'[rat'[r]]
      <3>1. departed[rat'[r]]
        BY <1>0, <2>3, RetainsDeparted DEF DepartedIsKept
      <3>2. rat'[r] \in Holds
        BY <1>0 DEF TypeOK
      <3> QED  BY <1>0, <3>1, <3>2, ClaimsStay DEF DepartedIsKept
    <2> QED  BY <2>1, <2>2, <2>3 DEF DepartedIsKept
  <1>2. ASSUME NEW c \in Callers PROVE CallOfHold(c)'
    <2>1. at[c] \in Holds
      BY <1>0 DEF TypeOK
    <2>2. CASE op'[c] = op[c] /\ at'[c] = at[c]
      BY <1>0, <2>1, <2>2, ClaimsStay DEF CallOfHold, DepartedIsKept
    <2>3. CASE at'[c] \in Holds /\ op'[c] \in {"settle", "return"} /\ Source[at'[c]] = "inline"
               /\ ~ended[at'[c]] /\ ended'[at'[c]] /\ departed' = departed
      BY <2>3 DEF CallOfHold, DepartedIsKept
    <2>4. CASE op'[c] \in {"capture", "void"} /\ Source[at'[c]] = "external"
      BY <2>4 DEF CallOfHold
    <2>5. CASE at'[c] \in Holds /\ op'[c] \in {"charge", "pardon"} /\ row[at'[c]] = "RETAINED"
               /\ departed' = departed
      BY <2>5 DEF CallOfHold, DepartedIsKept
    <2> QED  BY <1>0, <2>2, <2>3, <2>4, <2>5, NewCall
  <1>3. ASSUME NEW c \in Callers, NEW d \in Callers, c # d,
               op'[c] \in {"settle", "return"}, op'[d] \in {"settle", "return"}, at'[c] = at'[d]
        PROVE  FALSE
    <2>1. ASSUME NEW x \in Callers, NEW y \in Callers, x # y,
                 op'[x] \in {"settle", "return"}, op'[y] \in {"settle", "return"}, at'[x] = at'[y],
                 ~(op'[x] = op[x] /\ at'[x] = at[x])
          PROVE  FALSE
      <3>1. /\ op'[y] = op[y] /\ at'[y] = at[y]
            /\ ~ended[at'[x]]
        BY <1>0, <2>1, NewCall
      <3> QED  BY <2>1, <3>1 DEF CallOfHold
    <2> QED  BY <1>3, <2>1 DEF OneOwner
  <1>4. OneOwner'
    BY <1>3 DEF OneOwner
  <1> QED  BY <1>1, <1>2, <1>4

\* What may happen in the ledger to a hold between two steps of its owner: a reaper
\* reclaims it, and books what is owed for it.
ByReaper(h) ==
  /\ owed'[h] = owed[h]
  /\ \/ terminal'[h] = terminal[h] /\ charge'[h] = charge[h]
     \/ terminal[h] = "none" /\ terminal'[h] = "RECLAIM"
  /\ \/ late'[h] = late[h]
     \/ terminal[h] = "RECLAIM" /\ late[h] = None /\ owed[h] > 0 /\ late'[h] = owed[h]

Writing(d) == pc[d] \in {"settle", "owe", "late", "release"}

\* A reaper's step owes nothing, ends a hold only by reclaiming it, and books late only what is owed.
LEMMA ReaperOnHold ==
  ASSUME TypeOK, RecoveryIsOwed, NEW r \in Reapers, ReaperStep(r), NEW h \in Holds
  PROVE  ByReaper(h)
  <1> USE DEF TypeOK, ByReaper, ledger
  <1>1. CASE Reclaim(r)
    BY <1>1 DEF Reclaim, EndHold, Reclaimable
  <1>2. CASE ReclaimBare(r)
    BY <1>2 DEF ReclaimBare, EndHold, Reclaimable
  <1>3. CASE ReclaimAnswerLost(r)
    BY <1>3 DEF ReclaimAnswerLost, EndHold, Reclaimable
  <1>4. CASE RecoverLate(r)
    BY <1>4 DEF RecoverLate, BookLate, RecoveryIsOwed
  <1>5. CASE \/ \E k \in Holds : Scan(r, k)
             \/ Retain(r) \/ RetainFails(r) \/ Recover(r) \/ RecoverLateFails(r)
    BY <1>5 DEF Scan, Retain, RetainFails, Recover, RecoverLateFails
  <1> QED  BY <1>1, <1>2, <1>3, <1>4, <1>5 DEF ReaperStep

\* A caller's step does no more to a hold that it is not writing.
LEMMA CallerOnHold ==
  ASSUME TypeOK, NEW d \in Callers, CallerStep(d), NEW h \in Holds, ~(at[d] = h /\ Writing(d))
  PROVE  ByReaper(h)
  <1> USE DEF TypeOK, ByReaper, ledger, Writing
  <1>1. CASE SettleCommits(d) \/ SettleExhausted(d) \/ SettleTimesOut(d) \/ Release(d)
    BY <1>1 DEF SettleCommits, SettleExhausted, SettleTimesOut, Release, EndHold
  <1>2. CASE Owe(d)
    BY <1>2 DEF Owe
  <1>3. CASE LateSettle(d)
    BY <1>3 DEF LateSettle, BookLate
  <1>4. CASE \/ SettleRouted(d) \/ Redrive(d) \/ LateSettleFails(d) \/ ReleaseFails(d)
             \/ ReadBack(d) \/ GiveBack(d)
    BY <1>4 DEF SettleRouted, Redrive, LateSettleFails, ReleaseFails, ReadBack, GiveBack
  <1> QED  BY <1>1, <1>2, <1>3, <1>4 DEF CallerStep

\* A step changes the ledger of a hold as a reaper does, or is the hold's owner's.
LEMMA OnHold ==
  ASSUME IndInv, [Next]_vars, NEW h \in Holds
  PROVE  ByReaper(h) \/ \E d \in Callers : CallerStep(d) /\ at[d] = h /\ Writing(d)
  <1>0. TypeOK /\ RecoveryIsOwed
    BY DEF IndInv
  <1>1. CASE UNCHANGED ledger
    BY <1>1 DEF ByReaper, ledger
  <1>2. ASSUME NEW k \in Holds, HoldStep(k) PROVE UNCHANGED ledger
    BY <1>2 DEF HoldStep, Reserve, Expire, KeepReservation, KeepFails
  <1>3. ASSUME NEW c \in Callers, NEW k \in Holds, CallStep(c, k) PROVE UNCHANGED ledger
    BY <1>3 DEF CallStep, ClaimSettle, ReturnReservation, Capture, CaptureRefused, Void,
                ResolveCharge, ResolveRelease
  <1>4. CASE (\E c \in Callers : CallerDies(c)) \/ (\E r \in Reapers : ReaperDies(r)) \/ UNCHANGED vars
    BY <1>1, <1>4 DEF CallerDies, ReaperDies, vars
  <1> QED
    BY <1>0, <1>1, <1>2, <1>3, <1>4, ReaperOnHold, CallerOnHold DEF Next

\* Who writes the ledger of an inline hold has claimed it, alone.
LEMMA WriterIsOwner ==
  ASSUME Owners, AnswerInv, NEW d \in Callers, Writing(d), Source[at[d]] = "inline",
         at[d] \in Holds
  PROVE  /\ ended[at[d]]
         /\ \A c \in Callers : op[c] = "settle" /\ at[c] = at[d] => c = d
  <1>1. op[d] \in {"settle", "return", "charge", "pardon"}
    BY DEF Owners, AnswerInv, CallAtStep, CallOfHold, Writing
  <1>2. ended[at[d]]
    BY <1>1 DEF Owners, CallOfHold, DepartedIsKept
  <1>3. ASSUME NEW c \in Callers, op[c] = "settle", at[c] = at[d] PROVE c = d
    BY <1>1, <1>3 DEF Owners, OneOwner, CallOfHold
  <1> QED  BY <1>2, <1>3

\* Every step leaves an inline hold that nobody has claimed without debt, and reclaimed at most.
LEMMA UnclaimedStep ==
  ASSUME IndInv, AnswerInv, Owners, [Next]_vars, NEW h \in Holds, Unclaimed(h)
  PROVE  Unclaimed(h)'
  <1> SUFFICES ASSUME Source[h] = "inline", ~ended'[h]
               PROVE  terminal'[h] \in {"none", "RECLAIM"} /\ owed'[h] = None /\ late'[h] = None
    BY DEF Unclaimed
  <1>1. ~ended[h]
    BY ClaimsStay DEF IndInv
  <1>2. ByReaper(h)
    BY <1>1, OnHold, WriterIsOwner
  <1> QED  BY <1>1, <1>2 DEF Unclaimed, ByReaper

\* The settle that is not the one to step is not held up by what reapers do.
LEMMA BystanderProgress ==
  ASSUME TypeOK, NEW c \in Callers, Progress(c), ByReaper(at[c]),
         pc'[c] = pc[c], op'[c] = op[c], at'[c] = at[c], amt'[c] = amt[c], reply'[c] = reply[c]
  PROVE  Progress(c)'
  <1>1. at[c] \in Holds /\ amt[c] \in Nat
    BY FiguresType DEF TypeOK
  <1> QED  BY <1>1 DEF Progress, ByReaper, Unsettled, OnTerminal

\* A settle begins on a hold that owes nothing and has been reclaimed at most.
LEMMA CallProgress ==
  ASSUME TypeOK, NEW c \in Callers, NEW h \in Holds, CallStep(c, h), Unclaimed(h)
  PROVE  Progress(c)'
  <1> USE DEF TypeOK, Begin, Refuse
  <1>1. ASSUME NEW a \in Costs, NEW u \in TokenUse, ClaimSettle(c, h, a, u) PROVE Progress(c)'
    <2>1. pc'[c] = "settle" /\ at'[c] = h /\ UNCHANGED ledger
      BY <1>1 DEF ClaimSettle
    <2>2. Source[h] = "inline" /\ ~ended[h]
      BY <1>1 DEF ClaimSettle, Claim
    <2> QED  BY <2>1, <2>2 DEF Unclaimed, Progress, Unsettled, ledger
  <1>2. ASSUME op'[c] # "settle" PROVE Progress(c)'
    BY <1>2 DEF Progress
  <1>3. CASE ReturnReservation(c, h) \/ Void(c, h) \/ ResolveRelease(c, h)
    BY <1>2, <1>3 DEF ReturnReservation, Void, ResolveRelease
  <1>4. ASSUME NEW a \in Costs,
               Capture(c, h, a) \/ CaptureRefused(c, h, a) \/ ResolveCharge(c, h, a)
        PROVE  Progress(c)'
    BY <1>2, <1>4 DEF Capture, CaptureRefused, ResolveCharge
  <1> QED  BY <1>1, <1>3, <1>4 DEF CallStep

\* A settle goes on from step to step with its figure, and ends when that is kept.
LEMMA SettleProgress ==
  ASSUME TypeOK, WritesSucceed, NEW c \in Callers, CallerStep(c), Progress(c), CallAtStep(c)
  PROVE  Progress(c)'
  <1>1. op'[c] = op[c] /\ at'[c] = at[c] /\ at[c] \in Holds /\ amt[c] \in Nat
    BY FiguresType DEF TypeOK, CallerStep, SettleCommits, SettleRouted, SettleExhausted, SettleTimesOut,
           Owe, Redrive, LateSettle, LateSettleFails, Release, ReleaseFails, ReadBack, GiveBack,
           SettleReturns, SettleRaises, ReleaseReturns, Goto, Answer
  <1> SUFFICES ASSUME op[c] = "settle" PROVE Progress(c)'
    BY <1>1 DEF Progress
  <1> USE <1>1 DEF TypeOK, Progress, Unsettled, OnTerminal, SettleReturns, Goto, Answer, ledger
  <1>2. CASE SettleCommits(c)
    BY <1>2 DEF SettleCommits, EndHold
  <1>3. CASE SettleRouted(c)
    BY <1>3 DEF SettleRouted
  <1>4. CASE SettleExhausted(c)
    BY <1>4 DEF SettleExhausted, EndHold, Open
  <1>5. CASE SettleTimesOut(c) \/ LateSettleFails(c)
    BY <1>5 DEF SettleTimesOut, LateSettleFails, WritesSucceed, MayFail
  <1>6. CASE Owe(c)
    BY <1>6 DEF Owe, WritesSucceed, MayFail
  <1>7. CASE Redrive(c)
    BY <1>7 DEF Redrive
  <1>8. CASE LateSettle(c)
    BY <1>8 DEF LateSettle, BookLate
  <1>9. CASE Release(c) \/ ReleaseFails(c) \/ ReadBack(c) \/ GiveBack(c)
    BY <1>9 DEF CallAtStep, Release, ReleaseFails, ReadBack, GiveBack
  <1> QED  BY <1>2, <1>3, <1>4, <1>5, <1>6, <1>7, <1>8, <1>9 DEF CallerStep

\* A settle under way gets its figure written or keeps the step that will write it.
LEMMA ProgressStep ==
  ASSUME IndInv, AnswerInv, WritesSucceed, Owners, \A h \in Holds : Unclaimed(h), [Next]_vars,
         NEW c \in Callers, Progress(c)
  PROVE  Progress(c)'
  <1>0. TypeOK /\ CallAtStep(c) /\ CallOfHold(c) /\ at[c] \in Holds
    BY DEF IndInv, TypeOK, AnswerInv, Owners
  <1>1. ASSUME NEW h \in Holds, CallStep(c, h) PROVE Progress(c)'
    BY <1>0, <1>1, CallProgress
  <1>2. CASE CallerStep(c)
    BY <1>0, <1>2, SettleProgress
  <1>3. ASSUME ~CallerStep(c), pc'[c] = pc[c], op'[c] = op[c], at'[c] = at[c], amt'[c] = amt[c],
               reply'[c] = reply[c]
        PROVE  Progress(c)'
    <2>1. CASE op[c] = "settle"
      <3>1. ByReaper(at[c])
        BY <1>0, <1>3, <2>1, OnHold, WriterIsOwner DEF CallOfHold
      <3> QED  BY <1>0, <1>3, <3>1, BystanderProgress
    <2>2. CASE op[c] # "settle"
      BY <1>3, <2>2 DEF Progress
    <2> QED  BY <2>1, <2>2
  <1>4. CASE UNCHANGED caller
    BY <1>2, <1>3, <1>4 DEF caller
  <1>5. ASSUME NEW d \in Callers, d # c, NEW h \in Holds, CallStep(d, h) PROVE Progress(c)'
    <2>1. /\ pc'[c] = pc[c] /\ op'[c] = op[c] /\ at'[c] = at[c]
          /\ amt'[c] = amt[c] /\ reply'[c] = reply[c]
      BY <1>0, <1>5 DEF TypeOK, CallStep, ClaimSettle, ReturnReservation, Capture, CaptureRefused,
                        Void, ResolveCharge, ResolveRelease, Begin, Refuse
    <2> QED  BY <1>2, <1>3, <2>1
  <1>6. ASSUME NEW d \in Callers, d # c, CallerStep(d) PROVE Progress(c)'
    <2>1. /\ pc'[c] = pc[c] /\ op'[c] = op[c] /\ at'[c] = at[c]
          /\ amt'[c] = amt[c] /\ reply'[c] = reply[c]
      BY <1>0, <1>6 DEF TypeOK, CallerStep, SettleCommits, SettleRouted, SettleExhausted,
                        SettleTimesOut, Owe, Redrive, LateSettle, LateSettleFails, Release,
                        ReleaseFails, ReadBack, GiveBack, SettleReturns, SettleRaises,
                        ReleaseReturns, Goto, Answer
    <2> QED  BY <1>2, <1>3, <2>1
  <1>7. ASSUME NEW d \in Callers, CallerDies(d) PROVE Progress(c)'
    <2>1. CASE d = c
      <3>1. pc'[c] = "idle" /\ reply'[c] = "crashed"
        BY <1>0, <1>7, <2>1 DEF TypeOK, CallerDies, Answer
      <3> QED  BY <3>1 DEF Progress
    <2>2. CASE d # c
      <3>1. /\ pc'[c] = pc[c] /\ op'[c] = op[c] /\ at'[c] = at[c]
            /\ amt'[c] = amt[c] /\ reply'[c] = reply[c]
        BY <1>0, <1>7, <2>2 DEF TypeOK, CallerDies, Answer
      <3> QED  BY <1>2, <1>3, <3>1
    <2> QED  BY <2>1, <2>2
  <1>8. ASSUME NEW h \in Holds, HoldStep(h) PROVE UNCHANGED caller
    BY <1>8 DEF HoldStep, Reserve, Expire, KeepReservation, KeepFails
  <1>9. ASSUME NEW r \in Reapers, ReaperStep(r) \/ ReaperDies(r) PROVE UNCHANGED caller
    BY <1>9 DEF ReaperStep, ReaperDies, Scan, Retain, RetainFails, Reclaim, ReclaimBare,
                ReclaimAnswerLost, Recover, RecoverLate, RecoverLateFails
  <1> QED  BY <1>1, <1>2, <1>4, <1>5, <1>6, <1>7, <1>8, <1>9 DEF Next, vars

\* A charge that is owed and not booked, and whose hold is reclaimed.
Stranded(h) == owed[h] > 0 /\ terminal[h] = "RECLAIM" /\ late[h] = None
Settler(c, h) == at[c] = h /\ pc[c] \in {"redrive", "late"}
Recoverer(r, h) == rat[r] = h /\ rpc[r] \in {"recover", "late"}

\* It has somebody who is about to book it.
LookedAfter(h) ==
  Stranded(h) => (\E c \in Callers : Settler(c, h)) \/ (\E r \in Reapers : Recoverer(r, h))

\* The thread that was to book it dies, or its write fails.
Loss(h) ==
  \/ \E c \in Callers : at[c] = h /\ (CallerDies(c) \/ LateSettleFails(c))
  \/ \E r \in Reapers : rat[r] = h /\ (ReaperDies(r) \/ RecoverLateFails(r) \/ ReclaimAnswerLost(r))

\* A charge that is owed loses its last booker only by such a step: not by any order in
\* which the settle that gave up and the sweep that reclaims read and write.
OnlyLossStrands == [][\A h \in Holds : LookedAfter(h) => LookedAfter(h)' \/ Loss(h)]_vars

\* Who is about to book what is owed goes on to book it.
LEMMA SettlerGoesOn ==
  ASSUME TypeOK, [Next]_vars, NEW h \in Holds, NEW c \in Callers,
         Stranded(h), Settler(c, h), Stranded(h)', ~Loss(h)
  PROVE  Settler(c, h)'
  <1> USE DEF TypeOK, Stranded, Settler
  <1>1. CASE UNCHANGED caller
    BY <1>1 DEF caller
  <1>2. CASE CallerStep(c)
    <2> USE DEF Goto, Answer, ledger
    <2>1. CASE Redrive(c)
      BY <2>1 DEF Redrive
    <2>2. CASE LateSettle(c)
      BY <2>2, FiguresType DEF LateSettle, BookLate
    <2>3. CASE LateSettleFails(c)
      BY <2>3 DEF Loss
    <2> QED
      BY <1>2, <2>1, <2>2, <2>3
         DEF CallerStep, SettleCommits, SettleRouted, SettleExhausted, SettleTimesOut, Owe, Release,
             ReleaseFails, ReadBack, GiveBack
  <1>3. ASSUME NEW d \in Callers, d # c, CallerStep(d) PROVE Settler(c, h)'
    BY <1>3 DEF CallerStep, SettleCommits, SettleRouted, SettleExhausted, SettleTimesOut, Owe, Redrive,
                LateSettle, LateSettleFails, Release, ReleaseFails, ReadBack, GiveBack, SettleReturns,
                SettleRaises, ReleaseReturns, Goto, Answer
  <1>4. ASSUME NEW d \in Callers, NEW k \in Holds, CallStep(d, k) PROVE Settler(c, h)'
    BY <1>4 DEF CallStep, ClaimSettle, ReturnReservation, Capture, CaptureRefused, Void, ResolveCharge,
                ResolveRelease, Begin, Refuse
  <1>5. ASSUME NEW d \in Callers, CallerDies(d) PROVE Settler(c, h)'
    <2>1. d # c
      BY <1>5 DEF Loss
    <2> QED  BY <1>5, <2>1 DEF CallerDies, Answer
  <1>6. ASSUME NEW k \in Holds, HoldStep(k) PROVE UNCHANGED caller
    BY <1>6 DEF HoldStep, Reserve, Expire, KeepReservation, KeepFails
  <1>7. ASSUME NEW r \in Reapers, ReaperStep(r) \/ ReaperDies(r) PROVE UNCHANGED caller
    BY <1>7 DEF ReaperStep, ReaperDies, Scan, Retain, RetainFails, Reclaim, ReclaimBare,
                ReclaimAnswerLost, Recover, RecoverLate, RecoverLateFails
  <1> QED  BY <1>1, <1>2, <1>3, <1>4, <1>5, <1>6, <1>7 DEF Next, vars

\* The reaper that will book a stranded charge stays on its way until it has.
LEMMA RecovererGoesOn ==
  ASSUME TypeOK, [Next]_vars, NEW h \in Holds, NEW r \in Reapers,
         Stranded(h), Recoverer(r, h), Stranded(h)', ~Loss(h)
  PROVE  Recoverer(r, h)'
  <1> USE DEF TypeOK, Stranded, Recoverer
  <1>1. CASE UNCHANGED reaper
    BY <1>1 DEF reaper
  <1>2. CASE ReaperStep(r)
    <2> USE DEF ReaperGoto, ledger
    <2>1. CASE Recover(r)
      BY <2>1 DEF Recover
    <2>2. CASE RecoverLate(r)
      BY <2>2 DEF RecoverLate, BookLate
    <2>3. CASE RecoverLateFails(r)
      BY <2>3 DEF Loss
    <2> QED
      BY <1>2, <2>1, <2>2, <2>3
         DEF ReaperStep, Scan, Retain, RetainFails, Reclaim, ReclaimBare, ReclaimAnswerLost
  <1>3. ASSUME NEW q \in Reapers, q # r, ReaperStep(q) PROVE Recoverer(r, h)'
    BY <1>3 DEF ReaperStep, Scan, Retain, RetainFails, Reclaim, ReclaimBare, ReclaimAnswerLost, Recover,
                RecoverLate, RecoverLateFails, ReaperGoto
  <1>4. ASSUME NEW q \in Reapers, ReaperDies(q) PROVE Recoverer(r, h)'
    <2>1. q # r
      BY <1>4 DEF Loss
    <2> QED  BY <1>4, <2>1 DEF ReaperDies, ReaperGoto
  <1>5. ASSUME NEW k \in Holds, HoldStep(k) PROVE UNCHANGED reaper
    BY <1>5 DEF HoldStep, Reserve, Expire, KeepReservation, KeepFails
  <1>6. ASSUME NEW c \in Callers, NEW k \in Holds, CallStep(c, k) PROVE UNCHANGED reaper
    BY <1>6 DEF CallStep, ClaimSettle, ReturnReservation, Capture, CaptureRefused, Void, ResolveCharge,
                ResolveRelease
  <1>7. ASSUME NEW c \in Callers, CallerStep(c) \/ CallerDies(c) PROVE UNCHANGED reaper
    BY <1>7 DEF CallerStep, CallerDies, SettleCommits, SettleRouted, SettleExhausted, SettleTimesOut,
                Owe, Redrive, LateSettle, LateSettleFails, Release, ReleaseFails, ReadBack, GiveBack
  <1> QED  BY <1>1, <1>2, <1>3, <1>4, <1>5, <1>6, <1>7 DEF Next, vars

\* Whichever of the two writes comes second, the reclaim or the owed row, its author
\* goes on to look for the other ("together the two orders are total").
LEMMA SecondLooks ==
  ASSUME TypeOK, [Next]_vars, NEW h \in Holds, ~Stranded(h), Stranded(h)', ~Loss(h)
  PROVE  (\E c \in Callers : Settler(c, h)') \/ (\E r \in Reapers : Recoverer(r, h)')
  <1> USE DEF TypeOK, Stranded
  <1>1. CASE UNCHANGED ledger
    BY <1>1 DEF ledger
  <1>2. ASSUME NEW c \in Callers, CallerStep(c) PROVE Settler(c, h)'
    <2>1. CASE Owe(c)
      BY <2>1 DEF Owe, Goto, Settler
    <2>2. CASE SettleCommits(c) \/ SettleExhausted(c) \/ SettleTimesOut(c) \/ Release(c)
      BY <2>2 DEF SettleCommits, SettleExhausted, SettleTimesOut, Release, EndHold, ledger
    <2>3. CASE LateSettle(c)
      BY <2>3 DEF LateSettle, BookLate, ledger
    <2> QED
      BY <1>1, <1>2, <2>1, <2>2, <2>3
         DEF CallerStep, SettleRouted, Redrive, LateSettleFails, ReleaseFails, ReadBack, GiveBack, ledger
  <1>3. ASSUME NEW r \in Reapers, ReaperStep(r) PROVE Recoverer(r, h)'
    <2>1. CASE Reclaim(r) \/ ReclaimBare(r)
      BY <2>1 DEF Reclaim, ReclaimBare, EndHold, ReaperGoto, Recoverer, ledger
    <2>2. CASE ReclaimAnswerLost(r)
      <3>1. rat[r] = h
        BY <2>2 DEF ReclaimAnswerLost, EndHold, ledger
      <3> QED  BY <2>2, <3>1 DEF Loss
    <2>3. CASE RecoverLate(r)
      BY <2>3 DEF RecoverLate, BookLate, ledger
    <2> QED
      BY <1>1, <1>3, <2>1, <2>2, <2>3
         DEF ReaperStep, Scan, Retain, RetainFails, Recover, RecoverLateFails, ledger
  <1>4. ASSUME NEW k \in Holds, HoldStep(k) PROVE UNCHANGED ledger
    BY <1>4 DEF HoldStep, Reserve, Expire, KeepReservation, KeepFails
  <1>5. ASSUME NEW c \in Callers, NEW k \in Holds, CallStep(c, k) PROVE UNCHANGED ledger
    BY <1>5 DEF CallStep, ClaimSettle, ReturnReservation, Capture, CaptureRefused, Void, ResolveCharge,
                ResolveRelease
  <1>6. CASE (\E c \in Callers : CallerDies(c)) \/ (\E r \in Reapers : ReaperDies(r)) \/ UNCHANGED vars
    BY <1>1, <1>6 DEF CallerDies, ReaperDies, vars, ledger
  <1> QED  BY <1>1, <1>2, <1>3, <1>4, <1>5, <1>6 DEF Next

\* No step but a loss leaves an owed charge with nobody: whoever writes second goes on
\* to look for the other.
LEMMA OwedStep ==
  ASSUME TypeOK, [Next]_vars, NEW h \in Holds, LookedAfter(h)
  PROVE  LookedAfter(h)' \/ Loss(h)
  <1> SUFFICES ASSUME Stranded(h)', ~Loss(h)
               PROVE  (\E c \in Callers : Settler(c, h)') \/ (\E r \in Reapers : Recoverer(r, h)')
    BY DEF LookedAfter
  <1>1. CASE ~Stranded(h)
    BY <1>1, SecondLooks
  <1>2. CASE Stranded(h)
    BY <1>2, SettlerGoesOn, RecovererGoesOn DEF LookedAfter
  <1> QED  BY <1>1, <1>2

\* Where recovery succeeds there is no loss.
LEMMA NoLoss ==
  ASSUME TypeOK, RecoverySucceeds, NEW h
  PROVE  ~Loss(h)
  <1>1. crashes \in Nat /\ MaxCrashes = 0
    BY DEF TypeOK, RecoverySucceeds
  <1>2. ~MayFail("late") /\ ~MayFail("reclaim")
    BY DEF RecoverySucceeds, WritesSucceed, MayFail
  <1> QED
    BY <1>1, <1>2 DEF Loss, CallerDies, ReaperDies, LateSettleFails, RecoverLateFails, ReclaimAnswerLost

\* At first nobody has claimed, spent or owed anything.
LEMMA SpendInit == Init => SpendInv
  <1> SUFFICES ASSUME Init PROVE SpendInv
    OBVIOUS
  <1>1. Owners
    BY DEF Init, Owners, OneOwner, DepartedIsKept, CallOfHold
  <1>2. \A h \in Holds : Unclaimed(h)
    BY DEF Init, Unclaimed
  <1>3. \A c \in Callers : Progress(c)
    BY DEF Init, Progress
  <1> QED  BY <1>1, <1>2, <1>3 DEF SpendInv

\* Every figure that a settle observed, and reported as settled, is on the TERMINAL, on the
\* LATE_SETTLE event or on the OWED_SETTLE row, for any number of racing settles and sweeps,
\* whoever dies between two writes and whichever answer of a reclaim is lost (C3.5).
THEOREM ObservedChargesAreDurable ==
  ASSUME WritesSucceed
  PROVE  Spec => []ObservedChargeIsDurable
  <1>1. ASSUME IndInv, AnswerInv, SpendInv, [Next]_vars PROVE SpendInv'
    <2>1. Owners /\ TypeOK
      BY <1>1 DEF SpendInv, IndInv
    <2>2. Owners'
      BY <1>1, <2>1, OwnersStep
    <2>3. ASSUME NEW h \in Holds PROVE Unclaimed(h)'
      BY <1>1, <2>1, UnclaimedStep DEF SpendInv
    <2>4. ASSUME NEW c \in Callers PROVE Progress(c)'
      BY <1>1, <2>1, WritesSucceed, ProgressStep DEF SpendInv
    <2> QED  BY <2>2, <2>3, <2>4 DEF SpendInv
  <1>2. SpendInv => ObservedChargeIsDurable
    BY DEF SpendInv, Progress, OnTerminal, ObservedChargeIsDurable
  <1>3. Init => AnswerInv
    BY DEF Init, AnswerInv, CallAtStep, ToldTheTruth
  <1> QED  BY <1>1, <1>2, <1>3, SpendInit, AnswerStep, Inductive, PTL DEF Spec

\* Whatever fails and whoever dies, a charge that is owed for a reclaimed hold is left with
\* nobody to book it only by the step in which its booker dies or fails.
THEOREM OnlyLossesStrand == Spec => OnlyLossStrands
  <1>1. TypeOK /\ [Next]_vars => [\A h \in Holds : LookedAfter(h) => LookedAfter(h)' \/ Loss(h)]_vars
    BY OwedStep
  <1> QED  BY <1>1, TypeCorrect, PTL DEF Spec, OnlyLossStrands

\* C3.5 in both its halves, while no thread dies and no write of the recovery fails: what a
\* settle observed is recorded, and what is owed for a reclaimed hold has somebody about to
\* book it.
THEOREM ObservedSpendAlwaysKept == ASSUME RecoverySucceeds PROVE Spec => []ObservedSpendIsKept
  <1>1. TypeOK /\ OwedNotStranded /\ [Next]_vars => OwedNotStranded'
    <2> SUFFICES ASSUME TypeOK, OwedNotStranded, [Next]_vars PROVE OwedNotStranded'
      OBVIOUS
    <2> USE DEF OwedNotStranded, LookedAfter, Stranded, Settler, Recoverer
    <2>1. ASSUME NEW h \in Holds PROVE LookedAfter(h)'
      <3>1. LookedAfter(h)
        OBVIOUS
      <3> HIDE DEF OwedNotStranded, LookedAfter
      <3> QED  BY <3>1, RecoverySucceeds, OwedStep, NoLoss
    <2> QED  BY <2>1
  <1>2. Init => OwedNotStranded
    BY DEF Init, OwedNotStranded
  <1>3. Spec => []OwedNotStranded
    BY <1>1, <1>2, TypeCorrect, PTL DEF Spec
  <1>4. WritesSucceed
    BY RecoverySucceeds DEF RecoverySucceeds
  <1>5. OwedNotStranded /\ ObservedChargeIsDurable => ObservedSpendIsKept
    BY DEF ObservedSpendIsKept
  <1> QED  BY <1>3, <1>4, <1>5, ObservedChargesAreDurable, PTL

-----------------------------------------------------------------------------
(* Refinement. *)

\* The first state maps to the first state of the abstract ledger.
LEMMA LedgerInit == Init => Ledger!Init
  BY DEF Init, Ledger!Init, HoldState, Ledger!Unbooked

\* A move of the money is an operation of billing/ledger.py or changes nothing.
LEMMA LedgerStep ==
  ASSUME TypeOK, MoneyInv, MoneyMove
  PROVE  [Ledger!Next]_Ledger!vars
  <1>0. /\ headroom \in Int /\ reserved \in Int /\ settled \in Int /\ PoolLimit \in Nat
        /\ \A h \in Holds : Amount[h] \in Nat
    BY AmountAssumption, LimitAssumption DEF TypeOK
  <1> USE DEF HoldState
  <1> DEFINE st == [h \in Holds |-> HoldState(h)]
  <1>1. CASE UNCHANGED money
    BY <1>1 DEF money, pool, Ledger!vars, Ledger!counters
  <1>2. ASSUME NEW h \in Holds, MoneyReserve(h) PROVE Ledger!reserve(h)
    <2>1. reserved + settled + Amount[h] <= PoolLimit
      <3>1. headroom = PoolLimit - reserved - settled /\ headroom >= Amount[h]
        BY <1>2 DEF MoneyInv, Conservation, MoneyReserve
      <3> QED  BY <1>0, <3>1
    <2>2. st' = [st EXCEPT ![h] = "live"] /\ st[h] = "unknown"
      BY <1>2 DEF TypeOK, MoneyReserve
    <2>3. reserved' = reserved + Amount[h] /\ headroom' = headroom - Amount[h] /\ settled' = settled
      <3>1. PoolMove(Amount[h], 0)
        BY <1>2 DEF MoneyReserve
      <3> QED  BY <1>0, <3>1 DEF PoolMove
    <2> QED  BY <1>2, <2>1, <2>2, <2>3 DEF Ledger!reserve, MoneyReserve
  <1>3. ASSUME NEW h \in Holds, MoneyExpire(h) PROVE Ledger!expire_lease(h)
    BY <1>3 DEF TypeOK, MoneyExpire, pool, Ledger!expire_lease, Ledger!counters
  <1>4. ASSUME NEW h \in Holds, MoneyRetain(h) PROVE UNCHANGED Ledger!vars
    <2>1. st' = st
      BY <1>4 DEF TypeOK, MoneyRetain
    <2> QED  BY <1>4, <2>1 DEF MoneyRetain, pool, Ledger!vars, Ledger!counters
  <1>5. ASSUME NEW h \in Holds, NEW event \in Terminals, NEW a \in Figures,
               MoneyEnd(h, event, a)
        PROVE  Ledger!settle(h, a) \/ Ledger!release(h) \/ Ledger!reap(h)
    <2>1. st[h] = "live"
      BY <1>5 DEF TypeOK, MoneyEnd, Open
    <2>2. /\ Amount[h] \in Nat /\ a \in Nat
          /\ reserved' = reserved - Amount[h] /\ settled' = settled + a
          /\ headroom' = headroom + Amount[h] - a
      <3>1. PoolMove(-Amount[h], a) /\ a \in Nat
        BY <1>5, FiguresType DEF MoneyEnd
      <3> QED  BY <1>0, <3>1 DEF PoolMove
    <2>3. CASE event = "SETTLE"
      <3>1. st' = [st EXCEPT ![h] = "settled"]
        BY <1>5, <2>3 DEF TypeOK, MoneyEnd
      <3> QED  BY <1>5, <2>1, <2>2, <3>1 DEF MoneyEnd, Ledger!settle
    <2>4. CASE event # "SETTLE"
      <3>1. charge' = charge
        BY <1>5, <2>4 DEF TypeOK, MoneyInv, ChargeIsSettled, MoneyEnd, Open
      <3>2. settled' = settled /\ headroom' = headroom + Amount[h]
        BY <1>5, <2>2, <2>4 DEF TypeOK, MoneyEnd
      <3>3. CASE event = "RELEASE"
        <4>1. st' = [st EXCEPT ![h] = "released"]
          BY <1>5, <3>3 DEF TypeOK, MoneyEnd
        <4> QED  BY <1>5, <2>1, <2>2, <3>1, <3>2, <4>1 DEF MoneyEnd, Ledger!release
      <3>4. CASE event = "RECLAIM"
        <4>1. st' = [st EXCEPT ![h] = "reaped"]
          BY <1>5, <3>4 DEF TypeOK, MoneyEnd
        <4> QED  BY <1>5, <2>1, <2>2, <3>1, <3>2, <3>4, <4>1 DEF MoneyEnd, Ledger!reap
      <3> QED  BY <1>5, <2>4, <3>3, <3>4 DEF MoneyEnd, Terminals
    <2> QED  BY <2>3, <2>4
  <1>6. ASSUME NEW h \in Holds, NEW a \in Figures, MoneyLate(h, a) PROVE Ledger!LateSettle(h, a)
    <2>1. st[h] = "reaped"
      BY <1>6 DEF MoneyInv, OneEnding, MoneyLate
    <2>2. settled' = settled + a /\ headroom' = headroom - a /\ reserved' = reserved
      BY <1>6, FiguresType DEF TypeOK, MoneyLate, PoolMove
    <2> QED  BY <1>6, <2>1, <2>2 DEF MoneyLate, Ledger!LateSettle, Ledger!Unbooked
  <1> QED
    BY <1>1, <1>2, <1>3, <1>4, <1>5, <1>6 DEF MoneyMove, Ledger!Next

\* The racing, failing, retrying writers implement billing/ledger.py with its one
\* extra operation, the late charge.
THEOREM PoolImplementsLedger == Spec => ImplementsLedger
  <1>1. IndInv /\ [Next]_vars => [Ledger!Next]_Ledger!vars
    BY MoneyStep, LedgerStep DEF IndInv
  <1> QED  BY <1>1, LedgerInit, Inductive, PTL DEF Spec, ImplementsLedger, Ledger!Spec

=============================================================================
