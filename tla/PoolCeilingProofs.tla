-------------------------- MODULE PoolCeilingProofs --------------------------
(***************************************************************************)
(* The ceiling's bookkeeping, for every number of periods, threads,        *)
(* figures, rates, requests, grants and operations.  What a thread read is *)
(* related to the row it will write (JobOK), a grant to the row it is      *)
(* pinned to (GrantOK); each identity is then a matter of one step.        *)
(***************************************************************************)
EXTENDS PoolCeiling, SumsProofs

\* Jobs that write the row they read, and jobs that end a grant.
Pinned == {"set", "clear", "seatonly", "seatmoney", "recompute", "approve"}
Endings == {"revoke", "sweep", "bump", "block"}

\* What a thread that read something still knows of it.
JobOK(t) ==
  LET j == job[t] IN
  /\ j.task \in Pinned \cup Endings => j.at \in pooled
  /\ j.task = "set" => j.arg \in Figures
  /\ j.task \in {"scan", "recompute"} => j.arg \in Rates
  /\ j.task = "approve" => j.on \in Requests /\ j.arg \in Amounts
  /\ j.task \in Endings => /\ j.on \in GrantIds /\ j.arg \in Nat
                           /\ grant[j.on].status # "none"
                           /\ grant[j.on].at = j.at

\* A grant stands on a row that exists and on a request that was approved.
GrantOK(g) ==
  grant[g].status # "none" =>
    /\ grant[g].at \in pooled
    /\ grant[g].request \in Requests
    /\ request[grant[g].request].status = "APPROVED"

Base == TypeOK /\ (\A t \in Threads : JobOK(t)) /\ \A g \in GrantIds : GrantOK(g)

-----------------------------------------------------------------------------
\* The figures, rates, amounts and costs are numbers.
LEMMA Numbers ==
  /\ Follow \in Int /\ Figures \subseteq Int /\ Figures \subseteq Nat
  /\ Rates \subseteq Nat /\ Amounts \subseteq Nat /\ Costs \subseteq Nat
  BY FiguresAssumption DEF Follow

\* Moving a row, or putting a new one, yields a row.
LEMMA BaselineInt == ASSUME NEW r \in Row PROVE baseline(r) \in Int /\ seat_term(r) \in Int
  <1>1. r.seats \in Int /\ r.rate \in Int /\ r.manual \in Figures \cup {Follow}
    BY DEF Row
  <1>5. r.manual \in Int
    BY <1>1, Numbers
  <1>2. \A x, y \in Int : x * y \in Int
    OBVIOUS
  <1>3. seat_term(r) \in Int
    BY <1>1, <1>2 DEF seat_term
  <1> QED  BY <1>3, <1>5 DEF baseline

\* The types of a row's fields.
LEMMA RowFields ==
  ASSUME NEW r \in Row
  PROVE  /\ r.limit \in Int /\ r.headroom \in Int /\ r.reserved \in Int /\ r.settled \in Int
         /\ r.seats \in Int /\ r.rate \in Nat /\ r.manual \in Figures \cup {Follow}
         /\ r.granted \in Nat
  BY DEF Row

\* A seeded row is a row.
LEMMA SeedIsRow ==
  ASSUME NEW m \in Figures \cup {Follow}, NEW s \in Statuses, NEW n \in Int, NEW q \in Nat
  PROVE  seed_pool_row(m, s, n, q) \in Row
  BY FiguresAssumption DEF seed_pool_row, Row, Follow, Statuses

\* A row whose limit and headroom move together is a row.
LEMMA MoveIsRow == ASSUME NEW r \in Row, NEW d \in Int PROVE Move(r, d) \in Row
  <1>1. r.limit + d \in Int /\ r.headroom + d \in Int
    BY DEF Row
  <1> QED  BY <1>1 DEF Move, Row

\* The row of no seats and no money is a row.
LEMMA EmptyIsRow == EmptyRow \in Row
  BY SeedIsRow DEF EmptyRow, Statuses

\* So is what any of the reads makes of one.
LEMMA SeenIsRow ==
  ASSUME NEW r \in Row
  PROVE  Inputs(r) \in Row /\ Carried(r) \in Row /\ RateOf(r) \in Row /\ CapOf(r) \in Row
  <1> USE EmptyIsRow, BaselineInt
  <1>1. Inputs(r) \in Row
    BY DEF Inputs, Row
  <1>2. Carried(r) \in Row
    BY DEF Carried, Row
  <1>3. RateOf(r) \in Row
    BY DEF RateOf, Row
  <1>4. CapOf(r) \in Row
    BY DEF CapOf, effective_grant_cap, Row
  <1> QED  BY <1>1, <1>2, <1>3, <1>4

\* What Work, Finish and Become leave in job.
LEMMA WorkTyped ==
  ASSUME job \in [Threads -> Job], NEW t \in Threads, NEW task \in Tasks, NEW p \in Periods,
         NEW arg \in Int, NEW seen \in Row, NEW on \in Requests \cup GrantIds \cup {NoOne},
         Work(t, task, p, arg, seen, on)
  PROVE  job' \in [Threads -> Job]
  BY DEF Work, Job

\* A thread that is done has a job of the right type.
LEMMA FinishTyped ==
  ASSUME job \in [Threads -> Job], NEW t \in Threads, Finish(t)
  PROVE  job' \in [Threads -> Job]
  <1>1. Idle \in Job
    BY EmptyIsRow, PeriodsAssumption DEF Idle, Job, Tasks, Periods
  <1> QED  BY <1>1 DEF Finish

\* A thread that goes on to a task has one too.
LEMMA BecomeTyped ==
  ASSUME job \in [Threads -> Job], NEW t \in Threads, NEW task \in Tasks, Become(t, task)
  PROVE  job' \in [Threads -> Job]
  <1>1. [job[t] EXCEPT !.task = task, !.seen = EmptyRow] \in Job
    BY EmptyIsRow DEF Job
  <1>2. job' = [job EXCEPT ![t] = [job[t] EXCEPT !.task = task, !.seen = EmptyRow]]
    BY DEF Become, Job
  <1> QED  BY <1>1, <1>2

-----------------------------------------------------------------------------
\* The first state is typed, no job is under way and no grant exists.
LEMMA InitTyped == Init => Base
  <1> SUFFICES ASSUME Init PROVE Base
    OBVIOUS
  <1>1. row \in [Periods -> Row]
    <2>1. PICK r \in Rates : row = [p \in Periods |-> seed_pool_row(Follow, "active", 0, r)]
      BY DEF Init
    <2>2. seed_pool_row(Follow, "active", 0, r) \in Row
      BY SeedIsRow, Numbers DEF Statuses
    <2> QED  BY <2>1, <2>2
  <1>2. job \in [Threads -> Job] /\ \A t \in Threads : job[t].task = "idle"
    BY EmptyIsRow, PeriodsAssumption DEF Init, Idle, Job, Tasks, Periods
  <1>3. TypeOK
    BY <1>1, <1>2, PeriodsAssumption DEF Init, TypeOK, Periods, GrantStatuses
  <1>4. \A t \in Threads : JobOK(t)
    BY <1>2 DEF JobOK, Pinned, Endings
  <1>5. \A g \in GrantIds : GrantOK(g)
    BY DEF Init, GrantOK
  <1> QED  BY <1>3, <1>4, <1>5 DEF Base

\* Reserving and settling leave the variables typed.
LEMMA SpendTyped == Base /\ Spend => TypeOK'
  <1> SUFFICES ASSUME Base, NEW p \in Periods, NEW c \in Costs,
                      reserve(p, c) \/ \E actual \in Costs : settle(p, c, actual)
               PROVE  TypeOK'
    BY DEF Spend
  <1>0. row[p] \in Row /\ Costs \subseteq Nat
    BY Numbers DEF Base, TypeOK
  <1>1. CASE reserve(p, c)
    <2>3. row[p].headroom - c \in Int /\ row[p].reserved + c \in Int
      BY <1>0, RowFields
    <2>1. [row[p] EXCEPT !.headroom = @ - c, !.reserved = @ + c] \in Row
      BY <1>0, <2>3 DEF Row
    <2>2. row' \in [Periods -> Row]
      BY <1>1, <2>1 DEF reserve, Base, TypeOK
    <2> QED  BY <1>1, <2>2 DEF reserve, Base, TypeOK
  <1>2. ASSUME NEW actual \in Costs, settle(p, c, actual) PROVE TypeOK'
    <2>3. /\ row[p].headroom + c - actual \in Int /\ row[p].reserved - c \in Int
          /\ row[p].settled + actual \in Int
      <3>1. c \in Int /\ actual \in Int
        BY <1>0
      <3> QED  BY <1>0, <3>1, RowFields
    <2>1. [row[p] EXCEPT !.headroom = @ + c - actual, !.reserved = @ - c,
                         !.settled = @ + actual] \in Row
      BY <1>0, <2>3 DEF Row
    <2>2. row' \in [Periods -> Row]
      BY <1>2, <2>1 DEF settle, Base, TypeOK
    <2> QED  BY <1>2, <2>2 DEF settle, Base, TypeOK
  <1> QED  BY <1>1, <1>2

\* So do the operator's figure and its clearing.
LEMMA OperateTyped == Base /\ Operate => TypeOK'
  <1> SUFFICES ASSUME Base, Operate PROVE TypeOK'
    OBVIOUS
  <1> USE DEF Base, TypeOK
  <1>1. ASSUME NEW p \in Periods, NEW f \in Figures, NEW s \in Statuses, set_absent(p, f, s)
        PROVE  TypeOK'
    <2>1. PICK r \in Rates : row' = [row EXCEPT ![p] = seed_pool_row(f, s, 0, r)]
      BY <1>1 DEF set_absent
    <2>2. seed_pool_row(f, s, 0, r) \in Row
      BY SeedIsRow, Numbers
    <2> QED  BY <1>1, <2>1, <2>2 DEF set_absent
  <1>2. ASSUME NEW t \in Threads, NEW p \in Periods, NEW f \in Figures, set_read(t, p, f)
        PROVE  TypeOK'
    <2>1. Inputs(row[p]) \in Row /\ f \in Int
      BY SeenIsRow, Numbers
    <2>2. job' \in [Threads -> Job]
      BY <1>2, <2>1, WorkTyped DEF set_read, Begin, Tasks
    <2> QED  BY <1>2, <2>2 DEF set_read, Begin
  <1>3. ASSUME NEW t \in Threads, NEW s \in Statuses, set_write(t, s) PROVE TypeOK'
    <2> DEFINE j == job[t] r == row[j.at] d == j.arg - baseline(j.seen)
    <2>1. j \in Job /\ j.at \in Periods /\ r \in Row /\ j.task = "set"
      BY <1>3 DEF Job, set_write
    <2>2. j.arg \in Figures /\ d \in Int
      BY <2>1, BaselineInt DEF JobOK, Job
    <2>3. [Move(r, d) EXCEPT !.manual = j.arg, !.status = s] \in Row
      BY <2>1, <2>2, MoveIsRow DEF Row, Statuses
    <2>4. row' \in [Periods -> Row]
      BY <1>3, <2>1, <2>3 DEF set_write
    <2>5. job' \in [Threads -> Job]
      BY <1>3, FinishTyped DEF set_write
    <2> QED  BY <1>3, <2>4, <2>5 DEF set_write
  <1>4. ASSUME NEW t \in Threads, NEW p \in Periods, clear_read(t, p) PROVE TypeOK'
    <2>1. job' \in [Threads -> Job]
      BY <1>4, SeenIsRow, WorkTyped DEF clear_read, Begin, Tasks
    <2> QED  BY <1>4, <2>1 DEF clear_read, Begin
  <1>5. ASSUME NEW t \in Threads, clear_write(t) PROVE TypeOK'
    <2> DEFINE j == job[t] r == row[j.at] d == seat_term(j.seen) - baseline(j.seen)
    <2>1. j \in Job /\ j.at \in Periods /\ r \in Row /\ d \in Int
      BY BaselineInt DEF Job
    <2>2. [Move(r, d) EXCEPT !.manual = Follow] \in Row
      BY <2>1, MoveIsRow DEF Row
    <2>3. row' \in [Periods -> Row]
      BY <1>5, <2>1, <2>2 DEF clear_write
    <2>4. job' \in [Threads -> Job]
      BY <1>5, FinishTyped DEF clear_write
    <2> QED  BY <1>5, <2>3, <2>4 DEF clear_write
  <1> QED  BY <1>1, <1>2, <1>3, <1>4, <1>5 DEF Operate

\* So do memberships, the roll into a month, and the seats' writes.
LEMMA StaffTyped == Base /\ Staff => TypeOK'
  <1> SUFFICES ASSUME Base, Staff PROVE TypeOK'
    OBVIOUS
  <1> USE DEF Base, TypeOK
  <1>0. EmptyRow \in Row /\ \A u \in Threads : job[u] \in Job
    BY EmptyIsRow
  <1>1. ASSUME NEW u \in Threads, NEW d \in {1, -1}, seat_delta(u, d), members' \in Nat
        PROVE  TypeOK'
    <2>1. job' \in [Threads -> Job]
      BY <1>0, <1>1, WorkTyped DEF seat_delta, Begin, Tasks
    <2> QED  BY <1>1, <2>1 DEF seat_delta, Begin
  <1>2. ASSUME NEW u \in Threads, ensure(u) \/ archive_membership(u) PROVE TypeOK'
    <2>1. members + 1 \in Nat /\ (members > 0 => members + -1 \in Nat)
      OBVIOUS
    <2> QED  BY <1>1, <1>2, <2>1 DEF ensure, archive_membership, seat_delta
  <1>3. ASSUME NEW u \in Threads, roll_read(u) PROVE TypeOK'
    <2>1. job[u].at \in Periods /\ job[u].arg \in Int /\ row[job[u].at - 1] \in Row
      BY <1>0, <1>3 DEF roll_read, Job
    <2>2. job' \in [Threads -> Job]
      BY <1>3, <2>1, SeenIsRow, WorkTyped DEF roll_read, Tasks
    <2> QED  BY <1>3, <2>2 DEF roll_read
  <1>4. ASSUME NEW u \in Threads, roll_forward(u) PROVE TypeOK'
    <2>1. row[period - 1] \in Row
      BY <1>4 DEF roll_forward
    <2>2. job' \in [Threads -> Job]
      BY <1>4, <2>1, SeenIsRow, WorkTyped DEF roll_forward, Begin, Tasks
    <2> QED  BY <1>4, <2>2 DEF roll_forward, Begin
  <1>5. ASSUME NEW u \in Threads, roll_put(u) PROVE TypeOK'
    <2> DEFINE j == job[u] s == j.seen
    <2>1. j.at \in Periods /\ s \in Row
      BY <1>0 DEF Job
    <2>2. seed_pool_row(s.manual, s.status, s.seats, s.rate) \in Row
      BY <2>1, SeedIsRow DEF Row, Statuses
    <2>3. row' \in [Periods -> Row] /\ pooled' \subseteq Periods
      BY <1>5, <2>1, <2>2 DEF roll_put
    <2>4. job' \in [Threads -> Job]
      BY <1>5, FinishTyped, BecomeTyped DEF roll_put, Tasks
    <2> QED  BY <1>5, <2>3, <2>4 DEF roll_put
  <1>6. ASSUME NEW u \in Threads, seat_read(u) PROVE TypeOK'
    <2>1. job[u].at \in Periods /\ job[u].arg \in Int /\ RateOf(row[job[u].at]) \in Row
      BY <1>0, SeenIsRow DEF Job
    <2>2. job' \in [Threads -> Job]
      BY <1>6, <2>1, WorkTyped, FinishTyped, BecomeTyped DEF seat_read, Tasks
    <2> QED  BY <1>6, <2>2 DEF seat_read
  <1>7. ASSUME NEW u \in Threads, seat_only_write(u) PROVE TypeOK'
    <2> DEFINE j == job[u] r == row[j.at]
    <2>1. j.at \in Periods /\ j.arg \in Int /\ r \in Row
      BY <1>0 DEF Job
    <2>2. r.seats + j.arg \in Int
      BY <2>1, RowFields
    <2>3. [r EXCEPT !.seats = @ + j.arg] \in Row
      BY <2>1, <2>2 DEF Row
    <2>4. row' = [row EXCEPT ![j.at] = [r EXCEPT !.seats = @ + j.arg]]
      BY <1>7 DEF seat_only_write
    <2>5. job' \in [Threads -> Job]
      BY <1>7, FinishTyped DEF seat_only_write
    <2> QED  BY <1>7, <2>1, <2>3, <2>4, <2>5 DEF seat_only_write
  <1>8. ASSUME NEW u \in Threads, seat_money_write(u) PROVE TypeOK'
    <2> DEFINE j == job[u] r == row[j.at] m == Move(r, j.arg * j.seen.rate)
    <2>1. j.at \in Periods /\ j.arg \in Int /\ r \in Row /\ j.seen.rate \in Int
      BY <1>0, RowFields DEF Job
    <2>2. j.arg * j.seen.rate \in Int
      BY <2>1
    <2>3. m \in Row
      BY <2>1, <2>2, MoveIsRow
    <2>4. m.seats + j.arg \in Int
      BY <2>1, <2>3, RowFields
    <2>5. [m EXCEPT !.seats = @ + j.arg] \in Row
      BY <2>3, <2>4 DEF Row
    <2>6. row' \in [Periods -> Row]
      BY <1>8, <2>1, <2>5 DEF seat_money_write
    <2>7. job' \in [Threads -> Job]
      BY <1>8, FinishTyped, BecomeTyped DEF seat_money_write, Tasks
    <2> QED  BY <1>8, <2>6, <2>7 DEF seat_money_write
  <1> QED  BY <1>2, <1>3, <1>4, <1>5, <1>6, <1>7, <1>8 DEF Staff

\* So does the migration.
LEMMA MigrateTyped == Base /\ Migrate => TypeOK'
  <1> SUFFICES ASSUME Base, Migrate PROVE TypeOK'
    OBVIOUS
  <1> USE DEF Base, TypeOK
  <1>0. EmptyRow \in Row /\ \A u \in Threads : job[u] \in Job
    BY EmptyIsRow
  <1>1. ASSUME NEW t \in Threads, NEW r \in Rates, recompute_start(t, r) PROVE TypeOK'
    <2>1. r \in Int /\ 1 \in Periods
      BY Numbers, PeriodsAssumption DEF Periods
    <2>2. job' \in [Threads -> Job]
      BY <1>0, <1>1, <2>1, WorkTyped DEF recompute_start, Begin, Tasks
    <2> QED  BY <1>1, <2>2 DEF recompute_start, Begin
  <1>2. ASSUME NEW t \in Threads, NEW p \in Periods, recompute_scan(t, p) PROVE TypeOK'
    <2>1. Inputs(row[p]) \in Row /\ job[t].arg \in Int
      BY <1>0, SeenIsRow DEF Job
    <2>2. job' \in [Threads -> Job]
      BY <1>2, <2>1, WorkTyped DEF recompute_scan, Tasks
    <2> QED  BY <1>2, <2>2 DEF recompute_scan
  <1>3. ASSUME NEW t \in Threads, recompute_write(t) PROVE TypeOK'
    <2> DEFINE j == job[t] r == row[j.at] d == j.seen.seats * j.arg - j.seen.limit
    <2>1. /\ j.at \in Periods /\ j.arg \in Int /\ r \in Row
          /\ j.seen.seats \in Int /\ j.seen.limit \in Int
      BY <1>0, RowFields DEF Job
    <2>2. d \in Int
      BY <2>1
    <2>3. j.arg \in Nat
      BY <1>3, Numbers DEF JobOK, recompute_write
    <2>4. [Move(r, d) EXCEPT !.rate = j.arg] \in Row
      <3> DEFINE m == Move(r, d)
      <3>1. m \in Row
        BY <2>1, <2>2, MoveIsRow
      <3> HIDE DEF m
      <3>2. [m EXCEPT !.rate = j.arg] \in Row
        BY <2>3, <3>1 DEF Row
      <3> QED  BY <3>2 DEF m
    <2>5. row' \in [Periods -> Row]
      BY <1>3, <2>1, <2>4 DEF recompute_write
    <2>6. job' \in [Threads -> Job]
      BY <1>3, BecomeTyped DEF recompute_write, Tasks
    <2> QED  BY <1>3, <2>5, <2>6 DEF recompute_write
  <1> QED  BY <1>1, <1>2, <1>3 DEF Migrate

\* A grant's status or its attempts are rewritten in place.
LEMMA GrantRewritten ==
  ASSUME NEW G, NEW f \in [GrantIds -> [status : GrantStatuses, amount : Nat, at : Periods,
                                       request : G, attempts : Nat]],
         NEW g \in GrantIds, NEW s \in GrantStatuses
  PROVE  [f EXCEPT ![g].status = s] \in [GrantIds -> [status : GrantStatuses, amount : Nat,
                                                     at : Periods, request : G, attempts : Nat]]
  <1> DEFINE R == [status : GrantStatuses, amount : Nat, at : Periods, request : G, attempts : Nat]
             v == [f[g] EXCEPT !.status = s]
  <1>1. v \in R
    OBVIOUS
  <1>2. [f EXCEPT ![g].status = s] = [f EXCEPT ![g] = v]
    OBVIOUS
  <1> HIDE DEF v
  <1> QED  BY <1>1, <1>2

\* So do raises, from request to grant to its end.
LEMMA RaiseTyped == Base /\ Raise => TypeOK'
  <1> SUFFICES ASSUME Base, Raise PROVE TypeOK'
    OBVIOUS
  <1> USE DEF Base, TypeOK
  <1>0. EmptyRow \in Row /\ \A u \in Threads : job[u] \in Job
    BY EmptyIsRow
  <1>1. ASSUME NEW r \in Requests,
               file_request(r) \/ reject_request(r) \/ withdraw_request(r) \/ approve_elapsed(r)
        PROVE  TypeOK'
    BY <1>1 DEF file_request, reject_request, withdraw_request, approve_elapsed, decide
  <1>2. ASSUME NEW t \in Threads, NEW r \in Requests, NEW a \in Amounts, approve_read(t, r, a)
        PROVE  TypeOK'
    <2>1. a \in Int /\ CapOf(row[period]) \in Row
      BY Numbers, SeenIsRow
    <2>2. job' \in [Threads -> Job]
      BY <1>2, <2>1, WorkTyped DEF approve_read, Begin, Tasks
    <2> QED  BY <1>2, <2>2 DEF approve_read, Begin
  <1>3. ASSUME NEW t \in Threads, NEW by \in {"revoke", "sweep"}, NEW g \in GrantIds,
               end_read(t, by, g)
        PROVE  TypeOK'
    <2>1. grant[g].at \in Periods /\ grant[g].amount \in Int
      OBVIOUS
    <2>2. job' \in [Threads -> Job]
      BY <1>0, <1>3, <2>1, WorkTyped DEF end_read, Begin, Tasks
    <2> QED  BY <1>3, <2>2 DEF end_read, Begin
  <1>4. ASSUME NEW t \in Threads, approve_commit(t) PROVE TypeOK'
    <2> DEFINE j == job[t] r == row[j.at] m == Move(r, j.arg)
    <2>1. /\ j.at \in Periods /\ j.arg \in Int /\ j.arg \in Nat /\ r \in Row
          /\ j.on \in Requests
      BY <1>0, <1>4, Numbers DEF Job, JobOK, approve_commit
    <2>2. m \in Row /\ m.granted + j.arg \in Nat
      BY <2>1, MoveIsRow, RowFields
    <2>3. grant_apply(r, j.arg) \in Row
      BY <2>2 DEF grant_apply, Row
    <2>4. job' \in [Threads -> Job]
      BY <1>4, FinishTyped DEF approve_commit
    <2>5. CASE UNCHANGED <<request, grant, row>>
      BY <1>4, <2>4, <2>5 DEF approve_commit
    <2>6. ASSUME NEW g \in GrantIds, decide(j.on, "APPROVED"), grant_put(g, j),
                 row' = [row EXCEPT ![j.at] = grant_apply(@, j.arg)]
          PROVE  TypeOK'
      <3>1. request' \in [Requests -> [status : {"none", "PENDING", "APPROVED", "REJECTED",
                                                "WITHDRAWN"}, filed : Periods]]
        BY <2>1, <2>6 DEF decide
      <3>2. grant' \in [GrantIds -> [status : GrantStatuses, amount : Nat, at : Periods,
                                     request : Requests \cup {NoOne}, attempts : Nat]]
        BY <2>1, <2>6 DEF grant_put, GrantStatuses
      <3>3. row' \in [Periods -> Row]
        BY <2>1, <2>3, <2>6
      <3> QED  BY <1>4, <2>4, <3>1, <3>2, <3>3 DEF approve_commit
    <2> QED  BY <1>4, <2>5, <2>6 DEF approve_commit
  <1>5. ASSUME NEW t \in Threads, end_commit(t) PROVE TypeOK'
    <2> DEFINE j == job[t] r == row[j.at] m == Move(r, -j.arg)
    <2>1. /\ j.at \in Periods /\ -j.arg \in Int /\ j.arg \in Nat /\ r \in Row
          /\ j.on \in GrantIds
      BY <1>0, <1>5 DEF Job, JobOK, Endings, end_commit
    <2>7. m \in Row
      BY <2>1, MoveIsRow
    <2>2. m.granted = r.granted /\ r.granted \in Nat
      BY <2>1, RowFields DEF Move, Row
    <2>6. r.granted >= j.arg
      BY <1>5 DEF end_commit
    <2>3. m.granted - j.arg \in Nat
      BY <2>1, <2>2, <2>6
    <2>4. grant_revoke(r, j.arg) \in Row
      BY <2>3, <2>7 DEF grant_revoke, Row
    <2>5. job' \in [Threads -> Job]
      BY <1>5, FinishTyped DEF end_commit
    <2>8. row' \in [Periods -> Row]
      BY <1>5, <2>1, <2>4 DEF end_commit
    <2>9. grant' \in [GrantIds -> [status : GrantStatuses, amount : Nat, at : Periods,
                                   request : Requests \cup {NoOne}, attempts : Nat]]
      <3> DEFINE s == IF j.task = "revoke" THEN "REVOKED" ELSE "EXPIRED"
      <3>1. s \in GrantStatuses
        BY DEF GrantStatuses
      <3>2. grant' = [grant EXCEPT ![j.on].status = s]
        BY <1>5 DEF end_commit
      <3> HIDE DEF s
      <3> QED  BY <2>1, <3>1, <3>2, GrantRewritten
    <2> QED  BY <1>5, <2>5, <2>8, <2>9 DEF end_commit
  <1>6. ASSUME NEW t \in Threads, end_cancelled(t) PROVE TypeOK'
    <2>1. job' \in [Threads -> Job]
      BY <1>6, FinishTyped, BecomeTyped DEF end_cancelled, Tasks
    <2> QED  BY <1>6, <2>1 DEF end_cancelled
  <1>7. ASSUME NEW t \in Threads, bump_revoke_attempts(t) PROVE TypeOK'
    <2>1. job[t].on \in GrantIds
      BY <1>7 DEF JobOK, Endings, bump_revoke_attempts
    <2>2. job' \in [Threads -> Job]
      BY <1>7, FinishTyped, BecomeTyped DEF bump_revoke_attempts, Tasks
    <2> QED  BY <1>7, <2>1, <2>2 DEF bump_revoke_attempts
  <1>8. ASSUME NEW t \in Threads, mark_revoke_blocked(t) PROVE TypeOK'
    <2>1. job' \in [Threads -> Job]
      BY <1>8, FinishTyped DEF mark_revoke_blocked
    <2>2. job[t].on \in GrantIds
      BY <1>8 DEF JobOK, Endings, mark_revoke_blocked
    <2>3. "REVOKE_BLOCKED" \in GrantStatuses
      BY DEF GrantStatuses
    <2>4. grant' \in [GrantIds -> [status : GrantStatuses, amount : Nat, at : Periods,
                                   request : Requests \cup {NoOne}, attempts : Nat]]
      BY <1>8, <2>2, <2>3, GrantRewritten DEF mark_revoke_blocked
    <2> QED  BY <1>8, <2>1, <2>4 DEF mark_revoke_blocked
  <1>9. ASSUME NEW g \in GrantIds, clear_revoke_block(g) PROVE TypeOK'
    <2> DEFINE v == [grant[g] EXCEPT !.status = "ACTIVE", !.attempts = 0]
    <2>1. v \in [status : GrantStatuses, amount : Nat, at : Periods,
                 request : Requests \cup {NoOne}, attempts : Nat]
      BY DEF GrantStatuses
    <2>2. grant' = [grant EXCEPT ![g] = v]
      BY <1>9 DEF clear_revoke_block
    <2>3. grant' \in [GrantIds -> [status : GrantStatuses, amount : Nat, at : Periods,
                                   request : Requests \cup {NoOne}, attempts : Nat]]
      <3> HIDE DEF v
      <3> QED  BY <2>1, <2>2
    <2> QED  BY <1>9, <2>3 DEF clear_revoke_block
  <1> QED
    BY <1>1, <1>2, <1>3, <1>4, <1>5, <1>6, <1>7, <1>8, <1>9 DEF Raise, revoke_read, sweep_read

\* So does every step.
LEMMA NextTyped == Base /\ [Next]_vars => TypeOK'
  <1> SUFFICES ASSUME Base, [Next]_vars PROVE TypeOK'
    OBVIOUS
  <1>1. CASE tick
    <2>1. period' \in Periods
      BY <1>1, PeriodsAssumption DEF Base, TypeOK, tick, Periods
    <2> QED  BY <1>1, <2>1 DEF Base, TypeOK, tick
  <1>2. ASSUME NEW t \in Threads, abandon(t) PROVE TypeOK'
    <2>1. job' \in [Threads -> Job]
      BY <1>2, FinishTyped DEF abandon, Base, TypeOK
    <2> QED  BY <1>2, <2>1 DEF abandon, Base, TypeOK
  <1>3. CASE UNCHANGED vars
    BY <1>3 DEF Base, TypeOK, vars
  <1> QED
    BY <1>1, <1>2, <1>3, SpendTyped, OperateTyped, StaffTyped, MigrateTyped, RaiseTyped DEF Next

-----------------------------------------------------------------------------
\* What no step takes back: a row, the pin of a grant, an approval.
Kept ==
  /\ pooled \subseteq pooled'
  /\ \A g \in GrantIds : grant[g].status # "none" =>
       /\ grant'[g].status # "none"
       /\ grant'[g].at = grant[g].at /\ grant'[g].request = grant[g].request
  /\ \A r \in Requests : request[r].status = "APPROVED" => request'[r].status = "APPROVED"

\* Spending touches the rows alone.
LEMMA SpendFrame ==
  ASSUME Spend
  PROVE  UNCHANGED <<period, pooled, job, members, started, request, grant>>
  <1>1. ASSUME NEW p, NEW c, reserve(p, c)
        PROVE  UNCHANGED <<period, pooled, job, members, started, request, grant>>
    BY <1>1, Zenon DEF reserve
  <1>2. ASSUME NEW p, NEW c, NEW a, settle(p, c, a)
        PROVE  UNCHANGED <<period, pooled, job, members, started, request, grant>>
    BY <1>2, Zenon DEF settle
  <1> QED  BY <1>1, <1>2, Zenon DEF Spend

\* The steps that write a grant; none of them makes a row.
LEMMA GrantsMoveBy ==
  ASSUME [Next]_vars, grant' # grant
  PROVE  /\ pooled' = pooled
         /\ \/ \E t \in Threads : \/ approve_commit(t) \/ end_commit(t)
                                 \/ bump_revoke_attempts(t) \/ mark_revoke_blocked(t)
            \/ \E g \in GrantIds : clear_revoke_block(g)
  <1> DEFINE Goal == /\ pooled' = pooled
                     /\ \/ \E t \in Threads : \/ approve_commit(t) \/ end_commit(t)
                                             \/ bump_revoke_attempts(t) \/ mark_revoke_blocked(t)
                        \/ \E g \in GrantIds : clear_revoke_block(g)
  <1>1. CASE Spend
    BY <1>1, SpendFrame
  <1>2. CASE Operate
    BY <1>2 DEF Operate, set_absent, set_read, set_write, clear_read, clear_write
  <1>3. CASE Staff
    BY <1>3 DEF Staff, ensure, archive_membership, seat_delta, roll_read, roll_forward, roll_put,
                seat_read, seat_only_write, seat_money_write
  <1>4. CASE Migrate
    BY <1>4 DEF Migrate, recompute_start, recompute_scan, recompute_write
  <1>5. CASE Raise
    <2>1. ASSUME NEW r \in Requests,
                 file_request(r) \/ reject_request(r) \/ withdraw_request(r) \/ approve_elapsed(r)
          PROVE  Goal
      BY <2>1 DEF file_request, reject_request, withdraw_request, approve_elapsed
    <2>2. ASSUME NEW t \in Threads,
                 \/ \E r \in Requests, a \in Amounts : approve_read(t, r, a)
                 \/ \E g \in GrantIds : revoke_read(t, g) \/ sweep_read(t, g)
                 \/ end_cancelled(t)
          PROVE  Goal
      BY <2>2 DEF approve_read, revoke_read, sweep_read, end_read, end_cancelled
    <2>3. ASSUME NEW t \in Threads, \/ approve_commit(t) \/ end_commit(t)
                                   \/ bump_revoke_attempts(t) \/ mark_revoke_blocked(t)
          PROVE  Goal
      BY <2>3 DEF approve_commit, end_commit, bump_revoke_attempts, mark_revoke_blocked
    <2>4. ASSUME NEW g \in GrantIds, clear_revoke_block(g) PROVE Goal
      BY <2>4 DEF clear_revoke_block
    <2> QED  BY <1>5, <2>1, <2>2, <2>3, <2>4 DEF Raise
  <1>6. CASE tick \/ (\E t \in Threads : abandon(t)) \/ UNCHANGED vars
    BY <1>6 DEF tick, abandon, vars
  <1> QED  BY <1>1, <1>2, <1>3, <1>4, <1>5, <1>6 DEF Next

\* No step takes away a row, forgets or moves a grant, or takes back an approval.
LEMMA NextKept == Base /\ [Next]_vars => Kept
  <1> SUFFICES ASSUME Base, [Next]_vars PROVE Kept
    OBVIOUS
  <1> USE DEF Base, TypeOK
  <1>1. CASE Spend
    BY <1>1, SpendFrame DEF Kept
  <1>2. CASE Operate
    BY <1>2 DEF Operate, set_absent, set_read, set_write, clear_read, clear_write, Begin, Kept
  <1>3. CASE Staff
    BY <1>3 DEF Staff, ensure, archive_membership, seat_delta, roll_read, roll_forward, roll_put,
                seat_read, seat_only_write, seat_money_write, Begin, Kept
  <1>4. CASE Migrate
    BY <1>4 DEF Migrate, recompute_start, recompute_scan, recompute_write, Begin, Kept
  <1>5. CASE Raise
    <2>1. ASSUME NEW r \in Requests,
                 file_request(r) \/ reject_request(r) \/ withdraw_request(r) \/ approve_elapsed(r)
          PROVE  Kept
      BY <2>1 DEF file_request, reject_request, withdraw_request, approve_elapsed, decide, Kept
    <2>2. ASSUME NEW t \in Threads,
                 \/ \E r \in Requests, a \in Amounts : approve_read(t, r, a)
                 \/ \E g \in GrantIds : revoke_read(t, g) \/ sweep_read(t, g)
                 \/ end_cancelled(t)
          PROVE  Kept
      BY <2>2 DEF approve_read, revoke_read, sweep_read, end_read, end_cancelled, Begin, Kept
    <2>3. ASSUME NEW t \in Threads, approve_commit(t) PROVE Kept
      <3>1. job[t].on \in Requests
        BY <2>3 DEF approve_commit, JobOK
      <3> QED  BY <2>3, <3>1 DEF approve_commit, decide, grant_put, Kept
    <2>4. ASSUME NEW t \in Threads, end_commit(t) \/ bump_revoke_attempts(t)
                                      \/ mark_revoke_blocked(t)
          PROVE  Kept
      <3>1. job[t].on \in GrantIds
        BY <2>4 DEF end_commit, bump_revoke_attempts, mark_revoke_blocked, JobOK, Endings
      <3>2. pooled' = pooled /\ request' = request
        BY <2>4 DEF end_commit, bump_revoke_attempts, mark_revoke_blocked
      <3>3. CASE end_commit(t)
        BY <3>1, <3>2, <3>3 DEF end_commit, GrantHolds, Kept
      <3>4. CASE bump_revoke_attempts(t)
        BY <3>1, <3>2, <3>4 DEF bump_revoke_attempts, Kept
      <3>5. CASE mark_revoke_blocked(t)
        BY <3>1, <3>2, <3>5 DEF mark_revoke_blocked, Kept
      <3> QED  BY <2>4, <3>3, <3>4, <3>5
    <2>5. ASSUME NEW g \in GrantIds, clear_revoke_block(g) PROVE Kept
      BY <2>5 DEF clear_revoke_block, Kept
    <2> QED  BY <1>5, <2>1, <2>2, <2>3, <2>4, <2>5 DEF Raise
  <1>6. CASE tick \/ (\E t \in Threads : abandon(t)) \/ UNCHANGED vars
    BY <1>6 DEF tick, abandon, vars, Kept
  <1> QED  BY <1>1, <1>2, <1>3, <1>4, <1>5, <1>6 DEF Next

\* A thread that did not move still knows what it knew.
LEMMA JobFramed ==
  ASSUME Base, Kept, NEW t \in Threads, job'[t] = job[t]
  PROVE  JobOK(t)'
  <1>1. JobOK(t)
    BY DEF Base
  <1> QED  BY <1>1 DEF JobOK, Kept

\* One that went back to its first read, or is done, knows nothing.
LEMMA JobFresh ==
  ASSUME Base, NEW t \in Threads,
         \/ Finish(t)
         \/ Become(t, "seat")
         \/ \E p \in Periods, d \in Int, s \in Row :
              Work(t, "seat", p, d, s, NoOne) \/ Work(t, "roll", p, d, s, NoOne)
  PROVE  JobOK(t)'
  BY DEF Base, TypeOK, JobOK, Job, Finish, Become, Work, Idle, Pinned, Endings

\* Every step leaves every job with a target that exists and a read that is a row.
LEMMA NextJobs == Base /\ [Next]_vars => \A t \in Threads : JobOK(t)'
  <1> SUFFICES ASSUME Base, [Next]_vars, NEW u \in Threads, job'[u] # job[u]
               PROVE  JobOK(u)'
    BY NextKept, JobFramed
  <1>0. Kept
    BY NextKept
  <1>. USE DEF Base, TypeOK
  <1>1. CASE Spend
    BY <1>1, SpendFrame
  <1>2. CASE Operate
    <2>1. ASSUME NEW t \in Threads, NEW p \in Periods, NEW f \in Figures,
                 set_read(t, p, f)
          PROVE  JobOK(u)'
      BY <2>1 DEF set_read, Begin, Work, JobOK, Endings, Pinned
    <2>3. ASSUME NEW t \in Threads, clear_write(t) \/ \E s \in Statuses : set_write(t, s)
          PROVE  JobOK(u)'
      <3>1. u = t /\ Finish(t)
        BY <2>3 DEF clear_write, set_write, Finish
      <3> QED  BY <3>1, JobFresh
    <2>2. ASSUME NEW t \in Threads, NEW p \in Periods, clear_read(t, p) PROVE JobOK(u)'
      BY <2>2 DEF clear_read, Begin, Work, JobOK, Endings, Pinned
    <2> QED  BY <1>2, <2>1, <2>2, <2>3 DEF Operate, set_absent
  <1>3. CASE Staff
    <2> PICK t \in Threads :
          \/ ensure(t) \/ archive_membership(t)
          \/ roll_read(t) \/ roll_forward(t) \/ roll_put(t)
          \/ seat_read(t) \/ seat_only_write(t) \/ seat_money_write(t)
      BY <1>3 DEF Staff
    <2>0. u = t
      BY DEF ensure, archive_membership, seat_delta, roll_read, roll_forward, roll_put, seat_read,
             seat_only_write, seat_money_write, Begin, Work, Finish, Become
    <2>1. CASE ensure(t) \/ archive_membership(t) \/ roll_read(t) \/ roll_forward(t)
      BY <2>0, <2>1 DEF ensure, archive_membership, seat_delta, roll_read, roll_forward, Begin,
                        Work, JobOK, Endings, Pinned
    <2>2. CASE roll_put(t) \/ seat_only_write(t) \/ seat_money_write(t)
      BY <2>0, <2>2, JobFresh DEF roll_put, seat_only_write, seat_money_write
    <2>3. CASE seat_read(t)
      <3>1. CASE Finish(t)
        BY <2>0, <3>1, JobFresh
      <3>2. CASE Become(t, "seatonly") /\ job[t].at \in pooled
        BY <1>0, <2>0, <3>2 DEF Become, JobOK, Endings, Pinned, Kept
      <3>3. ASSUME job[t].at \in pooled, NEW s, Work(t, "seatmoney", job[t].at, job[t].arg, s, NoOne)
            PROVE  JobOK(u)'
        BY <1>0, <2>0, <3>3 DEF Work, JobOK, Endings, Pinned, Kept
      <3> QED  BY <2>3, <3>1, <3>2, <3>3 DEF seat_read
    <2> QED  BY <2>1, <2>2, <2>3
  <1>4. CASE Migrate
    <2>1. ASSUME NEW t \in Threads, NEW r \in Rates, recompute_start(t, r) PROVE JobOK(u)'
      BY <2>1 DEF recompute_start, Begin, Work, JobOK, Endings, Pinned
    <2>2. ASSUME NEW t \in Threads, NEW p \in Periods, recompute_scan(t, p) PROVE JobOK(u)'
      BY <2>2 DEF recompute_scan, Work, JobOK, Endings, Pinned
    <2>3. ASSUME NEW t \in Threads, recompute_write(t) PROVE JobOK(u)'
      BY <2>3 DEF recompute_write, Become, JobOK, Endings, Pinned
    <2> QED  BY <1>4, <2>1, <2>2, <2>3 DEF Migrate
  <1>5. CASE Raise
    <2>1. ASSUME NEW t \in Threads, NEW r \in Requests, NEW a \in Amounts, approve_read(t, r, a)
          PROVE  JobOK(u)'
      BY <2>1 DEF approve_read, Begin, Work, JobOK, Endings, Pinned
    <2>2. ASSUME NEW t \in Threads, NEW g \in GrantIds, revoke_read(t, g) \/ sweep_read(t, g)
          PROVE  JobOK(u)'
      BY <2>2 DEF revoke_read, sweep_read, end_read, Begin, Work, JobOK, Endings, Pinned, GrantOK
    <2>3. ASSUME NEW t \in Threads,
                 \/ approve_commit(t) \/ end_commit(t) \/ mark_revoke_blocked(t)
          PROVE  JobOK(u)'
      BY <2>3, JobFresh DEF approve_commit, end_commit, mark_revoke_blocked, Finish
    <2>4. ASSUME NEW t \in Threads, end_cancelled(t) \/ bump_revoke_attempts(t)
          PROVE  JobOK(u)'
      <3>1. CASE Finish(t)
        BY <3>1, JobFresh DEF Finish
      <3>2. CASE Become(t, "bump") \/ Become(t, "block")
        <4>1. JobOK(t) /\ job[t].task \in Endings /\ u = t
          BY <2>4, <3>2 DEF end_cancelled, bump_revoke_attempts, Endings, Become
        <4>2. /\ job'[t].task \in {"bump", "block"} /\ job'[t].at = job[t].at
              /\ job'[t].arg = job[t].arg /\ job'[t].on = job[t].on
          BY <3>2 DEF Become, Job
        <4> HIDE DEF Base, TypeOK
        <4> QED  BY <1>0, <4>1, <4>2 DEF JobOK, Kept, Endings, Pinned
      <3> QED  BY <2>4, <3>1, <3>2 DEF end_cancelled, bump_revoke_attempts
    <2> QED
      BY <1>5, <2>1, <2>2, <2>3, <2>4
      DEF Raise, file_request, reject_request, withdraw_request, approve_elapsed, clear_revoke_block
  <1>6. CASE tick \/ UNCHANGED vars
    BY <1>6 DEF tick, vars
  <1>7. ASSUME NEW t \in Threads, abandon(t) PROVE JobOK(u)'
    BY <1>7, JobFresh DEF abandon, Finish
  <1> QED  BY <1>1, <1>2, <1>3, <1>4, <1>5, <1>6, <1>7 DEF Next

\* A grant comes into being with the approval of a request.
LEMMA NewGrantIsApproved ==
  ASSUME Base, [Next]_vars, NEW g \in GrantIds, grant[g].status = "none",
         grant'[g].status # "none"
  PROVE  \E t \in Threads : /\ approve_commit(t) /\ grant_put(g, job[t])
                            /\ decide(job[t].on, "APPROVED")
  <1>0. /\ grant \in [GrantIds -> [status : GrantStatuses, amount : Nat, at : Periods,
                                   request : Requests \cup {NoOne}, attempts : Nat]]
        /\ grant' # grant
    BY DEF Base, TypeOK
  <1>1. ASSUME NEW t \in Threads, end_commit(t) PROVE FALSE
    BY <1>0, <1>1 DEF end_commit, GrantHolds
  <1>2. ASSUME NEW t \in Threads, bump_revoke_attempts(t) PROVE FALSE
    BY <1>0, <1>2 DEF bump_revoke_attempts
  <1>3. ASSUME NEW t \in Threads, mark_revoke_blocked(t) PROVE FALSE
    BY <1>0, <1>3 DEF mark_revoke_blocked
  <1>4. ASSUME NEW x \in GrantIds, clear_revoke_block(x) PROVE FALSE
    BY <1>0, <1>4 DEF clear_revoke_block
  <1>5. PICK t \in Threads : approve_commit(t)
    BY <1>0, <1>1, <1>2, <1>3, <1>4, GrantsMoveBy
  <1>6. PICK x \in GrantIds : decide(job[t].on, "APPROVED") /\ grant_put(x, job[t])
    BY <1>0, <1>5 DEF approve_commit
  <1>7. x = g
    BY <1>0, <1>6 DEF grant_put
  <1> QED  BY <1>5, <1>6, <1>7

\* Every step leaves every grant with a row and a request that was approved.
LEMMA NextGrants == Base /\ [Next]_vars => \A g \in GrantIds : GrantOK(g)'
  <1> SUFFICES ASSUME Base, [Next]_vars, NEW g \in GrantIds, grant'[g].status # "none"
               PROVE  GrantOK(g)'
    BY DEF GrantOK
  <1>0. Kept
    BY NextKept
  <1>1. CASE grant[g].status # "none"
    BY <1>0, <1>1 DEF Kept, GrantOK, Base
  <1>2. CASE grant[g].status = "none"
    <2>1. PICK t \in Threads : /\ approve_commit(t) /\ grant_put(g, job[t])
                             /\ decide(job[t].on, "APPROVED")
      BY <1>2, NewGrantIsApproved
    <2>2. JobOK(t) /\ job[t].task = "approve"
      BY <2>1 DEF Base, approve_commit
    <2> QED  BY <1>0, <2>1, <2>2 DEF grant_put, decide, GrantOK, JobOK, Pinned, Kept, Base, TypeOK
  <1> QED  BY <1>1, <1>2

\* The three together are inductive.
LEMMA NextBase == Base /\ [Next]_vars => Base'
  BY NextTyped, NextJobs, NextGrants DEF Base

-----------------------------------------------------------------------------
\* What a row's ceiling has that its headroom and its spending have not.
Gap(r) == r.limit - r.headroom - r.reserved - r.settled

\* A step leaves the gap of a row alone and takes back nothing it has settled.
Even(r, s) == Gap(s) = Gap(r) /\ s.settled >= r.settled

\* A row whose limit and headroom move together stays even.
LEMMA EvenMove ==
  ASSUME NEW r \in Row, NEW d \in Int, NEW s, s.limit = r.limit + d, s.headroom = r.headroom + d,
         s.reserved = r.reserved, s.settled = r.settled
  PROVE  Even(r, s)
  BY RowFields DEF Even, Gap

\* A row that a step creates is at its baseline, with nothing spent or granted.
Fresh(r) ==
  /\ r.limit = baseline(r) /\ r.headroom = r.limit
  /\ r.reserved = 0 /\ r.settled = 0 /\ r.granted = 0

\* A seeded row has reserved and settled nothing, and its headroom is its limit.
LEMMA SeedIsFresh ==
  ASSUME NEW m, NEW s, NEW n, NEW q PROVE Fresh(seed_pool_row(m, s, n, q))
  BY DEF Fresh, seed_pool_row, baseline, seat_term, is_seat_tracked

\* Every step leaves each row even, and puts new rows fresh.
LEMMA NextRows ==
  Base /\ [Next]_vars => \A p \in pooled' : IF p \in pooled THEN Even(row[p], row'[p])
                                                           ELSE Fresh(row'[p])
  <1> SUFFICES ASSUME Base, [Next]_vars, NEW p \in pooled'
               PROVE  IF p \in pooled THEN Even(row[p], row'[p]) ELSE Fresh(row'[p])
    OBVIOUS
  <1> DEFINE Goal == IF p \in pooled THEN Even(row[p], row'[p]) ELSE Fresh(row'[p])
  <1>0. TypeOK /\ TypeOK' /\ Kept /\ (\A t \in Threads : job[t] \in Job)
    BY NextTyped, NextKept DEF Base, TypeOK
  <1>1. p \in Periods /\ row[p] \in Row /\ row'[p] \in Row
    BY <1>0 DEF TypeOK
  <1>2. CASE row' = row /\ pooled' = pooled
    BY <1>1, <1>2, RowFields DEF Even, Gap
  <1>3. ASSUME NEW q \in Periods, NEW r, NEW d \in Int, q \in pooled,
               row' = [row EXCEPT ![q] = r], pooled' = pooled,
               r.limit = row[q].limit + d, r.headroom = row[q].headroom + d,
               r.reserved = row[q].reserved, r.settled = row[q].settled
        PROVE  Goal
    <2>1. CASE p = q
      BY <1>0, <1>1, <1>3, <2>1, EvenMove DEF TypeOK
    <2>2. CASE p # q
      BY <1>0, <1>1, <1>3, <2>2, RowFields DEF TypeOK, Even, Gap
    <2> QED  BY <2>1, <2>2
  <1>4. ASSUME NEW q \in Periods, NEW m, NEW s, NEW n, NEW x, q \notin pooled,
               row' = [row EXCEPT ![q] = seed_pool_row(m, s, n, x)], pooled' = pooled \cup {q}
        PROVE  Goal
    <2>1. CASE p = q
      BY <1>0, <1>4, <2>1, SeedIsFresh DEF TypeOK
    <2>2. CASE p # q
      BY <1>0, <1>1, <1>4, <2>2, RowFields DEF TypeOK, Even, Gap
    <2> QED  BY <2>1, <2>2
  <1>5. CASE Spend
    <2>1. PICK q \in Periods, c \in Costs :
            reserve(q, c) \/ \E actual \in Costs : settle(q, c, actual)
      BY <1>5 DEF Spend
    <2>2. c \in Int /\ row[q] \in Row
      BY <1>0, Numbers DEF TypeOK
    <2>3. CASE reserve(q, c)
      <3>1. CASE p = q
        BY <1>0, <2>2, <2>3, <3>1, RowFields DEF TypeOK, reserve, Even, Gap, Row
      <3> QED  BY <1>0, <1>1, <2>3, <3>1, RowFields DEF TypeOK, reserve, Even, Gap
    <2>4. ASSUME NEW actual \in Costs, settle(q, c, actual) PROVE Goal
      <3>0. actual \in Nat
        BY Numbers
      <3>1. CASE p = q
        <4>1. /\ row'[p].limit = row[p].limit /\ row'[p].headroom = row[p].headroom + c - actual
              /\ row'[p].reserved = row[p].reserved - c
              /\ row'[p].settled = row[p].settled + actual
              /\ p \in pooled
          BY <1>0, <2>4, <3>1 DEF TypeOK, settle, Row
        <4>2. /\ row[p].limit \in Int /\ row[p].headroom \in Int
              /\ row[p].reserved \in Int /\ row[p].settled \in Int
          BY <1>1, RowFields
        <4>3. Gap(row'[p]) = Gap(row[p])
          BY <2>2, <3>0, <4>1, <4>2 DEF Gap
        <4>4. row'[p].settled >= row[p].settled
          BY <3>0, <4>1, <4>2
        <4> QED  BY <4>1, <4>3, <4>4 DEF Even
      <3> QED  BY <1>0, <1>1, <2>4, <3>1, RowFields DEF TypeOK, settle, Even, Gap
    <2> QED  BY <2>1, <2>3, <2>4
  <1>6. CASE Operate
    <2>1. ASSUME NEW q \in Periods, NEW f \in Figures, NEW s \in Statuses, set_absent(q, f, s)
          PROVE  Goal
      BY <1>4, <2>1 DEF set_absent
    <2>2. ASSUME NEW t \in Threads, NEW s \in Statuses, set_write(t, s) PROVE Goal
      <3> DEFINE j == job[t] d == j.arg - baseline(j.seen)
                 n == [Move(row[j.at], d) EXCEPT !.manual = j.arg, !.status = s]
      <3>1. j.at \in pooled /\ j.at \in Periods /\ d \in Int
        BY <1>0, <2>2, BaselineInt DEF Base, TypeOK, JobOK, Pinned, set_write, Job
      <3>2. /\ n.limit = row[j.at].limit + d /\ n.headroom = row[j.at].headroom + d
            /\ n.reserved = row[j.at].reserved /\ n.settled = row[j.at].settled
        BY <1>0, <3>1 DEF TypeOK, Row, Move
      <3>3. CASE row' = [row EXCEPT ![j.at] = n]
        BY <1>3, <2>2, <3>1, <3>2, <3>3 DEF set_write
      <3> QED  BY <1>2, <2>2, <3>3 DEF set_write
    <2>3. ASSUME NEW t \in Threads, clear_write(t) PROVE Goal
      <3> DEFINE j == job[t] d == seat_term(j.seen) - baseline(j.seen)
                 n == [Move(row[j.at], d) EXCEPT !.manual = Follow]
      <3>1. j.at \in pooled /\ j.at \in Periods /\ d \in Int
        BY <1>0, <2>3, BaselineInt DEF Base, TypeOK, JobOK, Pinned, clear_write, Job
      <3>2. /\ n.limit = row[j.at].limit + d /\ n.headroom = row[j.at].headroom + d
            /\ n.reserved = row[j.at].reserved /\ n.settled = row[j.at].settled
        BY <1>0, <3>1 DEF TypeOK, Row, Move
      <3>3. CASE row' = [row EXCEPT ![j.at] = n]
        BY <1>3, <2>3, <3>1, <3>2, <3>3 DEF clear_write
      <3> QED  BY <1>2, <2>3, <3>3 DEF clear_write
    <2> QED  BY <1>2, <1>6, <2>1, <2>2, <2>3 DEF Operate, set_read, clear_read
  <1>7. CASE Staff
    <2>1. ASSUME NEW t \in Threads, roll_put(t) PROVE Goal
      <3>1. job[t].at \in Periods
        BY <1>0 DEF Job
      <3> QED  BY <1>2, <1>4, <2>1, <3>1 DEF roll_put
    <2>2. ASSUME NEW t \in Threads, seat_only_write(t) PROVE Goal
      <3> DEFINE j == job[t] n == [row[j.at] EXCEPT !.seats = @ + j.arg] d == 0
      <3>1. j.at \in pooled /\ j.at \in Periods
        BY <1>0, <2>2 DEF Base, TypeOK, JobOK, Pinned, seat_only_write, Job
      <3>2. /\ n.limit = row[j.at].limit + d /\ n.headroom = row[j.at].headroom + d
            /\ n.reserved = row[j.at].reserved /\ n.settled = row[j.at].settled
            /\ d \in Int
        BY <1>0, <3>1 DEF TypeOK, Row
      <3>3. row' = [row EXCEPT ![j.at] = n] /\ pooled' = pooled
        BY <2>2 DEF seat_only_write
      <3> HIDE DEF n, d
      <3> QED  BY <1>3, <3>1, <3>2, <3>3
    <2>3. ASSUME NEW t \in Threads, seat_money_write(t) PROVE Goal
      <3> DEFINE j == job[t] d == j.arg * j.seen.rate
                 n == [Move(row[j.at], d) EXCEPT !.seats = @ + j.arg]
      <3>1. j.at \in pooled /\ j.at \in Periods /\ j.arg \in Int /\ j.seen.rate \in Int
        BY <1>0, <2>3, RowFields DEF Base, TypeOK, JobOK, Pinned, seat_money_write, Job
      <3>2. d \in Int
        BY <3>1
      <3>3. /\ n.limit = row[j.at].limit + d /\ n.headroom = row[j.at].headroom + d
            /\ n.reserved = row[j.at].reserved /\ n.settled = row[j.at].settled
        BY <1>0, <3>1 DEF TypeOK, Row, Move
      <3>4. CASE row' = [row EXCEPT ![j.at] = n]
        BY <1>3, <2>3, <3>1, <3>2, <3>3, <3>4 DEF seat_money_write
      <3> QED  BY <1>2, <2>3, <3>4 DEF seat_money_write
    <2> QED
      BY <1>2, <1>7, <2>1, <2>2, <2>3
      DEF Staff, ensure, archive_membership, seat_delta, roll_read, roll_forward, seat_read
  <1>8. CASE Migrate
    <2>1. ASSUME NEW t \in Threads, recompute_write(t) PROVE Goal
      <3> DEFINE j == job[t] d == j.seen.seats * j.arg - j.seen.limit
                 n == [Move(row[j.at], d) EXCEPT !.rate = j.arg]
      <3>1. /\ j.at \in pooled /\ j.at \in Periods /\ j.arg \in Int
            /\ j.seen.seats \in Int /\ j.seen.limit \in Int
        BY <1>0, <2>1, RowFields DEF Base, TypeOK, JobOK, Pinned, recompute_write, Job
      <3>2. d \in Int
        BY <3>1
      <3>3. /\ n.limit = row[j.at].limit + d /\ n.headroom = row[j.at].headroom + d
            /\ n.reserved = row[j.at].reserved /\ n.settled = row[j.at].settled
        BY <1>0, <3>1 DEF TypeOK, Row, Move
      <3>4. CASE row' = [row EXCEPT ![j.at] = n]
        BY <1>3, <2>1, <3>1, <3>2, <3>3, <3>4 DEF recompute_write
      <3> QED  BY <1>2, <2>1, <3>4 DEF recompute_write
    <2> QED  BY <1>2, <1>8, <2>1 DEF Migrate, recompute_start, recompute_scan
  <1>9. CASE Raise
    <2>1. ASSUME NEW t \in Threads, approve_commit(t) PROVE Goal
      <3> DEFINE j == job[t] n == grant_apply(row[j.at], j.arg)
      <3>1. j.at \in pooled /\ j.at \in Periods /\ j.arg \in Int
        BY <1>0, <2>1 DEF Base, TypeOK, JobOK, Pinned, approve_commit, Job
      <3>2. /\ n.limit = row[j.at].limit + j.arg /\ n.headroom = row[j.at].headroom + j.arg
            /\ n.reserved = row[j.at].reserved /\ n.settled = row[j.at].settled
        BY <1>0, <3>1 DEF TypeOK, Row, Move, grant_apply
      <3>3. CASE row' = [row EXCEPT ![j.at] = n]
        BY <1>3, <2>1, <3>1, <3>2, <3>3 DEF approve_commit
      <3> QED  BY <1>2, <2>1, <3>3 DEF approve_commit
    <2>2. ASSUME NEW t \in Threads, end_commit(t) PROVE Goal
      <3> DEFINE j == job[t] n == grant_revoke(row[j.at], j.arg) d == -j.arg
      <3>1. j.at \in pooled /\ j.at \in Periods /\ d \in Int
        BY <1>0, <2>2 DEF Base, TypeOK, JobOK, Endings, end_commit, Job
      <3>2. /\ n.limit = row[j.at].limit + d /\ n.headroom = row[j.at].headroom + d
            /\ n.reserved = row[j.at].reserved /\ n.settled = row[j.at].settled
        BY <1>0, <3>1 DEF TypeOK, Row, Move, grant_revoke
      <3>3. row' = [row EXCEPT ![j.at] = n] /\ pooled' = pooled
        BY <2>2 DEF end_commit
      <3> QED  BY <1>3, <3>1, <3>2, <3>3
    <2> QED
      BY <1>2, <1>9, <2>1, <2>2
      DEF Raise, file_request, reject_request, withdraw_request, approve_elapsed, approve_read,
          revoke_read, sweep_read, end_read, end_cancelled, bump_revoke_attempts,
          mark_revoke_blocked, clear_revoke_block
  <1>10. CASE tick \/ (\E t \in Threads : abandon(t)) \/ UNCHANGED vars
    BY <1>2, <1>10 DEF tick, abandon, vars
  <1> QED  BY <1>5, <1>6, <1>7, <1>8, <1>9, <1>10 DEF Next

-----------------------------------------------------------------------------
\* What a row counts as granted moves with exactly one of its grants.
GrantedMoves(p) ==
  \/ Live(p)' = Live(p) /\ row'[p].granted = row[p].granted
  \/ \E g \in GrantIds, n \in Nat :
       /\ Live(p)' = [Live(p) EXCEPT ![g] = n]
       /\ row'[p].granted = row[p].granted - Live(p)[g] + n

\* What the live grants of a month come to is counted in natural numbers.
LEMMA LiveTyped == ASSUME TypeOK, NEW p PROVE Live(p) \in [GrantIds -> Nat]
  BY DEF TypeOK, Live

\* Nothing that stands changes the sum it belongs to.
LEMMA LiveFramed ==
  ASSUME NEW p,
         \A g \in GrantIds : /\ Bears(g, p)' <=> Bears(g, p)
                             /\ Bears(g, p) => grant'[g].amount = grant[g].amount
  PROVE  Live(p)' = Live(p)
  BY DEF Live

\* Every step moves a row's granted sum by the grant that it moves.
LEMMA NextGranted == Base /\ [Next]_vars => \A p \in pooled : GrantedMoves(p)
  <1> SUFFICES ASSUME Base, [Next]_vars, NEW p \in pooled PROVE GrantedMoves(p)
    OBVIOUS
  <1>0. TypeOK /\ (\A t \in Threads : job[t] \in Job /\ JobOK(t)) /\ p \in Periods /\ row[p] \in Row
    BY DEF Base, TypeOK
  <1>1. CASE UNCHANGED <<row, grant>>
    BY <1>1 DEF GrantedMoves, Live, Bears
  <1>2. ASSUME NEW q \in Periods, NEW r, row' = [row EXCEPT ![q] = r], grant' = grant,
               q \in pooled => r.granted = row[q].granted
        PROVE  GrantedMoves(p)
    <2>1. row'[p].granted = row[p].granted
      BY <1>0, <1>2 DEF TypeOK
    <2> QED  BY <1>2, <2>1 DEF GrantedMoves, Live, Bears
  <1>3. CASE Spend
    <2>1. PICK q \in Periods, c \in Costs :
            reserve(q, c) \/ \E actual \in Costs : settle(q, c, actual)
      BY <1>3 DEF Spend
    <2>2. CASE reserve(q, c)
      <3> DEFINE r == [row[q] EXCEPT !.headroom = @ - c, !.reserved = @ + c]
      <3>1. r.granted = row[q].granted
        BY <1>0 DEF TypeOK, Row
      <3>2. row' = [row EXCEPT ![q] = r] /\ grant' = grant
        BY <2>2 DEF reserve
      <3> HIDE DEF r
      <3> QED  BY <1>2, <3>1, <3>2
    <2>3. ASSUME NEW actual \in Costs, settle(q, c, actual) PROVE GrantedMoves(p)
      <3> DEFINE r == [row[q] EXCEPT !.headroom = @ + c - actual, !.reserved = @ - c,
                                     !.settled = @ + actual]
      <3>1. r.granted = row[q].granted
        BY <1>0 DEF TypeOK, Row
      <3>2. row' = [row EXCEPT ![q] = r] /\ grant' = grant
        BY <2>3 DEF settle
      <3> HIDE DEF r
      <3> QED  BY <1>2, <3>1, <3>2
    <2> QED  BY <2>1, <2>2, <2>3
  <1>4. CASE Operate
    <2>1. ASSUME NEW q \in Periods, NEW f \in Figures, NEW s \in Statuses, set_absent(q, f, s)
          PROVE  GrantedMoves(p)
      BY <1>2, <2>1 DEF set_absent
    <2>2. ASSUME NEW t \in Threads, NEW s \in Statuses, set_write(t, s) PROVE GrantedMoves(p)
      <3> DEFINE j == job[t]
                 r == [Move(row[j.at], j.arg - baseline(j.seen))
                         EXCEPT !.manual = j.arg, !.status = s]
      <3>1. j.at \in Periods /\ r.granted = row[j.at].granted
        BY <1>0 DEF TypeOK, Row, Job, Move
      <3> QED  BY <1>1, <1>2, <2>2, <3>1 DEF set_write
    <2>3. ASSUME NEW t \in Threads, clear_write(t) PROVE GrantedMoves(p)
      <3> DEFINE j == job[t]
                 r == [Move(row[j.at], seat_term(j.seen) - baseline(j.seen))
                         EXCEPT !.manual = Follow]
      <3>1. j.at \in Periods /\ r.granted = row[j.at].granted
        BY <1>0 DEF TypeOK, Row, Job, Move
      <3> QED  BY <1>1, <1>2, <2>3, <3>1 DEF clear_write
    <2> QED  BY <1>1, <1>4, <2>1, <2>2, <2>3 DEF Operate, set_read, clear_read
  <1>5. CASE Staff
    <2>1. ASSUME NEW t \in Threads, roll_put(t) PROVE GrantedMoves(p)
      <3>1. row'[p] = row[p]
        BY <1>0, <2>1 DEF TypeOK, roll_put, Job
      <3> QED  BY <2>1, <3>1 DEF GrantedMoves, Live, Bears, roll_put
    <2>2. ASSUME NEW t \in Threads, seat_only_write(t) PROVE GrantedMoves(p)
      <3> DEFINE j == job[t] r == [row[j.at] EXCEPT !.seats = @ + j.arg]
      <3>1. j.at \in Periods /\ r.granted = row[j.at].granted
        BY <1>0 DEF TypeOK, Row, Job
      <3> QED  BY <1>2, <2>2, <3>1 DEF seat_only_write
    <2>3. ASSUME NEW t \in Threads, seat_money_write(t) PROVE GrantedMoves(p)
      <3> DEFINE j == job[t]
                 r == [Move(row[j.at], j.arg * j.seen.rate) EXCEPT !.seats = @ + j.arg]
      <3>1. j.at \in Periods /\ r.granted = row[j.at].granted
        BY <1>0 DEF TypeOK, Row, Job, Move
      <3> QED  BY <1>1, <1>2, <2>3, <3>1 DEF seat_money_write
    <2> QED
      BY <1>1, <1>5, <2>1, <2>2, <2>3
      DEF Staff, ensure, archive_membership, seat_delta, roll_read, roll_forward, seat_read
  <1>6. CASE Migrate
    <2>1. ASSUME NEW t \in Threads, recompute_write(t) PROVE GrantedMoves(p)
      <3>1. row'[p].granted = row[p].granted
        BY <1>0, <2>1 DEF TypeOK, recompute_write, Move, Job, Row
      <3> QED  BY <2>1, <3>1 DEF GrantedMoves, Live, Bears, recompute_write
    <2> QED  BY <1>1, <1>6, <2>1 DEF Migrate, recompute_start, recompute_scan
  <1>7. CASE Raise
    <2>1. ASSUME NEW t \in Threads, NEW g \in GrantIds, job[t].task = "approve",
                 grant[g].status = "none", grant_put(g, job[t]),
                 row' = [row EXCEPT ![job[t].at] = grant_apply(@, job[t].arg)]
          PROVE  GrantedMoves(p)
      <3> DEFINE a == job[t].arg
      <3>1. a \in Nat /\ a \in Int /\ job[t].at \in Periods
        BY <1>0, <2>1, Numbers DEF JobOK, Job
      <3>2. CASE job[t].at = p
        <4>1. row'[p].granted = row[p].granted + a
          BY <1>0, <2>1, <3>1, <3>2 DEF TypeOK, grant_apply, Move, Row
        <4>2. Live(p)[g] = 0
          BY <2>1 DEF Live, Bears
        <4>3. Live(p)' = [Live(p) EXCEPT ![g] = a]
          BY <1>0, <2>1, <3>2 DEF TypeOK, Live, Bears, grant_put
        <4>4. row'[p].granted = row[p].granted - Live(p)[g] + a
          BY <1>0, <3>1, <4>1, <4>2, RowFields
        <4> QED  BY <3>1, <4>3, <4>4 DEF GrantedMoves
      <3>3. CASE job[t].at # p
        <4>1. row'[p] = row[p]
          BY <1>0, <2>1, <3>1, <3>3 DEF TypeOK
        <4>2. Live(p)' = Live(p)
          BY <1>0, <2>1, <3>3 DEF TypeOK, Live, Bears, grant_put
        <4> QED  BY <4>1, <4>2 DEF GrantedMoves
      <3> QED  BY <3>2, <3>3
    <2>2. ASSUME NEW t \in Threads, end_commit(t) PROVE GrantedMoves(p)
      <3> DEFINE a == job[t].arg g == job[t].on
      <3>1. /\ a \in Nat /\ job[t].at \in Periods /\ g \in GrantIds
            /\ grant[g].at = job[t].at /\ grant[g].status = "ACTIVE" /\ grant[g].amount = a
            /\ grant' = [grant EXCEPT ![g].status =
                           IF job[t].task = "revoke" THEN "REVOKED" ELSE "EXPIRED"]
            /\ row' = [row EXCEPT ![job[t].at] = grant_revoke(@, a)]
        BY <1>0, <2>2 DEF JobOK, Job, Endings, end_commit, GrantHolds
      <3>2. CASE job[t].at = p
        <4>1. row'[p].granted = row[p].granted - a
          BY <1>0, <3>1, <3>2 DEF TypeOK, grant_revoke, Move, Row
        <4>2. Live(p)[g] = a
          BY <3>1, <3>2 DEF Live, Bears
        <4>3. Live(p)' = [Live(p) EXCEPT ![g] = 0]
          <5>1. PICK e \in GrantIds, s \in {"REVOKED", "EXPIRED"} :
                  e = g /\ grant' = [grant EXCEPT ![e].status = s]
            BY <3>1
          <5>2. /\ grant'[e].status = s
                /\ \A x \in GrantIds : x # e => grant'[x] = grant[x]
            BY <1>0, <5>1 DEF TypeOK
          <5>3. ~Bears(e, p)'
            BY <5>1, <5>2 DEF Bears
          <5>4. \A x \in GrantIds : x # e => (Bears(x, p)' <=> Bears(x, p))
            BY <5>2 DEF Bears
          <5>5. Live(p)' = [x \in GrantIds |-> IF x = e THEN 0 ELSE
                                               IF Bears(x, p) THEN grant[x].amount ELSE 0]
            BY <5>2, <5>3, <5>4 DEF Live
          <5>6. Live(p)' = [Live(p) EXCEPT ![e] = 0]
            BY <5>5 DEF Live
          <5> QED  BY <5>1, <5>6
        <4>4. row'[p].granted = row[p].granted - Live(p)[g] + 0
          BY <1>0, <3>1, <4>1, <4>2, RowFields
        <4> QED  BY <3>1, <4>3, <4>4 DEF GrantedMoves
      <3>3. CASE job[t].at # p
        <4>1. row'[p] = row[p]
          BY <1>0, <3>1, <3>3 DEF TypeOK
        <4>2. Live(p)' = Live(p)
          BY <1>0, <3>1, <3>3 DEF TypeOK, Live, Bears
        <4> QED  BY <4>1, <4>2 DEF GrantedMoves
      <3> QED  BY <3>2, <3>3
    <2>3. ASSUME NEW t \in Threads, bump_revoke_attempts(t) \/ mark_revoke_blocked(t)
          PROVE  GrantedMoves(p)
      <3>1. job[t].on \in GrantIds
        BY <1>0, <2>3 DEF JobOK, Endings, bump_revoke_attempts, mark_revoke_blocked
      <3>2. \A g \in GrantIds : /\ Bears(g, p)' <=> Bears(g, p)
                               /\ grant'[g].amount = grant[g].amount
        BY <1>0, <2>3, <3>1 DEF TypeOK, Bears, bump_revoke_attempts, mark_revoke_blocked
      <3>3. Live(p)' = Live(p)
        BY <3>2, LiveFramed
      <3> QED  BY <2>3, <3>3 DEF GrantedMoves, bump_revoke_attempts, mark_revoke_blocked
    <2>4. ASSUME NEW g \in GrantIds, clear_revoke_block(g) PROVE GrantedMoves(p)
      <3>1. Live(p)' = Live(p)
        BY <1>0, <2>4, LiveFramed DEF TypeOK, Bears, clear_revoke_block
      <3> QED  BY <2>4, <3>1 DEF GrantedMoves, clear_revoke_block
    <2>5. ASSUME NEW t \in Threads, approve_commit(t) PROVE GrantedMoves(p)
      BY <1>1, <2>1, <2>5 DEF approve_commit
    <2> QED
      BY <1>1, <1>7, <2>2, <2>3, <2>4, <2>5
      DEF Raise, file_request, reject_request, withdraw_request, approve_elapsed, approve_read,
          revoke_read, sweep_read, end_read, end_cancelled
  <1>8. CASE tick \/ (\E t \in Threads : abandon(t)) \/ UNCHANGED vars
    BY <1>1, <1>8 DEF tick, abandon, vars
  <1> QED  BY <1>3, <1>4, <1>5, <1>6, <1>7, <1>8 DEF Next

\* A step that puts a row touches no grant.
LEMMA NewRowHoldsNoGrant ==
  Base /\ [Next]_vars => \A p \in pooled' \ pooled : grant' = grant
  BY GrantsMoveBy

\* Every step keeps the granted sum of each row the sum of its live grants.
LEMMA NextLive == Base /\ GrantedIsLive /\ [Next]_vars => GrantedIsLive'
  <1> SUFFICES ASSUME Base, GrantedIsLive, [Next]_vars, NEW p \in pooled'
               PROVE  row'[p].granted = Total(Live(p)')
    BY DEF GrantedIsLive
  <1>1. CASE p \in pooled
    <2>1. row[p].granted = Total(Live(p)) /\ Live(p) \in [GrantIds -> Nat]
      BY <1>1, LiveTyped DEF GrantedIsLive, Base
    <2>2. ASSUME NEW g \in GrantIds, NEW n \in Nat, Live(p)' = [Live(p) EXCEPT ![g] = n]
          PROVE  Total(Live(p)') = Total(Live(p)) - Live(p)[g] + n
      <3>1. Total([Live(p) EXCEPT ![g] = n]) = Total(Live(p)) - Live(p)[g] + n
        <4>1. Live(p) \in [GrantIds -> Nat] /\ IsFiniteSet(GrantIds)
          BY <2>1, GrantsAssumption
        <4> DEFINE f == Live(p)
        <4> HIDE DEF f
        <4>2. Total([f EXCEPT ![g] = n]) = Total(f) - f[g] + n
          BY <4>1, TotalUpdate DEF f
        <4> QED  BY <4>2 DEF f
      <3> QED  BY <2>2, <3>1
    <2>3. GrantedMoves(p)
      BY <1>1, NextGranted
    <2> QED  BY <2>1, <2>2, <2>3 DEF GrantedMoves
  <1>2. CASE p \notin pooled
    <2>1. row'[p].granted = 0
      BY <1>2, NextRows DEF Fresh
    <2>2. Live(p)' = [g \in GrantIds |-> 0]
      <3>1. grant' = grant
        BY <1>2, NewRowHoldsNoGrant
      <3>2. \A g \in GrantIds : ~Bears(g, p)
        BY <1>2 DEF Base, GrantOK, Bears
      <3> QED  BY <3>1, <3>2 DEF Live, Bears
    <2> QED  BY <2>1, <2>2, TotalZero
  <1> QED  BY <1>1, <1>2

\* Every step keeps one grant to a request.
LEMMA NextOneGrant == Base /\ OneGrantPerRequest /\ [Next]_vars => OneGrantPerRequest'
  <1> SUFFICES ASSUME Base, OneGrantPerRequest, [Next]_vars PROVE OneGrantPerRequest'
    OBVIOUS
  <1>0. Kept
    BY NextKept
  <1>1. CASE \A g \in GrantIds : grant[g].status = "none" => grant'[g].status = "none"
    BY <1>0, <1>1 DEF Kept, OneGrantPerRequest
  <1>2. ASSUME NEW g \in GrantIds, grant[g].status = "none", grant'[g].status # "none"
        PROVE  OneGrantPerRequest'
    <2>1. PICK t \in Threads : approve_commit(t) /\ grant_put(g, job[t]) /\ decide(job[t].on, "APPROVED")
      BY <1>2, NewGrantIsApproved
    <2>2. grant'[g].request = job[t].on /\ \A h \in GrantIds : h # g => grant'[h] = grant[h]
      BY <2>1 DEF grant_put, Base, TypeOK
    <2>3. \A h \in GrantIds : grant[h].status # "none" => grant[h].request # job[t].on
      BY <2>1 DEF decide, Base, GrantOK
    <2> QED  BY <2>2, <2>3 DEF OneGrantPerRequest
  <1> QED  BY <1>1, <1>2

-----------------------------------------------------------------------------
(* The ceiling's composition needs more: what a thread read of a row and what *)
(* an open migration excludes.                                                *)

NoOverlap == Overlaps = {}

LimitInv ==
  /\ LimitIdentity
  /\ \A t \in Threads :
       LET j == job[t] IN
       /\ j.task = "seatonly" => row[j.at].manual # Follow
       /\ j.task = "recompute" => j.seen.manual = Follow
       /\ j.task \in {"set", "clear"} /\ NoGrantsPresent => j.seen.limit = baseline(j.seen)
  /\ MigrationOpen => NoGrantsPresent /\ ~InFlight({"approve"})

\* A month with no grant on it has a granted sum of zero.
LEMMA NothingGranted ==
  ASSUME GrantedIsLive, NoGrantsPresent, NEW p \in pooled PROVE row[p].granted = 0
  <1>1. Live(p) = [g \in GrantIds |-> 0]
    BY DEF NoGrantsPresent, Live, Bears
  <1> QED  BY <1>1, TotalZero DEF GrantedIsLive

\* A grant that exists never stops existing.
LEMMA GrantsStay == ASSUME Kept, NoGrantsPresent' PROVE NoGrantsPresent
  BY DEF Kept, NoGrantsPresent

\* How a step moves the composition of a row: by the job that read it, or not at all.
SameFigures(r, s) == s.seats = r.seats /\ s.manual = r.manual /\ s.rate = r.rate

SetMoves(j, r, s) ==
  /\ j.task = "set" /\ SameInputs(r, j.seen)
  /\ s.limit = r.limit + (j.arg - baseline(j.seen))
  /\ s.manual = j.arg /\ s.seats = r.seats /\ s.rate = r.rate

ClearMoves(j, r, s) ==
  /\ j.task = "clear" /\ SameInputs(r, j.seen)
  /\ "clear" \in Overlaps \/ ~SeatOnlyInFlight(j.at)
  /\ "rate" \in Overlaps \/ j.seen.rate = r.rate
  /\ s.limit = r.limit + (seat_term(j.seen) - baseline(j.seen))
  /\ s.manual = Follow /\ s.seats = r.seats /\ s.rate = r.rate

SeatOnlyMoves(j, r, s) ==
  /\ j.task = "seatonly"
  /\ s.limit = r.limit
  /\ s.seats = r.seats + j.arg /\ s.manual = r.manual /\ s.rate = r.rate

SeatMoneyMoves(j, r, s) ==
  /\ j.task = "seatmoney" /\ is_seat_tracked(r) /\ r.rate = j.seen.rate
  /\ s.limit = r.limit + j.arg * r.rate
  /\ s.seats = r.seats + j.arg /\ s.manual = r.manual /\ s.rate = r.rate

RecomputeMoves(j, r, s) ==
  /\ j.task = "recompute" /\ SameInputs(r, j.seen)
  /\ s.limit = r.limit + (j.seen.seats * j.arg - j.seen.limit)
  /\ s.rate = j.arg /\ s.seats = r.seats /\ s.manual = r.manual

JobMoves(j, r, s) ==
  /\ s.granted = r.granted
  /\ \/ SetMoves(j, r, s) \/ ClearMoves(j, r, s) \/ SeatOnlyMoves(j, r, s)
     \/ SeatMoneyMoves(j, r, s) \/ RecomputeMoves(j, r, s)

Moved(p) ==
  \/ SameFigures(row[p], row'[p]) /\ row'[p].limit - row'[p].granted = row[p].limit - row[p].granted
  \/ \E t \in Threads : job[t].at = p /\ JobMoves(job[t], row[p], row'[p])

\* Every step leaves a row's figures and its limit without the grants, or is the write of a job at that row.
LEMMA NextMoved == Base /\ [Next]_vars => \A p \in pooled : Moved(p)
  <1> SUFFICES ASSUME Base, [Next]_vars, NEW p \in pooled PROVE Moved(p)
    OBVIOUS
  <1>0. TypeOK /\ (\A t \in Threads : job[t] \in Job /\ JobOK(t)) /\ p \in Periods /\ row[p] \in Row
    BY DEF Base, TypeOK
  <1>1. CASE row'[p] = row[p]
    BY <1>0, <1>1 DEF Moved, SameFigures
  <1>2. ASSUME NEW q \in Periods, NEW r, row' = [row EXCEPT ![q] = r],
               SameFigures(row[q], r), r.limit - r.granted = row[q].limit - row[q].granted
        PROVE  Moved(p)
    <2>1. CASE p = q
      BY <1>0, <1>2, <2>1 DEF TypeOK, Moved
    <2>2. CASE p # q
      BY <1>0, <1>1, <1>2, <2>2 DEF TypeOK
    <2> QED  BY <2>1, <2>2
  <1>3. ASSUME NEW t \in Threads, NEW r, row' = [row EXCEPT ![job[t].at] = r],
               JobMoves(job[t], row[job[t].at], r)
        PROVE  Moved(p)
    <2>1. CASE p = job[t].at
      BY <1>0, <1>3, <2>1 DEF TypeOK, Moved
    <2>2. CASE p # job[t].at
      BY <1>0, <1>1, <1>3, <2>2 DEF TypeOK
    <2> QED  BY <2>1, <2>2
  <1>4. CASE Spend
    <2>1. PICK q \in Periods, c \in Costs :
            reserve(q, c) \/ \E actual \in Costs : settle(q, c, actual)
      BY <1>4 DEF Spend
    <2>2. row[q] \in Row
      BY <1>0 DEF TypeOK
    <2>3. CASE reserve(q, c)
      <3> DEFINE r == [row[q] EXCEPT !.headroom = @ - c, !.reserved = @ + c]
      <3>1. SameFigures(row[q], r) /\ r.limit - r.granted = row[q].limit - row[q].granted
        BY <2>2 DEF Row, SameFigures
      <3>2. row' = [row EXCEPT ![q] = r]
        BY <2>3 DEF reserve
      <3> HIDE DEF r
      <3> QED  BY <1>2, <3>1, <3>2
    <2>4. ASSUME NEW actual \in Costs, settle(q, c, actual) PROVE Moved(p)
      <3> DEFINE r == [row[q] EXCEPT !.headroom = @ + c - actual, !.reserved = @ - c,
                                     !.settled = @ + actual]
      <3>1. SameFigures(row[q], r) /\ r.limit - r.granted = row[q].limit - row[q].granted
        BY <2>2 DEF Row, SameFigures
      <3>2. row' = [row EXCEPT ![q] = r]
        BY <2>4 DEF settle
      <3> HIDE DEF r
      <3> QED  BY <1>2, <3>1, <3>2
    <2> QED  BY <2>1, <2>3, <2>4
  <1>5. CASE Operate
    <2>1. ASSUME NEW q \in Periods, NEW f \in Figures, NEW s \in Statuses, set_absent(q, f, s)
          PROVE  Moved(p)
      BY <1>0, <1>1, <2>1 DEF set_absent, TypeOK
    <2>2. ASSUME NEW t \in Threads, NEW s \in Statuses, set_write(t, s) PROVE Moved(p)
      <3> DEFINE j == job[t]
                 r == [Move(row[j.at], j.arg - baseline(j.seen))
                         EXCEPT !.manual = j.arg, !.status = s]
      <3>1. CASE SameInputs(row[j.at], j.seen)
        <4>1. JobMoves(j, row[j.at], r)
          BY <1>0, <2>2, <3>1 DEF TypeOK, Row, Job, Move, JobMoves, SetMoves, set_write
        <4>2. row' = [row EXCEPT ![j.at] = r]
          BY <2>2, <3>1 DEF set_write
        <4> HIDE DEF r
        <4> QED  BY <1>3, <4>1, <4>2
      <3> QED  BY <1>1, <2>2, <3>1 DEF set_write
    <2>3. ASSUME NEW t \in Threads, clear_write(t) PROVE Moved(p)
      <3> DEFINE j == job[t]
                 r == [Move(row[j.at], seat_term(j.seen) - baseline(j.seen))
                         EXCEPT !.manual = Follow]
      <3>1. CASE SameInputs(row[j.at], j.seen)
        <4>1. JobMoves(j, row[j.at], r)
          BY <1>0, <2>3, <3>1 DEF TypeOK, Row, Job, Move, JobMoves, ClearMoves, clear_write
        <4>2. row' = [row EXCEPT ![j.at] = r]
          BY <2>3, <3>1 DEF clear_write
        <4> HIDE DEF r
        <4> QED  BY <1>3, <4>1, <4>2
      <3> QED  BY <1>1, <2>3, <3>1 DEF clear_write
    <2> QED  BY <1>1, <1>5, <2>1, <2>2, <2>3 DEF Operate, set_read, clear_read
  <1>6. CASE Staff
    <2>1. ASSUME NEW t \in Threads, roll_put(t) PROVE Moved(p)
      BY <1>0, <1>1, <2>1 DEF TypeOK, roll_put, Job
    <2>2. ASSUME NEW t \in Threads, seat_only_write(t) PROVE Moved(p)
      <3> DEFINE j == job[t] r == [row[j.at] EXCEPT !.seats = @ + j.arg]
      <3>1. JobMoves(j, row[j.at], r)
        BY <1>0, <2>2 DEF TypeOK, Row, Job, JobMoves, SeatOnlyMoves, seat_only_write
      <3>2. row' = [row EXCEPT ![j.at] = r]
        BY <2>2 DEF seat_only_write
      <3> HIDE DEF r
      <3> QED  BY <1>3, <3>1, <3>2
    <2>3. ASSUME NEW t \in Threads, seat_money_write(t) PROVE Moved(p)
      <3> DEFINE j == job[t]
                 r == [Move(row[j.at], j.arg * j.seen.rate) EXCEPT !.seats = @ + j.arg]
      <3>1. CASE is_seat_tracked(row[j.at]) /\ row[j.at].rate = j.seen.rate
        <4>1. JobMoves(j, row[j.at], r)
          BY <1>0, <2>3, <3>1 DEF TypeOK, Row, Job, Move, JobMoves, SeatMoneyMoves, seat_money_write
        <4>2. row' = [row EXCEPT ![j.at] = r]
          BY <2>3, <3>1 DEF seat_money_write
        <4> HIDE DEF r
        <4> QED  BY <1>3, <4>1, <4>2
      <3> QED  BY <1>1, <2>3, <3>1 DEF seat_money_write
    <2> QED
      BY <1>1, <1>6, <2>1, <2>2, <2>3
      DEF Staff, ensure, archive_membership, seat_delta, roll_read, roll_forward, seat_read
  <1>7. CASE Migrate
    <2>1. ASSUME NEW t \in Threads, recompute_write(t) PROVE Moved(p)
      <3> DEFINE j == job[t]
                 r == [Move(row[j.at], j.seen.seats * j.arg - j.seen.limit) EXCEPT !.rate = j.arg]
      <3>1. CASE SameInputs(row[j.at], j.seen)
        <4>1. JobMoves(j, row[j.at], r)
          BY <1>0, <2>1, <3>1 DEF TypeOK, Row, Job, Move, JobMoves, RecomputeMoves, recompute_write
        <4>2. row' = [row EXCEPT ![j.at] = r]
          BY <2>1, <3>1 DEF recompute_write
        <4> HIDE DEF r
        <4> QED  BY <1>3, <4>1, <4>2
      <3> QED  BY <1>1, <2>1, <3>1 DEF recompute_write
    <2> QED  BY <1>1, <1>7, <2>1 DEF Migrate, recompute_start, recompute_scan
  <1>8. CASE Raise
    <2>1. ASSUME NEW t \in Threads, approve_commit(t) PROVE Moved(p)
      <3> DEFINE j == job[t] r == grant_apply(row[j.at], j.arg)
      <3>1. j.at \in Periods /\ j.arg \in Int /\ row[j.at] \in Row
        BY <1>0 DEF Job, TypeOK
      <3>2. /\ r.limit = row[j.at].limit + j.arg /\ r.granted = row[j.at].granted + j.arg
            /\ SameFigures(row[j.at], r)
        BY <3>1 DEF Row, grant_apply, Move, SameFigures
      <3>3. r.limit - r.granted = row[j.at].limit - row[j.at].granted
        BY <3>1, <3>2, RowFields
      <3>4. CASE row' = [row EXCEPT ![j.at] = r]
        <4> HIDE DEF r
        <4> QED  BY <1>2, <3>1, <3>2, <3>3, <3>4
      <3> QED  BY <1>1, <2>1, <3>4 DEF approve_commit
    <2>2. ASSUME NEW t \in Threads, end_commit(t) PROVE Moved(p)
      <3> DEFINE j == job[t] r == grant_revoke(row[j.at], j.arg)
      <3>1. j.at \in Periods /\ j.arg \in Int /\ row[j.at] \in Row
        BY <1>0 DEF Job, TypeOK
      <3>2. /\ r.limit = row[j.at].limit + (-j.arg) /\ r.granted = row[j.at].granted - j.arg
            /\ SameFigures(row[j.at], r)
        BY <3>1 DEF Row, grant_revoke, Move, SameFigures
      <3>3. r.limit - r.granted = row[j.at].limit - row[j.at].granted
        BY <3>1, <3>2, RowFields
      <3>4. row' = [row EXCEPT ![j.at] = r]
        BY <2>2 DEF end_commit
      <3> HIDE DEF r
      <3> QED  BY <1>2, <3>1, <3>2, <3>3, <3>4
    <2> QED
      BY <1>1, <1>8, <2>1, <2>2
      DEF Raise, file_request, reject_request, withdraw_request, approve_elapsed, approve_read,
          revoke_read, sweep_read, end_read, end_cancelled, bump_revoke_attempts,
          mark_revoke_blocked, clear_revoke_block
  <1>9. CASE tick \/ (\E t \in Threads : abandon(t)) \/ UNCHANGED vars
    BY <1>1, <1>9 DEF tick, abandon, vars
  <1> QED  BY <1>4, <1>5, <1>6, <1>7, <1>8, <1>9 DEF Next

\* What Work, Finish and Become do to one thread's job, and that they do it to no other.
LEMMA WorkIs ==
  ASSUME job \in [Threads -> Job], NEW t \in Threads, NEW u \in Threads, NEW task, NEW p, NEW arg,
         NEW seen, NEW on, Work(t, task, p, arg, seen, on), job'[u] # job[u]
  PROVE  /\ u = t
         /\ job'[u].task = task /\ job'[u].at = p /\ job'[u].arg = arg /\ job'[u].seen = seen
  BY DEF Work

\* A thread that finishes changes its own job only, to idle.
LEMMA FinishIs ==
  ASSUME job \in [Threads -> Job], NEW t \in Threads, NEW u \in Threads, Finish(t), job'[u] # job[u]
  PROVE  u = t /\ job'[u].task = "idle"
  BY DEF Finish, Idle

\* A thread that goes on changes its own job only, and stays at its row.
LEMMA BecomeIs ==
  ASSUME job \in [Threads -> Job], NEW t \in Threads, NEW u \in Threads, NEW task,
         Become(t, task), job'[u] # job[u]
  PROVE  u = t /\ job'[u].task = task /\ job'[u].at = job[u].at
  BY DEF Become, Job

Quiet == {"idle", "seat", "roll", "seatmoney"} \cup Endings

\* How a thread comes to hold a job that the ceiling's composition rests on.
LEMMA NextJob ==
  ASSUME Base, [Next]_vars, NEW u \in Threads, job'[u] # job[u]
  PROVE  \/ job'[u].task \in Quiet
         \/ /\ job'[u].task = "seatonly" /\ row' = row
            /\ job'[u].at \in pooled /\ ~is_seat_tracked(row[job'[u].at])
         \/ \E p \in Periods, f \in Figures : set_read(u, p, f)
         \/ \E p \in Periods : clear_read(u, p)
         \/ \E r \in Rates : recompute_start(u, r)
         \/ \E p \in Periods : recompute_scan(u, p)
         \/ recompute_write(u)
         \/ \E r \in Requests, a \in Amounts : approve_read(u, r, a)
  <1> DEFINE Goal == \/ job'[u].task \in Quiet
                     \/ /\ job'[u].task = "seatonly" /\ row' = row
                        /\ job'[u].at \in pooled /\ ~is_seat_tracked(row[job'[u].at])
                     \/ \E p \in Periods, f \in Figures : set_read(u, p, f)
                     \/ \E p \in Periods : clear_read(u, p)
                     \/ \E r \in Rates : recompute_start(u, r)
                     \/ \E p \in Periods : recompute_scan(u, p)
                     \/ recompute_write(u)
                     \/ \E r \in Requests, a \in Amounts : approve_read(u, r, a)
  <1>0. job \in [Threads -> Job]
    BY DEF Base, TypeOK
  <1>1. ASSUME NEW t \in Threads, Finish(t) PROVE Goal
    BY <1>0, <1>1, FinishIs DEF Quiet
  <1>2. ASSUME NEW t \in Threads, NEW k \in Quiet, Become(t, k) PROVE Goal
    BY <1>0, <1>2, BecomeIs
  <1>3. ASSUME NEW t \in Threads, NEW k \in Quiet, NEW p, NEW arg, NEW seen, NEW on,
               Work(t, k, p, arg, seen, on)
        PROVE  Goal
    BY <1>0, <1>3, WorkIs
  <1>4. CASE Spend
    BY <1>4, SpendFrame
  <1>5. CASE Operate
    <2>1. ASSUME NEW t \in Threads, NEW p \in Periods, NEW f \in Figures, set_read(t, p, f)
          PROVE  Goal
      <3>1. u = t
        BY <1>0, <2>1, WorkIs DEF set_read, Begin
      <3> QED  BY <2>1, <3>1
    <2>2. ASSUME NEW t \in Threads, NEW p \in Periods, clear_read(t, p) PROVE Goal
      <3>1. u = t
        BY <1>0, <2>2, WorkIs DEF clear_read, Begin
      <3> QED  BY <2>2, <3>1
    <2>3. ASSUME NEW t \in Threads, clear_write(t) \/ \E s \in Statuses : set_write(t, s)
          PROVE  Goal
      BY <1>1, <2>3 DEF clear_write, set_write
    <2> QED  BY <1>5, <2>1, <2>2, <2>3 DEF Operate, set_absent
  <1>6. CASE Staff
    <2>1. ASSUME NEW t \in Threads,
                 ensure(t) \/ archive_membership(t) \/ roll_read(t) \/ roll_forward(t)
          PROVE  Goal
      BY <1>3, <2>1
      DEF Quiet, ensure, archive_membership, seat_delta, roll_read, roll_forward, Begin
    <2>2. ASSUME NEW t \in Threads, roll_put(t) \/ seat_only_write(t) \/ seat_money_write(t)
          PROVE  Goal
      <3>1. Finish(t) \/ Become(t, "seat")
        BY <2>2 DEF roll_put, seat_only_write, seat_money_write
      <3> QED  BY <1>1, <1>2, <3>1 DEF Quiet
    <2>3. ASSUME NEW t \in Threads, seat_read(t) PROVE Goal
      <3>1. CASE Finish(t) \/ Work(t, "seatmoney", job[t].at, job[t].arg, RateOf(row[job[t].at]), NoOne)
        BY <1>1, <1>3, <3>1 DEF Quiet
      <3>2. CASE Become(t, "seatonly") /\ job[t].at \in pooled /\ ~is_seat_tracked(row[job[t].at])
        <4>1. u = t /\ job'[u].task = "seatonly" /\ job'[u].at = job[t].at
          BY <1>0, <3>2, BecomeIs
        <4> QED  BY <2>3, <3>2, <4>1 DEF seat_read
      <3> QED  BY <2>3, <3>1, <3>2 DEF seat_read
    <2> QED  BY <1>6, <2>1, <2>2, <2>3 DEF Staff
  <1>7. CASE Migrate
    <2>1. ASSUME NEW t \in Threads, NEW r \in Rates, recompute_start(t, r) PROVE Goal
      <3>1. u = t
        BY <1>0, <2>1, WorkIs DEF recompute_start, Begin
      <3> QED  BY <2>1, <3>1
    <2>2. ASSUME NEW t \in Threads, NEW p \in Periods, recompute_scan(t, p) PROVE Goal
      <3>1. u = t
        BY <1>0, <2>2, WorkIs DEF recompute_scan
      <3> QED  BY <2>2, <3>1
    <2>3. ASSUME NEW t \in Threads, recompute_write(t) PROVE Goal
      <3>1. u = t
        BY <1>0, <2>3, BecomeIs DEF recompute_write
      <3> QED  BY <2>3, <3>1
    <2> QED  BY <1>7, <2>1, <2>2, <2>3 DEF Migrate
  <1>8. CASE Raise
    <2>1. ASSUME NEW t \in Threads, NEW r \in Requests, NEW a \in Amounts, approve_read(t, r, a)
          PROVE  Goal
      <3>1. u = t
        BY <1>0, <2>1, WorkIs DEF approve_read, Begin
      <3> QED  BY <2>1, <3>1
    <2>2. ASSUME NEW t \in Threads, NEW g \in GrantIds, revoke_read(t, g) \/ sweep_read(t, g)
          PROVE  Goal
      BY <1>3, <2>2 DEF Quiet, Endings, revoke_read, sweep_read, end_read, Begin
    <2>3. ASSUME NEW t \in Threads,
                 \/ approve_commit(t) \/ end_commit(t) \/ end_cancelled(t)
                 \/ bump_revoke_attempts(t) \/ mark_revoke_blocked(t)
          PROVE  Goal
      <3>1. Finish(t) \/ Become(t, "bump") \/ Become(t, "block")
        BY <2>3 DEF approve_commit, end_commit, end_cancelled, bump_revoke_attempts,
                    mark_revoke_blocked
      <3> QED  BY <1>1, <1>2, <3>1 DEF Quiet, Endings
    <2> QED
      BY <1>8, <2>1, <2>2, <2>3
      DEF Raise, file_request, reject_request, withdraw_request, approve_elapsed, clear_revoke_block
  <1>9. CASE tick \/ UNCHANGED vars
    BY <1>9 DEF tick, vars
  <1>10. ASSUME NEW t \in Threads, abandon(t) PROVE Goal
    BY <1>1, <1>10 DEF abandon
  <1> QED  BY <1>4, <1>5, <1>6, <1>7, <1>8, <1>9, <1>10 DEF Next

\* A rate that was read is the row's, until a migration runs.
LEMMA NextOpen ==
  ASSUME Base, [Next]_vars, ~MigrationOpen, MigrationOpen'
  PROVE  \E t \in Threads, r \in Rates : recompute_start(t, r)
  <1>0. Kept /\ TypeOK /\ (\A t \in Threads : JobOK(t)) /\ job \in [Threads -> Job]
    BY NextKept DEF Base, TypeOK
  <1>1. \A t \in Threads : job[t].task \notin {"scan", "recompute"}
    BY DEF MigrationOpen, InFlight
  <1>2. ASSUME NEW p \in pooled PROVE row'[p].rate = row[p].rate
    <2>1. Moved(p)
      BY NextMoved
    <2> QED  BY <1>1, <2>1 DEF Moved, SameFigures, JobMoves, SetMoves, ClearMoves, SeatOnlyMoves,
                           SeatMoneyMoves, RecomputeMoves
  <1>3. PICK u \in Threads :
          \/ job'[u].task \in {"scan", "recompute"}
          \/ /\ job'[u].task \in {"set", "clear"}
             /\ job'[u].seen.rate # row'[job'[u].at].rate
    BY DEF MigrationOpen, InFlight
  <1>4. CASE job'[u] = job[u]
    <2>1. job[u].task \in {"set", "clear"} /\ job[u].at \in pooled
      BY <1>0, <1>1, <1>3, <1>4 DEF JobOK, Pinned
    <2> QED  BY <1>2, <1>3, <1>4, <2>1 DEF MigrationOpen
  <1>5. CASE job'[u] # job[u]
    <2>1. job'[u].task \notin Quiet \cup {"seatonly"}
      BY <1>3 DEF Quiet, Endings
    <2>2. ASSUME NEW p \in Periods, \/ \E f \in Figures : set_read(u, p, f)
                                    \/ clear_read(u, p)
          PROVE  FALSE
      <3>1. job'[u].seen = Inputs(row[p]) /\ job'[u].at = p
        BY <1>0, <1>5, <2>2, WorkIs DEF set_read, clear_read, Begin
      <3>2. Inputs(row[p]).rate = row[p].rate /\ row' = row
        BY <2>2 DEF Inputs, EmptyRow, seed_pool_row, set_read, clear_read
      <3>3. job'[u].task \in {"set", "clear"}
        BY <1>0, <1>5, <2>2, WorkIs DEF set_read, clear_read, Begin
      <3> QED  BY <1>3, <3>1, <3>2, <3>3
    <2>3. ASSUME NEW r \in Requests, NEW a \in Amounts, approve_read(u, r, a) PROVE FALSE
      BY <1>0, <1>3, <1>5, <2>3, WorkIs DEF approve_read, Begin
    <2> QED
      BY <1>1, <1>5, <2>1, <2>2, <2>3, NextJob DEF recompute_scan, recompute_write
  <1> QED  BY <1>4, <1>5

\* No raise is read while one is open.
LEMMA NextApprovals ==
  ASSUME NoOverlap, Base, [Next]_vars, MigrationOpen, ~InFlight({"approve"})
  PROVE  ~InFlight({"approve"})'
  <1> SUFFICES ASSUME NEW u \in Threads, job'[u].task = "approve" PROVE FALSE
    BY DEF InFlight
  <1>1. job[u].task # "approve" /\ job'[u] # job[u]
    BY DEF InFlight
  <1>2. job \in [Threads -> Job]
    BY DEF Base, TypeOK
  <1>3. ASSUME NEW p \in Periods, \/ \E f \in Figures : set_read(u, p, f)
                                  \/ clear_read(u, p)
                                  \/ recompute_scan(u, p)
        PROVE  FALSE
    BY <1>1, <1>2, <1>3, WorkIs DEF set_read, clear_read, recompute_scan, Begin
  <1>4. ASSUME NEW r \in Rates, recompute_start(u, r) PROVE FALSE
    BY <1>1, <1>2, <1>4, WorkIs DEF recompute_start, Begin
  <1>5. ASSUME recompute_write(u) PROVE FALSE
    BY <1>1, <1>2, <1>5, BecomeIs DEF recompute_write
  <1>6. ASSUME NEW r \in Requests, NEW a \in Amounts, approve_read(u, r, a) PROVE FALSE
    BY <1>6 DEF NoOverlap, approve_read
  <1> QED  BY <1>1, <1>3, <1>4, <1>5, <1>6, NextJob DEF Quiet, Endings

\* While a migration is open nothing is granted, and nobody is about to grant.
LEMMA NextExcludes ==
  ASSUME NoOverlap, Base, LimitInv, [Next]_vars, MigrationOpen'
  PROVE  NoGrantsPresent' /\ ~InFlight({"approve"})'
  <1>1. CASE MigrationOpen
    <2>1. NoGrantsPresent /\ ~InFlight({"approve"})
      BY <1>1 DEF LimitInv
    <2>2. NoGrantsPresent'
      BY <2>1, NewGrantIsApproved DEF NoGrantsPresent, approve_commit, InFlight
    <2> QED  BY <1>1, <2>1, <2>2, NextApprovals
  <1>2. CASE ~MigrationOpen
    <2>1. PICK t \in Threads, r \in Rates : recompute_start(t, r)
      BY <1>2, NextOpen
    <2>2. NoGrantsPresent /\ ~InFlight({"approve"}) /\ grant' = grant
      BY <2>1 DEF NoOverlap, recompute_start
    <2>3. ASSUME NEW u \in Threads PROVE job'[u].task # "approve"
      <3>1. CASE job'[u] = job[u]
        BY <2>2, <3>1 DEF InFlight
      <3>2. CASE job'[u] # job[u]
        BY <2>1, <3>2, WorkIs DEF recompute_start, Begin, Base, TypeOK
      <3> QED  BY <3>1, <3>2
    <2> QED  BY <2>2, <2>3 DEF NoGrantsPresent, InFlight
  <1> QED  BY <1>1, <1>2

\* What a thread of the ceiling's composition knows.
JobKnows(t) ==
  LET j == job[t] IN
  /\ j.task = "seatonly" => row[j.at].manual # Follow
  /\ j.task = "recompute" => j.seen.manual = Follow
  /\ j.task \in {"set", "clear"} /\ NoGrantsPresent => j.seen.limit = baseline(j.seen)

\* What a resolve reads keeps the limit, the figure and the baseline of the row.
LEMMA InputsKeep ==
  ASSUME NEW r
  PROVE  /\ Inputs(r).limit = r.limit /\ Inputs(r).manual = r.manual
         /\ baseline(Inputs(r)) = baseline(r)
  BY DEF Inputs, EmptyRow, seed_pool_row, baseline, is_seat_tracked, seat_term

\* Every step leaves true what each job concluded from its read.
LEMMA NextKnows ==
  ASSUME NoOverlap, Base, GrantedIsLive, LimitInv, [Next]_vars, NEW u \in Threads
  PROVE  JobKnows(u)'
  <1>0. Kept /\ JobOK(u) /\ JobKnows(u) /\ job \in [Threads -> Job]
    BY NextKept DEF Base, LimitInv, JobKnows, TypeOK
  <1>1. CASE job'[u] = job[u]
    <2>1. ASSUME job[u].task = "seatonly" PROVE row'[job[u].at].manual # Follow
      <3> DEFINE p == job[u].at
      <3>1. p \in pooled /\ Moved(p) /\ row[p].manual # Follow
        BY <1>0, <2>1, NextMoved DEF JobOK, JobKnows, Pinned
      <3>2. SeatOnlyInFlight(p)
        BY <2>1 DEF SeatOnlyInFlight
      <3>3. \A t \in Threads : job[t].task = "set" => job[t].arg # Follow
        BY FiguresAssumption DEF Base, JobOK, Follow
      <3> QED  BY <3>1, <3>2, <3>3
               DEF Moved, SameFigures, JobMoves, SetMoves, ClearMoves, SeatOnlyMoves,
                   SeatMoneyMoves, RecomputeMoves, NoOverlap
    <2>2. NoGrantsPresent' => NoGrantsPresent
      BY <1>0, GrantsStay
    <2> QED  BY <1>0, <1>1, <2>1, <2>2 DEF JobKnows
  <1>2. CASE job'[u] # job[u]
    <2>1. ASSUME NEW p \in Periods, \/ \E f \in Figures : set_read(u, p, f)
                                    \/ clear_read(u, p)
          PROVE  JobKnows(u)'
      <3>1. /\ job'[u].seen = Inputs(row[p]) /\ job'[u].task \in {"set", "clear"}
            /\ p \in pooled
        BY <1>0, <1>2, <2>1, WorkIs DEF set_read, clear_read, Begin
      <3>2. NoGrantsPresent' => row[p].limit = baseline(row[p])
        <4>1. row[p].limit = baseline(row[p]) + row[p].granted /\ row[p] \in Row
          BY <3>1 DEF LimitInv, LimitIdentity, Base, TypeOK
        <4>2. NoGrantsPresent' => row[p].granted = 0
          BY <1>0, <3>1, GrantsStay, NothingGranted
        <4> QED  BY <4>1, <4>2, BaselineInt
      <3> QED  BY <3>1, <3>2, InputsKeep DEF JobKnows
    <2>2. ASSUME NEW p \in Periods, recompute_scan(u, p) PROVE JobKnows(u)'
      <3>1. job'[u].seen = Inputs(row[p]) /\ job'[u].task = "recompute"
        BY <1>0, <1>2, <2>2, WorkIs DEF recompute_scan
      <3> QED  BY <2>2, <3>1, InputsKeep DEF JobKnows, recompute_scan, is_seat_tracked
    <2>3. ASSUME NEW r \in Rates, recompute_start(u, r) PROVE JobKnows(u)'
      BY <1>0, <1>2, <2>3, WorkIs DEF recompute_start, Begin, JobKnows
    <2>4. ASSUME recompute_write(u) PROVE JobKnows(u)'
      BY <1>0, <1>2, <2>4, BecomeIs DEF recompute_write, JobKnows
    <2>5. ASSUME NEW r \in Requests, NEW a \in Amounts, approve_read(u, r, a) PROVE JobKnows(u)'
      BY <1>0, <1>2, <2>5, WorkIs DEF approve_read, Begin, JobKnows
    <2>6. ASSUME job'[u].task = "seatonly", row' = row, ~is_seat_tracked(row[job'[u].at])
          PROVE  JobKnows(u)'
      BY <2>6 DEF JobKnows, is_seat_tracked
    <2>7. ASSUME job'[u].task \in Quiet PROVE JobKnows(u)'
      BY <2>7 DEF JobKnows, Quiet, Endings
    <2> QED  BY <1>2, <2>1, <2>2, <2>3, <2>4, <2>5, <2>6, <2>7, NextJob
  <1> QED  BY <1>1, <1>2

\* The baseline that a figure's writer computes its delta from is the row's, even when a
\* migration replaced the rate meanwhile: then nothing is granted, and the same limit
\* is the same baseline.
LEMMA SeenBaseline ==
  ASSUME Base, GrantedIsLive, LimitInv, NEW t \in Threads, job[t].task \in {"set", "clear"},
         SameInputs(row[job[t].at], job[t].seen)
  PROVE  baseline(job[t].seen) = baseline(row[job[t].at])
  <1> DEFINE j == job[t] r == row[j.at]
  <1>1. j.at \in pooled /\ r \in Row /\ j.seen \in Row
    BY DEF Base, JobOK, Pinned, TypeOK, Job
  <1>2. r.limit = baseline(r) + r.granted
    BY <1>1 DEF LimitInv, LimitIdentity
  <1>3. CASE j.seen.rate = r.rate
    BY <1>3 DEF SameInputs, baseline, seat_term, is_seat_tracked
  <1>4. CASE j.seen.rate # r.rate
    <2>1. NoGrantsPresent
      BY <1>4 DEF LimitInv, MigrationOpen
    <2>2. r.granted = 0 /\ j.seen.limit = baseline(j.seen)
      BY <1>1, <2>1, NothingGranted DEF LimitInv
    <2>3. baseline(r) \in Int /\ baseline(j.seen) \in Int /\ r.limit = j.seen.limit
      BY <1>1, BaselineInt DEF SameInputs
    <2> HIDE DEF r, j
    <2>4. baseline(j.seen) = baseline(r)
      BY <1>2, <2>2, <2>3
    <2> QED  BY <2>4 DEF r, j
  <1> QED  BY <1>3, <1>4

\* Every step keeps the limit its baseline and its grants.
LEMMA NextLimit ==
  ASSUME NoOverlap, Base, GrantedIsLive, LimitInv, [Next]_vars
  PROVE  LimitIdentity'
  <1> SUFFICES ASSUME NEW p \in pooled'
               PROVE  row'[p].limit = baseline(row'[p]) + row'[p].granted
    BY DEF LimitIdentity, baseline, is_seat_tracked, seat_term
  <1> DEFINE r == row[p] s == row'[p]
  <1>0. s \in Row /\ baseline(s) \in Int
    BY NextTyped, BaselineInt DEF TypeOK
  <1>1. CASE p \notin pooled
    BY <1>0, <1>1, NextRows DEF Fresh
  <1>2. CASE p \in pooled
    <2>0. /\ r \in Row /\ r.limit = baseline(r) + r.granted
          /\ baseline(r) \in Int /\ r.limit \in Int /\ r.granted \in Int
          /\ s.limit \in Int /\ s.granted \in Int
      BY <1>0, <1>2, BaselineInt, RowFields DEF Base, TypeOK, LimitInv, LimitIdentity
    <2>1. CASE SameFigures(r, s) /\ s.limit - s.granted = r.limit - r.granted
      <3>1. baseline(s) = baseline(r)
        BY <2>1 DEF SameFigures, baseline, seat_term, is_seat_tracked
      <3> QED  BY <2>0, <2>1, <3>1
    <2>2. ASSUME NEW t \in Threads, job[t].at = p, JobMoves(job[t], r, s)
          PROVE  s.limit = baseline(s) + s.granted
      <3> DEFINE j == job[t]
      <3>0. /\ j \in Job /\ j.arg \in Int /\ j.seen \in Row /\ baseline(j.seen) \in Int
            /\ JobOK(t) /\ JobKnows(t) /\ s.granted = r.granted
        BY <2>2, BaselineInt DEF Base, TypeOK, Job, JobMoves, LimitInv, JobKnows
      <3>1. CASE SetMoves(j, r, s)
        <4>1. baseline(j.seen) = baseline(r)
          BY <2>2, <3>1, SeenBaseline DEF SetMoves
        <4>2. baseline(s) = j.arg
          BY <3>0, <3>1, FiguresAssumption DEF SetMoves, JobOK, baseline, is_seat_tracked, Follow
        <4>3. s.limit = r.limit + (j.arg - baseline(j.seen))
          BY <3>1 DEF SetMoves
        <4> HIDE DEF r, s, j
        <4> QED  BY <2>0, <3>0, <4>1, <4>2, <4>3
      <3>2. CASE ClearMoves(j, r, s)
        <4>1. baseline(j.seen) = baseline(r)
          BY <2>2, <3>2, SeenBaseline DEF ClearMoves
        <4>2. baseline(s) = seat_term(j.seen)
          BY <2>2, <3>2 DEF NoOverlap, ClearMoves, SameInputs, baseline, seat_term, is_seat_tracked
        <4>3. s.limit = r.limit + (seat_term(j.seen) - baseline(j.seen))
          BY <3>2 DEF ClearMoves
        <4>4. seat_term(j.seen) \in Int
          BY <3>0, BaselineInt
        <4> HIDE DEF r, s, j
        <4> QED  BY <2>0, <3>0, <4>1, <4>2, <4>3, <4>4
      <3>3. CASE SeatOnlyMoves(j, r, s)
        <4>1. r.manual # Follow
          BY <2>2, <3>0, <3>3 DEF JobKnows, SeatOnlyMoves
        <4>2. baseline(s) = baseline(r) /\ s.limit = r.limit
          BY <3>3, <4>1 DEF SeatOnlyMoves, baseline, is_seat_tracked
        <4> QED  BY <2>0, <3>0, <4>2
      <3>4. CASE SeatMoneyMoves(j, r, s)
        <4>1. r.seats \in Int /\ r.rate \in Int
          BY <2>0, RowFields
        <4>2. baseline(r) = r.seats * r.rate /\ baseline(s) = (r.seats + j.arg) * r.rate
          BY <3>4 DEF SeatMoneyMoves, baseline, is_seat_tracked, seat_term
        <4>3. (r.seats + j.arg) * r.rate = r.seats * r.rate + j.arg * r.rate
          BY <3>0, <4>1
        <4>4. s.limit = r.limit + j.arg * r.rate
          BY <3>4 DEF SeatMoneyMoves
        <4>5. r.seats * r.rate \in Int /\ j.arg * r.rate \in Int
          BY <3>0, <4>1
        <4> HIDE DEF r, s, j
        <4> QED  BY <2>0, <3>0, <4>2, <4>3, <4>4, <4>5
      <3>5. CASE RecomputeMoves(j, r, s)
        <4>1. NoGrantsPresent
          BY <2>2, <3>5 DEF RecomputeMoves, LimitInv, MigrationOpen, InFlight
        <4>2. r.granted = 0
          BY <1>2, <4>1, NothingGranted
        <4>3. /\ r.limit = j.seen.limit /\ s.limit = r.limit + (j.seen.seats * j.arg - j.seen.limit)
              /\ baseline(s) = j.seen.seats * j.arg
          BY <2>2, <3>0, <3>5
          DEF RecomputeMoves, SameInputs, JobKnows, baseline, is_seat_tracked, seat_term
        <4>4. j.seen.seats \in Int /\ j.seen.limit \in Int /\ j.seen.seats * j.arg \in Int
          BY <3>0, RowFields
        <4> HIDE DEF r, s, j
        <4> QED  BY <2>0, <3>0, <4>2, <4>3, <4>4
      <3> QED  BY <2>2, <3>1, <3>2, <3>3, <3>4, <3>5 DEF JobMoves
    <2> QED  BY <1>2, <2>1, <2>2, NextMoved DEF Moved
  <1> QED  BY <1>1, <1>2

\* With what the jobs know, that is inductive.
LEMMA NextLimitInv ==
  ASSUME NoOverlap, Base, GrantedIsLive, LimitInv, [Next]_vars
  PROVE  LimitInv'
  BY NextLimit, NextKnows, NextExcludes DEF LimitInv, JobKnows

-----------------------------------------------------------------------------
\* The inductive invariants: one that holds whatever overlaps, one that needs NoOverlap.
CeilingInv ==
  /\ Base
  /\ HeadroomIdentity
  /\ GrantedIsLive
  /\ OneGrantPerRequest

\* Every step keeps the headroom what the limit leaves of the spend.
LEMMA NextHeadroom == Base /\ HeadroomIdentity /\ [Next]_vars => HeadroomIdentity'
  <1> SUFFICES ASSUME Base, HeadroomIdentity, [Next]_vars, NEW p \in pooled'
               PROVE  row'[p].headroom = row'[p].limit - row'[p].reserved - row'[p].settled
    BY DEF HeadroomIdentity
  <1> DEFINE r == row[p] s == row'[p]
  <1>1. /\ s.limit \in Int /\ s.headroom \in Int /\ s.reserved \in Int /\ s.settled \in Int
    BY NextTyped, RowFields DEF TypeOK
  <1>2. CASE p \in pooled
    <2>1. r.limit \in Int /\ r.headroom \in Int /\ r.reserved \in Int /\ r.settled \in Int
      BY <1>2, RowFields DEF Base, TypeOK
    <2>2. Gap(s) = Gap(r) /\ r.headroom = r.limit - r.reserved - r.settled
      <3>1. Even(r, s)
        BY <1>2, NextRows
      <3>2. r.headroom = r.limit - r.reserved - r.settled
        BY <1>2 DEF HeadroomIdentity
      <3> QED  BY <3>1, <3>2 DEF Even
    <2> HIDE DEF r, s
    <2>4. Gap(r) = 0
      BY <2>1, <2>2 DEF Gap
    <2>5. s.limit - s.headroom - s.reserved - s.settled = 0
      BY <2>2, <2>4 DEF Gap
    <2>3. s.headroom = s.limit - s.reserved - s.settled
      BY <1>1, <2>5
    <2> QED  BY <2>3 DEF s
  <1>3. CASE p \notin pooled
    BY <1>1, <1>3, NextRows DEF Fresh
  <1> QED  BY <1>2, <1>3

\* The first state satisfies both inductive invariants.
LEMMA InitCeiling == Init => CeilingInv /\ LimitInv
  <1> SUFFICES ASSUME Init PROVE CeilingInv /\ LimitInv
    OBVIOUS
  <1>1. Base
    BY InitTyped
  <1>2. PICK q \in Rates : row = [p \in Periods |-> seed_pool_row(Follow, "active", 0, q)]
    BY DEF Init
  <1>3. \A p \in pooled : Fresh(row[p])
    BY <1>1, <1>2, SeedIsFresh DEF Base, TypeOK
  <1>4. NoGrantsPresent
    BY DEF Init, NoGrantsPresent
  <1>5. GrantedIsLive
    <2> SUFFICES ASSUME NEW p \in pooled PROVE row[p].granted = Total(Live(p))
      BY DEF GrantedIsLive
    <2>1. Live(p) = [g \in GrantIds |-> 0]
      BY <1>4 DEF NoGrantsPresent, Live, Bears
    <2> QED  BY <1>3, <2>1, TotalZero DEF Fresh
  <1>6. HeadroomIdentity /\ LimitIdentity
    <2> SUFFICES ASSUME NEW p \in pooled
                 PROVE  /\ row[p].headroom = row[p].limit - row[p].reserved - row[p].settled
                        /\ row[p].limit = baseline(row[p]) + row[p].granted
      BY DEF HeadroomIdentity, LimitIdentity
    <2>1. row[p].limit \in Int /\ baseline(row[p]) \in Int
      BY <1>1, RowFields, BaselineInt DEF Base, TypeOK
    <2> QED  BY <1>3, <2>1 DEF Fresh
  <1>7. OneGrantPerRequest
    BY <1>4 DEF NoGrantsPresent, OneGrantPerRequest
  <1>8. \A t \in Threads : job[t].task = "idle"
    BY DEF Init, Idle
  <1> QED  BY <1>1, <1>4, <1>5, <1>6, <1>7, <1>8 DEF CeilingInv, LimitInv, MigrationOpen, InFlight

\* The first of them holds for good, whatever overlaps.
LEMMA CeilingAlways == Spec => []CeilingInv
  <1>1. Init => CeilingInv
    BY InitCeiling
  <1>2. CeilingInv /\ [Next]_vars => CeilingInv'
    BY NextBase, NextHeadroom, NextLive, NextOneGrant DEF CeilingInv
  <1> QED  BY <1>1, <1>2, PTL DEF Spec

\* Whatever interleaves with whatever, every variable keeps its type and the headroom of
\* every row is its ceiling less what is reserved and settled: what a reserve is admitted
\* against is never wrong, although the writers of the ceiling read neither counter.
THEOREM HeadroomAlwaysAddsUp == Spec => [](TypeOK /\ HeadroomIdentity)
  <1>1. CeilingInv => TypeOK /\ HeadroomIdentity
    BY DEF CeilingInv, Base
  <1> QED  BY <1>1, CeilingAlways, PTL

\* What a row counts as granted is what its live grants add up to, and a request is granted
\* once: for every number of approvers, sweeps and people who revoke.
THEOREM GrantsAlwaysAddUp == Spec => []GrantsAddUp
  <1>1. CeilingInv => GrantsAddUp
    BY DEF CeilingInv, GrantsAddUp
  <1> QED  BY <1>1, CeilingAlways, PTL

\* Unless the operators let one of the three overlaps happen, the ceiling of every row is
\* its baseline plus what is granted, after any interleaving of hires, figures, clears,
\* migrations, raises and rollovers.
THEOREM RowsAlwaysAddUp ==
  ASSUME NoOverlap
  PROVE  Spec => []RowAddsUp
  <1>1. Init => LimitInv
    BY InitCeiling
  <1>2. CeilingInv /\ LimitInv /\ [Next]_vars => LimitInv'
    BY NextLimitInv DEF CeilingInv
  <1>3. CeilingInv /\ LimitInv => RowAddsUp
    BY DEF CeilingInv, Base, LimitInv, RowAddsUp
  <1> QED  BY <1>1, <1>2, <1>3, CeilingAlways, PTL DEF Spec

\* A row that exists is never reset: what was settled in it stays, however many rollovers
\* race to create it.
THEOREM SpendIsAlwaysKept == Spec => SpendIsKept
  <1>1. CeilingInv /\ [Next]_vars =>
          [\A p \in pooled : p \in pooled' /\ row'[p].settled >= row[p].settled]_vars
    BY NextKept, NextRows DEF CeilingInv, Kept, Even
  <1> QED  BY <1>1, CeilingAlways, PTL DEF Spec, SpendIsKept

=============================================================================
