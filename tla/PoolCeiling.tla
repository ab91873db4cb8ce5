----------------------------- MODULE PoolCeiling -----------------------------
(***************************************************************************)
(* The ceiling of one tenant's pool, one row per period, and everything    *)
(* that moves it while requests spend from it: an operator's figure,       *)
(* membership changes, the seat-rate migration, limit-raise grants and the *)
(* rollover into the next period.  No writer holds a lock: each reads the  *)
(* row, computes a delta, and sends a conditional ADD.                     *)
(***************************************************************************)
EXTENDS Integers, FiniteSets, Sums

CONSTANTS
  LastPeriod,    \* bound: periods are 1 .. LastPeriod
  Threads,       \* processes that move the ceiling
  Figures,       \* figures an operator may set, zero among the legal ones
  Rates,         \* seat rates the processes of the fleet are configured with
  Requests,      \* limit-raise requests
  GrantIds,      \* bound: the grant ids of one behaviour
  Amounts,       \* amounts an approver may grant
  Costs,         \* what one request reserves, and what it may turn out to cost
  Overlaps,      \* overlaps the operators allow, see OverlapKinds
  MaxJobs,       \* bound: operations on the ceiling in one behaviour
  MaxSpend,      \* bound: reserved plus settled of one row
  MaxAttempts    \* MAX_REVOKE_ATTEMPTS

OverlapKinds ==
  {"clear",      \* a figure is cleared while a seat change that read it writes
   "rate",       \* a figure is cleared at a seat rate that was replaced since its read
   "approve"}    \* a raise is approved while the seat-rate migration is open

ASSUME PeriodsAssumption == LastPeriod \in Nat \ {0}
ASSUME FiguresAssumption ==
  /\ Figures \subseteq Nat /\ Rates \subseteq Nat \ {0} /\ Rates # {}
  /\ Amounts \subseteq Nat \ {0} /\ Costs \subseteq Nat
ASSUME GrantsAssumption == IsFiniteSet(GrantIds)
ASSUME OverlapsAssumption == Overlaps \subseteq OverlapKinds
ASSUME BoundsAssumption ==
  MaxJobs \in Nat /\ MaxSpend \in Nat /\ MaxAttempts \in Nat \ {0}

VARIABLES
  period,    \* current_period() of the clock
  pooled,    \* the periods whose pool row exists
  row,       \* the pool row of each period
  job,       \* what each thread is doing, and what it read
  members,   \* active memberships
  started,   \* operations on the ceiling so far
  request,   \* limit-raise requests: status, period they were filed in
  grant      \* grants: status, amount, the row they are pinned to

vars == <<period, pooled, row, job, members, started, request, grant>>

Periods == 1 .. LastPeriod

\* The operator's figure is absent: the row follows the seats.
Follow == -1

Row == [limit : Int, headroom : Int, reserved : Int, settled : Int,
        seats : Int, rate : Nat, manual : Figures \cup {Follow}, granted : Nat,
        status : {"active", "suspended"}]

Tasks == {"idle", "set", "clear", "roll", "seat", "seatonly", "seatmoney",
          "scan", "recompute", "approve", "revoke", "sweep", "bump", "block"}

NoOne == "nobody"

Job == [task : Tasks, at : Periods, arg : Int, seen : Row,
        on : Requests \cup GrantIds \cup {NoOne}]

GrantStatuses == {"none", "ACTIVE", "REVOKED", "EXPIRED", "REVOKE_BLOCKED"}

-----------------------------------------------------------------------------
(* The composition of a row. *)

is_seat_tracked(r) == r.manual = Follow

seat_term(r) == r.seats * r.rate

\* A figure when there is one, zero included; the seat term when there is not.
baseline(r) == IF is_seat_tracked(r) THEN seat_term(r) ELSE r.manual

\* No row ever stores a cap of its own: the cap is derived from the baseline.
effective_grant_cap(r) == baseline(r)

\* Every writer moves the headroom by what it moves the limit.
Move(r, d) == [r EXCEPT !.limit = @ + d, !.headroom = @ + d]

\* A new row: counters at zero, nothing granted.
seed_pool_row(manual, status, seats, rate) ==
  LET b == IF manual = Follow THEN seats * rate ELSE manual IN
  [limit |-> b, headroom |-> b, reserved |-> 0, settled |-> 0, seats |-> seats,
   rate |-> rate, manual |-> manual, granted |-> 0, status |-> status]

EmptyRow == seed_pool_row(Follow, "active", 0, 0)

Idle == [task |-> "idle", at |-> 1, arg |-> 0, seen |-> EmptyRow, on |-> NoOne]

\* What a thread keeps of the row it read: the inputs of a baseline delta, what the
\* rollover carries, the rate of a seat's money, the cap of a raise.
Inputs(r) == [EmptyRow EXCEPT !.limit = r.limit, !.seats = r.seats,
                              !.manual = r.manual, !.rate = r.rate]

Carried(r) == [EmptyRow EXCEPT !.seats = r.seats, !.manual = r.manual,
                               !.rate = r.rate, !.status = r.status]

RateOf(r) == [EmptyRow EXCEPT !.rate = r.rate]

CapOf(r) == [EmptyRow EXCEPT !.limit = effective_grant_cap(r)]

Work(t, task, p, arg, seen, on) ==
  job' = [job EXCEPT ![t] =
            [task |-> task, at |-> p, arg |-> arg, seen |-> seen, on |-> on]]

Begin(t, task, p, arg, seen, on) ==
  /\ job[t].task = "idle"
  /\ started < MaxJobs
  /\ started' = started + 1
  /\ Work(t, task, p, arg, seen, on)

Finish(t) == job' = [job EXCEPT ![t] = Idle]

Become(t, task) == job' = [job EXCEPT ![t].task = task, ![t].seen = EmptyRow]

-----------------------------------------------------------------------------
(* A tenant is created with a seat-tracked row at zero seats; the default   *)
(* tenant is created with none.                                             *)

Init ==
  /\ period = 1
  /\ pooled \in {{}, {1}}
  /\ \E r \in Rates : row = [p \in Periods |-> seed_pool_row(Follow, "active", 0, r)]
  /\ job = [t \in Threads |-> Idle]
  /\ members = 0
  /\ started = 0
  /\ request = [r \in Requests |-> [status |-> "none", filed |-> 1]]
  /\ grant = [g \in GrantIds |->
                [status |-> "none", amount |-> 0, at |-> 1, request |-> NoOne,
                 attempts |-> 0]]

-----------------------------------------------------------------------------
(* Spending. *)

reserve(p, c) ==
  /\ p \in pooled
  /\ row[p].status = "active"
  /\ row[p].headroom >= c
  /\ row[p].reserved + row[p].settled + c =< MaxSpend
  /\ row' = [row EXCEPT ![p].headroom = @ - c, ![p].reserved = @ + c]
  /\ UNCHANGED <<period, pooled, job, members, started, request, grant>>

\* Whatever it cost, the settle is unconditional.
settle(p, c, actual) ==
  /\ p \in pooled
  /\ row[p].reserved >= c
  /\ row[p].reserved + row[p].settled - c + actual =< MaxSpend
  /\ row' = [row EXCEPT ![p].headroom = @ + c - actual,
                        ![p].reserved = @ - c, ![p].settled = @ + actual]
  /\ UNCHANGED <<period, pooled, job, members, started, request, grant>>

-----------------------------------------------------------------------------
(* The operator's figure. *)

\* No row yet: the conditional put, which a thread that lost it never repeats.
set_absent(p, figure, status) ==
  /\ p \notin pooled
  /\ pooled' = pooled \cup {p}
  /\ \E r \in Rates : row' = [row EXCEPT ![p] = seed_pool_row(figure, status, 0, r)]
  /\ UNCHANGED <<period, job, members, started, request, grant>>

\* A figure equal to a ceiling that is partly granted is refused as copied from it.
Copied(r, figure) == r.granted > 0 /\ figure = r.limit

set_read(t, p, figure) ==
  /\ p \in pooled /\ ~Copied(row[p], figure)
  /\ Begin(t, "set", p, figure, Inputs(row[p]), NoOne)
  /\ UNCHANGED <<period, pooled, row, members, request, grant>>

\* The three inputs of a baseline delta are still what was read.
SameInputs(r, seen) ==
  r.limit = seen.limit /\ r.seats = seen.seats /\ r.manual = seen.manual

\* Mutant: the headroom becomes the new ceiling less what is settled.
set_writeM(t, status) ==
  LET j == job[t] r == row[j.at] IN
  /\ j.task = "set"
  /\ row' = IF SameInputs(r, j.seen)
            THEN [row EXCEPT ![j.at] =
                    [Move(r, j.arg - baseline(j.seen))
                       EXCEPT !.manual = j.arg, !.status = status,
                              !.headroom = @ + r.reserved]]
            ELSE row
  /\ Finish(t)
  /\ UNCHANGED <<period, pooled, members, started, request, grant>>

\* A lost CAS is followed by a new read.
set_write(t, status) ==
  LET j == job[t] r == row[j.at] IN
  /\ j.task = "set"
  /\ row' = IF SameInputs(r, j.seen)
            THEN [row EXCEPT ![j.at] =
                    [Move(r, j.arg - baseline(j.seen))
                       EXCEPT !.manual = j.arg, !.status = status]]
            ELSE row
  /\ Finish(t)
  /\ UNCHANGED <<period, pooled, members, started, request, grant>>

clear_read(t, p) ==
  /\ p \in pooled
  /\ Begin(t, "clear", p, 0, Inputs(row[p]), NoOne)
  /\ UNCHANGED <<period, pooled, row, members, request, grant>>

\* Some seat change read p's row with a figure and is about to write.
SeatOnlyInFlight(p) ==
  \E t \in Threads : job[t].task = "seatonly" /\ job[t].at = p

clear_write(t) ==
  LET j == job[t] r == row[j.at] IN
  /\ j.task = "clear"
  /\ "clear" \in Overlaps \/ ~SeatOnlyInFlight(j.at)
  /\ "rate" \in Overlaps \/ j.seen.rate = r.rate
  /\ row' = IF SameInputs(r, j.seen)
            THEN [row EXCEPT ![j.at] =
                    [Move(r, seat_term(j.seen) - baseline(j.seen))
                       EXCEPT !.manual = Follow]]
            ELSE row
  /\ Finish(t)
  /\ UNCHANGED <<period, pooled, members, started, request, grant>>

-----------------------------------------------------------------------------
(* Membership changes, and the rollover they and the daily job trigger. *)

\* The membership row is written already; its seat follows, in the period that is
\* current now.
seat_delta(t, d) ==
  /\ members' = members + d
  /\ Begin(t, "seat", period, d, EmptyRow, NoOne)
  /\ UNCHANGED <<period, pooled, row, request, grant>>

\* A new or resurrected membership, or a switch into this tenant.
ensure(t) == seat_delta(t, 1)

\* A departure, or a switch out of it.
archive_membership(t) ==
  /\ members > 0
  /\ seat_delta(t, -1)

\* A seat change for a period without a row rolls the row of the one before forward first.
roll_read(t) ==
  /\ job[t].task = "seat"
  /\ job[t].at \notin pooled /\ job[t].at - 1 \in pooled
  /\ Work(t, "roll", job[t].at, job[t].arg, Carried(row[job[t].at - 1]), NoOne)
  /\ UNCHANGED <<started, period, pooled, row, members, request, grant>>

\* The daily job, and an approval, roll with a delta of zero: every row that the new period lacks.
roll_forward(t) ==
  /\ period \notin pooled /\ period - 1 \in pooled
  /\ Begin(t, "roll", period, 0, Carried(row[period - 1]), NoOne)
  /\ UNCHANGED <<period, pooled, row, members, request, grant>>

\* Mutant: the put is unconditional.
roll_putM(t) ==
  LET j == job[t] s == j.seen IN
  /\ j.task = "roll"
  /\ row' = [row EXCEPT ![j.at] = seed_pool_row(s.manual, s.status, s.seats, s.rate)]
  /\ pooled' = pooled \cup {j.at}
  /\ IF j.arg = 0 THEN Finish(t) ELSE Become(t, "seat")
  /\ UNCHANGED <<period, members, started, request, grant>>

\* Carries the mode, the seats, the rate and the status.  The put loses to a row
\* that is there already.
roll_put(t) ==
  LET j == job[t] s == j.seen IN
  /\ j.task = "roll"
  /\ row' = IF j.at \in pooled THEN row
            ELSE [row EXCEPT ![j.at] =
                    seed_pool_row(s.manual, s.status, s.seats, s.rate)]
  /\ pooled' = pooled \cup {j.at}
  /\ IF j.arg = 0 THEN Finish(t) ELSE Become(t, "seat")
  /\ UNCHANGED <<period, members, started, request, grant>>

\* A figure moves seats alone; no row and nothing to roll is a no-op.
seat_read(t) ==
  LET j == job[t] IN
  /\ j.task = "seat"
  /\ \/ /\ j.at \in pooled
        /\ IF is_seat_tracked(row[j.at])
           THEN Work(t, "seatmoney", j.at, j.arg, RateOf(row[j.at]), NoOne)
           ELSE Become(t, "seatonly")
     \/ /\ j.at \notin pooled /\ j.at - 1 \notin pooled
        /\ Finish(t)
  /\ UNCHANGED <<period, pooled, row, members, started, request, grant>>

seat_only_write(t) ==
  LET j == job[t] IN
  /\ j.task = "seatonly"
  /\ row' = [row EXCEPT ![j.at].seats = @ + j.arg]
  /\ Finish(t)
  /\ UNCHANGED <<period, pooled, members, started, request, grant>>

\* Mutant: no CAS on the rate the delta was computed at.
seat_money_writeM(t) ==
  LET j == job[t] r == row[j.at] IN
  /\ j.task = "seatmoney"
  /\ IF is_seat_tracked(r)
     THEN /\ row' = [row EXCEPT ![j.at] =
                       [Move(r, j.arg * j.seen.rate) EXCEPT !.seats = @ + j.arg]]
          /\ Finish(t)
     ELSE /\ row' = row
          /\ Become(t, "seat")
  /\ UNCHANGED <<period, pooled, members, started, request, grant>>

\* The row took a figure, or its rate moved: read again.
seat_money_write(t) ==
  LET j == job[t] r == row[j.at] IN
  /\ j.task = "seatmoney"
  /\ IF is_seat_tracked(r) /\ r.rate = j.seen.rate
     THEN /\ row' = [row EXCEPT ![j.at] =
                       [Move(r, j.arg * j.seen.rate) EXCEPT !.seats = @ + j.arg]]
          /\ Finish(t)
     ELSE /\ row' = row
          /\ Become(t, "seat")
  /\ UNCHANGED <<period, pooled, members, started, request, grant>>

-----------------------------------------------------------------------------
(* The seat-rate migration. *)

\* pool_granted is written by the first grant of a row and never removed.
NoGrantsPresent == \A g \in GrantIds : grant[g].status = "none"

InFlight(tasks) == \E t \in Threads : job[t].task \in tasks

\* The migration runs, or an operator's write still rests on a rate it replaced.
MigrationOpen ==
  \/ InFlight({"scan", "recompute"})
  \/ \E t \in Threads : /\ job[t].task \in {"set", "clear"}
                       /\ job[t].seen.rate # row[job[t].at].rate

recompute_start(t, rate) ==
  /\ NoGrantsPresent
  /\ "approve" \in Overlaps \/ ~InFlight({"approve"})
  /\ Begin(t, "scan", 1, rate, EmptyRow, NoOne)
  /\ UNCHANGED <<period, pooled, row, members, request, grant>>

\* Rows with a figure, and rows that are right already, are passed over.
recompute_scan(t, p) ==
  LET j == job[t] r == row[p] IN
  /\ j.task = "scan"
  /\ p \in pooled
  /\ is_seat_tracked(r)
  /\ r.limit # r.seats * j.arg \/ r.rate # j.arg
  /\ Work(t, "recompute", p, j.arg, Inputs(r), NoOne)
  /\ UNCHANGED <<period, pooled, row, members, started, request, grant>>

\* A row that moved is left to the next pass.
recompute_write(t) ==
  LET j == job[t] r == row[j.at] IN
  /\ j.task = "recompute"
  /\ row' = IF SameInputs(r, j.seen)
            THEN [row EXCEPT ![j.at] =
                    [Move(r, j.seen.seats * j.arg - j.seen.limit)
                       EXCEPT !.rate = j.arg]]
            ELSE row
  /\ Become(t, "scan")
  /\ UNCHANGED <<period, pooled, members, started, request, grant>>

-----------------------------------------------------------------------------
(* Limit raises. *)

file_request(r) ==
  /\ request[r].status = "none"
  /\ request' = [request EXCEPT ![r] = [status |-> "PENDING", filed |-> period]]
  /\ UNCHANGED <<period, pooled, row, job, members, started, grant>>

\* A request leaves PENDING once.
decide(r, status) ==
  /\ request[r].status = "PENDING"
  /\ request' = [request EXCEPT ![r].status = status]

reject_request(r) ==
  /\ decide(r, "REJECTED")
  /\ UNCHANGED <<period, pooled, row, job, members, started, grant>>

withdraw_request(r) ==
  /\ decide(r, "WITHDRAWN")
  /\ UNCHANGED <<period, pooled, row, job, members, started, grant>>

\* The request is pending and was filed in this period, the pool is active, and
\* the cap in force covers the amount.
approve_read(t, r, amount) ==
  /\ "approve" \in Overlaps \/ ~MigrationOpen
  /\ request[r].status = "PENDING"
  /\ request[r].filed = period
  /\ period \in pooled
  /\ row[period].status = "active"
  /\ effective_grant_cap(row[period]) >= amount
  /\ Begin(t, "approve", period, amount, CapOf(row[period]), r)
  /\ UNCHANGED <<period, pooled, row, members, request, grant>>

\* Filed in a period that has ended: closed instead.
approve_elapsed(r) ==
  /\ request[r].filed # period
  /\ reject_request(r)

\* What a grant does to the row it is pinned to, and what its ending does.
grant_apply(r, a) == [Move(r, a) EXCEPT !.granted = @ + a]

grant_revoke(r, a) == [Move(r, -a) EXCEPT !.granted = @ - a]

grant_put(g, j) ==
  grant' = [grant EXCEPT ![g] = [status |-> "ACTIVE", amount |-> j.arg, at |-> j.at,
                                 request |-> j.on, attempts |-> 0]]

\* Mutant: the transaction leaves the request's condition out.
approve_commitM(t) ==
  LET j == job[t] IN
  /\ j.task = "approve"
  /\ IF row[j.at].granted =< j.seen.limit - j.arg
     THEN \E g \in GrantIds :
            /\ grant[g].status = "none"
            /\ request' = [request EXCEPT ![j.on].status = "APPROVED"]
            /\ grant_put(g, j)
            /\ row' = [row EXCEPT ![j.at] = grant_apply(@, j.arg)]
     ELSE UNCHANGED <<request, grant, row>>
  /\ Finish(t)
  /\ UNCHANGED <<period, pooled, members, started>>

\* One transaction: the request, the grant, the row, whose granted sum is compared
\* with the cap that was read.
approve_commit(t) ==
  LET j == job[t] IN
  /\ j.task = "approve"
  /\ IF request[j.on].status = "PENDING" /\ row[j.at].granted =< j.seen.limit - j.arg
     THEN \E g \in GrantIds :
            /\ grant[g].status = "none"
            /\ decide(j.on, "APPROVED")
            /\ grant_put(g, j)
            /\ row' = [row EXCEPT ![j.at] = grant_apply(@, j.arg)]
     ELSE UNCHANGED <<request, grant, row>>
  /\ Finish(t)
  /\ UNCHANGED <<period, pooled, members, started>>

end_read(t, by, g) ==
  /\ grant[g].status = "ACTIVE"
  /\ Begin(t, by, grant[g].at, grant[g].amount, EmptyRow, g)
  /\ UNCHANGED <<period, pooled, row, members, request, grant>>

\* By a person, or at a tenant's retirement.
revoke_read(t, g) == end_read(t, "revoke", g)

\* From the index of live grants whose expiry has passed, which may be any.
sweep_read(t, g) == end_read(t, "sweep", g)

\* The grant is still live at the amount that was read.
GrantHolds(j) == grant[j.on].status = "ACTIVE" /\ grant[j.on].amount = j.arg

\* Mutant: neither the grant's condition nor the floor.
end_commitM(t) ==
  LET j == job[t] IN
  /\ j.task \in {"revoke", "sweep"}
  /\ grant' = [grant EXCEPT ![j.on].status =
                 IF j.task = "revoke" THEN "REVOKED" ELSE "EXPIRED"]
  /\ row' = [row EXCEPT ![j.at] = grant_revoke(@, j.arg)]
  /\ Finish(t)
  /\ UNCHANGED <<period, pooled, members, started, request>>

end_commit(t) ==
  LET j == job[t] IN
  /\ j.task \in {"revoke", "sweep"}
  /\ GrantHolds(j)
  /\ row[j.at].granted >= j.arg
  /\ grant' = [grant EXCEPT ![j.on].status =
                 IF j.task = "revoke" THEN "REVOKED" ELSE "EXPIRED"]
  /\ row' = [row EXCEPT ![j.at] = grant_revoke(@, j.arg)]
  /\ Finish(t)
  /\ UNCHANGED <<period, pooled, members, started, request>>

\* Cancelled, by the grant's condition or by a conflict: only a sweep that saw
\* anything but the grant's own condition counts the attempt.
end_cancelled(t) ==
  LET j == job[t] IN
  /\ j.task = "sweep"
  /\ IF GrantHolds(j) THEN Become(t, "bump") ELSE Finish(t)
  /\ UNCHANGED <<period, pooled, row, members, started, request, grant>>

bump_revoke_attempts(t) ==
  LET g == job[t].on n == grant[g].attempts + 1 IN
  /\ job[t].task = "bump"
  /\ IF grant[g].status = "ACTIVE"
     THEN /\ grant' = [grant EXCEPT ![g].attempts = n]
          /\ IF n >= MaxAttempts THEN Become(t, "block") ELSE Finish(t)
     ELSE /\ grant' = grant
          /\ Finish(t)
  /\ UNCHANGED <<period, pooled, row, members, started, request>>

\* Mutant: blocks a grant that was ended meanwhile.
mark_revoke_blockedM(t) ==
  LET g == job[t].on IN
  /\ job[t].task = "block"
  /\ grant' = [grant EXCEPT ![g].status = "REVOKE_BLOCKED"]
  /\ Finish(t)
  /\ UNCHANGED <<period, pooled, row, members, started, request>>

mark_revoke_blocked(t) ==
  LET g == job[t].on IN
  /\ job[t].task = "block"
  /\ grant' = IF grant[g].status = "ACTIVE" /\ grant[g].attempts >= MaxAttempts
              THEN [grant EXCEPT ![g].status = "REVOKE_BLOCKED"] ELSE grant
  /\ Finish(t)
  /\ UNCHANGED <<period, pooled, row, members, started, request>>

\* A person who revokes a blocked grant clears the block first.
clear_revoke_block(g) ==
  /\ grant[g].status = "REVOKE_BLOCKED"
  /\ grant' = [grant EXCEPT ![g].status = "ACTIVE", ![g].attempts = 0]
  /\ UNCHANGED <<period, pooled, row, job, members, started, request>>

-----------------------------------------------------------------------------
\* An exception, eight lost races, the end of a pass, or a dead process.
abandon(t) ==
  /\ job[t].task # "idle"
  /\ Finish(t)
  /\ UNCHANGED <<period, pooled, row, members, started, request, grant>>

tick ==
  /\ period < LastPeriod
  /\ period' = period + 1
  /\ UNCHANGED <<pooled, row, job, members, started, request, grant>>

Statuses == {"active", "suspended"}

Spend ==
  \E p \in Periods, c \in Costs :
    reserve(p, c) \/ \E actual \in Costs : settle(p, c, actual)

Operate ==
  \/ \E p \in Periods, f \in Figures, s \in Statuses : set_absent(p, f, s)
  \/ \E t \in Threads, p \in Periods, f \in Figures : set_read(t, p, f)
  \/ \E t \in Threads, s \in Statuses : set_write(t, s)
  \/ \E t \in Threads, p \in Periods : clear_read(t, p)
  \/ \E t \in Threads : clear_write(t)

Staff ==
  \E t \in Threads :
    \/ ensure(t) \/ archive_membership(t)
    \/ roll_read(t) \/ roll_forward(t) \/ roll_put(t)
    \/ seat_read(t) \/ seat_only_write(t) \/ seat_money_write(t)

Migrate ==
  \E t \in Threads :
    \/ \E r \in Rates : recompute_start(t, r)
    \/ \E p \in Periods : recompute_scan(t, p)
    \/ recompute_write(t)

Raise ==
  \/ \E r \in Requests : \/ file_request(r) \/ reject_request(r)
                         \/ withdraw_request(r) \/ approve_elapsed(r)
  \/ \E t \in Threads :
       \/ \E r \in Requests, a \in Amounts : approve_read(t, r, a)
       \/ \E g \in GrantIds : revoke_read(t, g) \/ sweep_read(t, g)
       \/ approve_commit(t) \/ end_commit(t) \/ end_cancelled(t)
       \/ bump_revoke_attempts(t) \/ mark_revoke_blocked(t)
  \/ \E g \in GrantIds : clear_revoke_block(g)

Next == Spend \/ Operate \/ Staff \/ Migrate \/ Raise \/ tick \/ \E t \in Threads : abandon(t)

Spec == Init /\ [][Next]_vars

-----------------------------------------------------------------------------
(* Properties. *)

\* Capacity a grant still stands for: mvp.grants.is_capacity_bearing.
Bears(g, p) == grant[g].at = p /\ grant[g].status \in {"ACTIVE", "REVOKE_BLOCKED"}

Live(p) == [g \in GrantIds |-> IF Bears(g, p) THEN grant[g].amount ELSE 0]

\* Every variable has its type (the rows, the jobs and what they read, the grants).
TypeOK ==
  /\ period \in Periods
  /\ pooled \subseteq Periods
  /\ row \in [Periods -> Row]
  /\ job \in [Threads -> Job]
  /\ members \in Nat
  /\ started \in Nat
  /\ request \in [Requests -> [status : {"none", "PENDING", "APPROVED", "REJECTED",
                                        "WITHDRAWN"},
                              filed : Periods]]
  /\ grant \in [GrantIds -> [status : GrantStatuses, amount : Nat, at : Periods,
                             request : Requests \cup {NoOne}, attempts : Nat]]

\* The ceiling of every row is its baseline (the operator's figure, else seats times
\* the row's rate) plus what is granted: expected_pool_limit_microusd, after any
\* interleaving of hires, figures, clears, migrations, raises and rollovers.
LimitIdentity == \A p \in pooled : row[p].limit = baseline(row[p]) + row[p].granted

\* The headroom a reserve is admitted against is the ceiling less what is reserved
\* and settled, although no writer of the ceiling ever reads those counters.
HeadroomIdentity ==
  \A p \in pooled :
    row[p].headroom = row[p].limit - row[p].reserved - row[p].settled

\* Every row of the pool adds up, whatever interleaves with whatever.
RowAddsUp == TypeOK /\ LimitIdentity /\ HeadroomIdentity

\* What a row counts as granted is what its live grants add up to: an ending, by a
\* person, by a sweep or by both at once, gives its amount back exactly once and to
\* the row the grant was pinned to, and a blocked grant still counts.
GrantedIsLive == \A p \in pooled : row[p].granted = Total(Live(p))

\* Two approvers of one request make one grant.
OneGrantPerRequest ==
  \A g, h \in GrantIds :
    grant[g].status # "none" /\ grant[h].status # "none" /\ g # h
      => grant[g].request # grant[h].request

\* Capacity is granted once per request, and a row counts it exactly while it lives.
GrantsAddUp == GrantedIsLive /\ OneGrantPerRequest

\* A row that exists stays, and what was spent in it stays spent: a rollover that
\* read before another process created the row does not reset it.
SpendIsKept ==
  [][\A p \in pooled : p \in pooled' /\ row'[p].settled >= row[p].settled]_vars

=============================================================================
