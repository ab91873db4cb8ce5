-------------------------- MODULE AdmissionProofs --------------------------
(***************************************************************************)
(* Proofs about Admission, for every number of requests, administrators,   *)
(* candidates and months.                                                  *)
(***************************************************************************)
EXTENDS Admission, SumsProofs, WellFoundedInduction, TLAPS

Figures == Nat \cup {None}
PCs == {"idle", "seal", "sealing", "granted", "txn", "live", "settling", "settled_pool", "settled",
        "released_pool", "released", "kept", "dead", "reversing", "charged", "reclaimed", "refused"}

RequestRecord ==
  [pc : PCs, p : Periods, i : 1 .. Len(Chain), base : Figures, g : Int, seen : Int,
   hold : BOOLEAN, quota : BOOLEAN, uq : BOOLEAN, actual : Nat]

SetterRecord ==
  [pc : {"idle", "write", "again"}, at : Periods, amount : Nat, prune : SUBSET Periods,
   first : BOOLEAN]

PoolRecord == [status : {"none", "active", "suspended"}, committed : Int]

TenantRecord == [defaults : [Periods -> Figures], version : Nat, sealed : [Periods -> Figures]]

TypeOK ==
  /\ period \in Periods
  /\ tenant \in TenantRecord
  /\ acked \in [Periods -> Figures]
  /\ used \in [Periods -> Int] /\ granted \in [Periods -> Int]
  /\ quota \in [Models -> [Periods -> Int]]
  /\ pool \in [Periods -> PoolRecord]
  /\ credit \in [total : Nat, used : Int]
  /\ req \in [Requests -> RequestRecord]
  /\ setter \in [Setters -> SetterRecord]
  /\ grant \in [GrantIds -> [status : {"none", "ACTIVE", "REVOKED"}, at : Periods]]

\* Every non-empty set of natural numbers has a least element.
LEMMA LeastNatural ==
  ASSUME NEW T, T \subseteq Nat, T # {}
  PROVE  \E x \in T : \A y \in T : x <= y
  <1>1. \E x \in T : \A y \in T : ~ (<<y, x>> \in OpToRel(<, Nat))
    BY NatLessThanWellFounded, WFMin, Zenon
  <1>2. PICK x \in T : \A y \in T : ~ (<<y, x>> \in OpToRel(<, Nat))
    BY <1>1
  <1>3. \A y \in T : ~(y < x)
    <2> TAKE y \in T
    <2>1. <<y, x>> \in OpToRel(<, Nat) <=> y < x
      BY DEF OpToRel
    <2> QED  BY <1>2, <2>1
  <1> QED  BY <1>3

\* A non-empty set of months has a last one, which is its Max.
LEMMA LatestExists ==
  ASSUME NEW n \in Nat, NEW T, T \subseteq 1 .. n, T # {}
  PROVE  Max(T) \in T /\ \A x \in T : x <= Max(T)
  <1> DEFINE D == {n - t : t \in T}
  <1>1. PICK d \in D : \A e \in D : d <= e
    <2>1. D \subseteq Nat
      OBVIOUS
    <2>2. D # {}
      <3>1. PICK t \in T : TRUE
        OBVIOUS
      <3>2. n - t \in D
        OBVIOUS
      <3> QED  BY <3>2
    <2> HIDE DEF D
    <2> QED  BY <2>1, <2>2, LeastNatural
  <1>2. PICK t \in T : d = n - t
    OBVIOUS
  <1>3. \A x \in T : t >= x
    <2> TAKE x \in T
    <2>1. d <= n - x
      BY <1>1
    <2> QED  BY <1>2, <2>1
  <1>4. Max(T) \in T /\ \A x \in T : Max(T) >= x
    BY <1>3, Zenon DEF Max
  <1> QED  BY <1>4

\* What resolve_user_dollar_default returns is the last default at or before p.
LEMMA ResolvedIsThere ==
  ASSUME NEW f \in [Periods -> Figures], NEW p \in Periods
  PROVE  /\ resolve_user_dollar_default(f, p) \in Figures
         /\ resolve_user_dollar_default(f, p) # None =>
              \E q \in 1 .. p :
                /\ f[q] # None /\ resolve_user_dollar_default(f, p) = f[q]
                /\ \A e \in 1 .. p : e > q => f[e] = None
         /\ resolve_user_dollar_default(f, p) = None => \A q \in 1 .. p : f[q] = None
  <1> DEFINE C == {q \in 1 .. p : f[q] # None}
  <1>0. p \in Nat /\ 1 .. p \subseteq Periods
    BY AdmissionAssumption DEF Periods
  <1>1. CASE C = {}
    BY <1>0, <1>1 DEF resolve_user_dollar_default, Figures, None
  <1>2. CASE C # {}
    <2>1. Max(C) \in C /\ \A x \in C : x <= Max(C)
      <3>1. C \subseteq 1 .. p
        OBVIOUS
      <3> HIDE DEF C
      <3> QED  BY <1>0, <1>2, <3>1, LatestExists
    <2>2. resolve_user_dollar_default(f, p) = f[Max(C)]
      BY <1>2 DEF resolve_user_dollar_default
    <2>3. Max(C) \in 1 .. p /\ f[Max(C)] # None /\ f[Max(C)] \in Figures
      BY <1>0, <2>1
    <2>4. \A e \in 1 .. p : e > Max(C) => f[e] = None
      <3> TAKE e \in 1 .. p
      <3>1. e \in C => e <= Max(C)
        BY <2>1
      <3>2. e \in C <=> f[e] # None
        OBVIOUS
      <3>3. Max(C) \in Nat
        BY <2>3
      <3> HIDE DEF C
      <3> QED  BY <3>1, <3>2, <3>3
    <2> HIDE DEF C
    <2> QED  BY <2>2, <2>3, <2>4
  <1> QED  BY <1>1, <1>2

\* It looks at no month after p.
LEMMA ResolvedLikewise ==
  ASSUME NEW f, NEW h, NEW p, \A q \in 1 .. p : f[q] = h[q], 
         f \in [Periods -> Figures], p \in Periods
  PROVE  resolve_user_dollar_default(f, p) = resolve_user_dollar_default(h, p)
  <1> DEFINE C == {q \in 1 .. p : f[q] # None}
             D == {q \in 1 .. p : h[q] # None}
  <1>1. C = D
    OBVIOUS
  <1>2. CASE C = {}
    BY <1>1, <1>2 DEF resolve_user_dollar_default
  <1>3. CASE C # {}
    <2>1. Max(C) \in C
      <3>1. C \subseteq 1 .. p /\ p \in Nat
        BY AdmissionAssumption DEF Periods
      <3> HIDE DEF C
      <3> QED  BY <1>3, <3>1, LatestExists
    <2>2. resolve_user_dollar_default(f, p) = f[Max(C)]
      BY <1>3 DEF resolve_user_dollar_default
    <2>3. resolve_user_dollar_default(h, p) = h[Max(D)]
      BY <1>1, <1>3 DEF resolve_user_dollar_default
    <2>4. f[Max(C)] = h[Max(C)]
      BY <2>1
    <2> HIDE DEF C, D
    <2> QED  BY <1>1, <2>2, <2>3, <2>4
  <1> QED  BY <1>2, <1>3

\* Go and Becomes rewrite one request's record and nobody else's.
LEMMA GoIs ==
  ASSUME req \in [Requests -> RequestRecord], NEW r \in Requests, NEW pc, Go(r, pc)
  PROVE  /\ req' = [req EXCEPT ![r] = req'[r]]
         /\ req'[r].pc = pc /\ req'[r].p = req[r].p /\ req'[r].i = req[r].i
         /\ req'[r].base = req[r].base /\ req'[r].g = req[r].g /\ req'[r].seen = req[r].seen
         /\ req'[r].hold = req[r].hold /\ req'[r].quota = req[r].quota
         /\ req'[r].uq = req[r].uq /\ req'[r].actual = req[r].actual
  <1>1. req' = [req EXCEPT ![r] = [req[r] EXCEPT !.pc = pc]] /\ req[r] \in RequestRecord
    BY DEF Go, Becomes
  <1>2. req'[r] = [req[r] EXCEPT !.pc = pc]
    BY <1>1
  <1> QED  BY <1>1, <1>2 DEF RequestRecord

\* The seal's read leaves the month, the candidate and what is on account alone.
LEMMA SealReadIs ==
  ASSUME req \in [Requests -> RequestRecord], NEW r \in Requests, seal_read(r)
  PROVE  /\ req' = [req EXCEPT ![r] = req'[r]]
         /\ req'[r].pc \in {"granted", "txn", "sealing"} /\ req'[r].p = req[r].p
  <1>1. req[r] \in RequestRecord
    OBVIOUS
  <1>2. ASSUME NEW b, req' = [req EXCEPT ![r] = [req[r] EXCEPT !.pc = "granted", !.base = b]]
        PROVE  /\ req' = [req EXCEPT ![r] = req'[r]]
               /\ req'[r].pc \in {"granted", "txn", "sealing"} /\ req'[r].p = req[r].p
    BY <1>1, <1>2 DEF RequestRecord
  <1>3. ASSUME NEW b, NEW n,
               req' = [req EXCEPT ![r] = [req[r] EXCEPT !.pc = "txn", !.base = b, !.g = n]]
        PROVE  /\ req' = [req EXCEPT ![r] = req'[r]]
               /\ req'[r].pc \in {"granted", "txn", "sealing"} /\ req'[r].p = req[r].p
    BY <1>1, <1>3 DEF RequestRecord
  <1>4. ASSUME NEW b, NEW n,
               req' = [req EXCEPT ![r] = [req[r] EXCEPT !.pc = "sealing", !.base = b, !.seen = n]]
        PROVE  /\ req' = [req EXCEPT ![r] = req'[r]]
               /\ req'[r].pc \in {"granted", "txn", "sealing"} /\ req'[r].p = req[r].p
    BY <1>1, <1>4 DEF RequestRecord
  <1> QED  BY <1>2, <1>3, <1>4 DEF seal_read, Becomes

\* The next candidate starts over in the same month and with nothing known of it.
LEMMA NextCandidateIs ==
  ASSUME req \in [Requests -> RequestRecord], NEW r \in Requests, next_candidate(r)
  PROVE  /\ req[r].pc = "txn" /\ UNCHANGED <<Unmoved, tenant, Counters>>
         /\ req' = [req EXCEPT ![r] = req'[r]]
         /\ req'[r].pc \in {"seal", "refused"} /\ req'[r].p = req[r].p
  <1>1. req[r] \in RequestRecord
    OBVIOUS
  <1>2. ASSUME NEW n, req' = [req EXCEPT ![r] = [req[r] EXCEPT !.pc = "seal", !.i = n, !.base = None, !.g = 0]]
        PROVE  /\ req' = [req EXCEPT ![r] = req'[r]] /\ req'[r].pc = "seal" /\ req'[r].p = req[r].p
    BY <1>1, <1>2 DEF RequestRecord
  <1>3. Go(r, "refused") \/
        \E n : req' = [req EXCEPT ![r] = [req[r] EXCEPT !.pc = "seal", !.i = n, !.base = None, !.g = 0]]
    BY DEF next_candidate, Becomes
  <1>4. req[r].pc = "txn" /\ UNCHANGED <<Unmoved, tenant, Counters>>
    BY DEF next_candidate
  <1> QED  BY <1>2, <1>3, <1>4, GoIs

\* What a request is charged for is a natural number.
LEMMA PriceIsNatural ==
  ASSUME TypeOK, NEW r \in Requests
  PROVE  /\ req[r] \in RequestRecord
         /\ Model(r) \in Models /\ Price(r) \in Nat
         /\ QuotaOf[Model(r)] \in Nat \cup {None}
         /\ req[r].p \in Periods
         /\ pool[req[r].p] \in PoolRecord
  <1>1. req[r] \in RequestRecord
    BY DEF TypeOK
  <1>2. req[r].i \in 1 .. Len(Chain)
    BY <1>1 DEF RequestRecord
  <1>3. Chain[req[r].i] \in Models
    BY <1>2, FiguresAssumption
  <1>4. Cost[Model(r)] \in Nat /\ QuotaOf[Model(r)] \in Nat \cup {None}
    BY <1>3, FiguresAssumption DEF Model
  <1>5. req[r].p \in Periods /\ pool[req[r].p] \in PoolRecord
    BY <1>1 DEF RequestRecord, TypeOK
  <1> QED  BY <1>1, <1>3, <1>4, <1>5 DEF Model, Price

\* The initial state is typed.
LEMMA InitTyped == Init => TypeOK
  <1> SUFFICES ASSUME Init PROVE TypeOK
    OBVIOUS
  <1>1. 1 \in Periods /\ 0 \in Figures /\ None \in Figures /\ None \in Int
    BY AdmissionAssumption DEF Periods, Figures, None
  <1>2. tenant \in TenantRecord /\ acked \in [Periods -> Figures]
    BY <1>1 DEF Init, TenantRecord
  <1>3. 1 \in 1 .. Len(Chain)
    BY FiguresAssumption
  <1>4. NoRequest \in RequestRecord
    BY <1>1, <1>3 DEF NoRequest, RequestRecord, PCs
  <1>5. NoWrite \in SetterRecord
    BY <1>1 DEF NoWrite, SetterRecord
  <1>6. pool \in [Periods -> PoolRecord]
    BY DEF Init, PoolRecord
  <1>7. credit \in [total : Nat, used : Int]
    <2>1. Totals \subseteq Nat
      BY FiguresAssumption
    <2>2. PICK t \in Totals : credit = [total |-> t, used |-> 0]
      BY DEF Init
    <2> QED  BY <2>1, <2>2
  <1>8. used \in [Periods -> Int] /\ granted \in [Periods -> Int] /\ quota \in [Models -> [Periods -> Int]]
    BY DEF Init
  <1>9. req \in [Requests -> RequestRecord] /\ setter \in [Setters -> SetterRecord]
    BY <1>4, <1>5 DEF Init
  <1>10. grant \in [GrantIds -> [status : {"none", "ACTIVE", "REVOKED"}, at : Periods]] /\ period \in Periods
    BY <1>1 DEF Init
  <1> QED  BY <1>2, <1>6, <1>7, <1>8, <1>9, <1>10 DEF TypeOK

\* A request that becomes another record leaves the table typed.
LEMMA RequestTyped ==
  ASSUME TypeOK, NEW r \in Requests, NEW n \in RequestRecord, Becomes(r, n)
  PROVE  req' \in [Requests -> RequestRecord]
  BY DEF TypeOK, Becomes

\* A step that moves one request and no counter.
LEMMA OnlyRequestMoves ==
  ASSUME TypeOK, NEW r \in Requests, NEW n \in RequestRecord, Becomes(r, n),
         UNCHANGED <<period, acked, granted, setter, grant, tenant, used, quota, pool, credit>>
  PROVE  TypeOK'
  <1>1. req' \in [Requests -> RequestRecord]
    BY RequestTyped
  <1> QED  BY <1>1 DEF TypeOK

\* Moving on is typed.
LEMMA GoTyped ==
  ASSUME NEW n \in RequestRecord, NEW pc \in PCs
  PROVE  [n EXCEPT !.pc = pc] \in RequestRecord
  BY DEF RequestRecord

\* A request that goes on without a ceiling of its own.
LEMMA UnboundedTyped ==
  ASSUME NEW n \in RequestRecord, NEW pc \in PCs, NEW i \in 1 .. Len(Chain)
  PROVE  /\ [n EXCEPT !.pc = pc, !.base = None, !.g = 0] \in RequestRecord
         /\ [n EXCEPT !.pc = pc, !.i = i, !.base = None, !.g = 0] \in RequestRecord
  <1>1. PICK b \in Figures : b = None
    BY DEF Figures
  <1>2. PICK z \in Int : z = 0
    OBVIOUS
  <1>3. /\ [n EXCEPT !.pc = pc, !.base = b, !.g = z] \in RequestRecord
        /\ [n EXCEPT !.pc = pc, !.i = i, !.base = b, !.g = z] \in RequestRecord
    BY DEF RequestRecord
  <1> QED  BY <1>1, <1>2, <1>3

\* Every step of an admission is typed.
LEMMA AdmitTyped ==
  ASSUME TypeOK, NEW r \in Requests, Admit(r)
  PROVE  TypeOK'
  <1>0. /\ req[r] \in RequestRecord /\ req[r].p \in Periods /\ period \in Periods
        /\ Model(r) \in Models /\ Price(r) \in Nat /\ None \in Figures
    BY PriceIsNatural DEF TypeOK, Figures
  <1>1. CASE reserve_credit_for_model(r)
    <2>1. [req[r] EXCEPT !.pc = "seal", !.p = period] \in RequestRecord
      BY <1>0 DEF RequestRecord, PCs
    <2> QED  BY <1>1, <2>1, OnlyRequestMoves DEF reserve_credit_for_model, Unmoved, Counters
  <1>2. CASE seal_read(r)
    <2> DEFINE b == tenant.sealed[req[r].p]
               d == resolve_user_dollar_default(tenant.defaults, req[r].p)
    <2>1. b \in Figures /\ tenant.version \in Nat
      BY <1>0 DEF TypeOK, TenantRecord
    <2>2. d \in Figures
      <3>1. tenant.defaults \in [Periods -> Figures]
        BY DEF TypeOK, TenantRecord
      <3> QED  BY <1>0, <3>1, ResolvedIsThere
    <2>3. /\ [req[r] EXCEPT !.pc = "granted", !.base = b] \in RequestRecord
          /\ [req[r] EXCEPT !.pc = "txn", !.base = None, !.g = 0] \in RequestRecord
          /\ [req[r] EXCEPT !.pc = "sealing", !.base = d, !.seen = tenant.version] \in RequestRecord
      <3> HIDE DEF b, d
      <3>1. [req[r] EXCEPT !.pc = "granted", !.base = b] \in RequestRecord
        BY <1>0, <2>1 DEF RequestRecord, PCs
      <3>2. [req[r] EXCEPT !.pc = "txn", !.base = None, !.g = 0] \in RequestRecord
        <4>1. req[r].i \in 1 .. Len(Chain)
          BY <1>0 DEF RequestRecord
        <4> QED  BY <1>0, <4>1, UnboundedTyped DEF PCs
      <3>3. [req[r] EXCEPT !.pc = "sealing", !.base = d, !.seen = tenant.version] \in RequestRecord
        <4>1. tenant.version \in Int
          BY <2>1
        <4> QED  BY <1>0, <4>1, <2>2 DEF RequestRecord, PCs
      <3> QED  BY <3>1, <3>2, <3>3
    <2> QED  BY <1>2, <2>3, OnlyRequestMoves DEF seal_read, Unmoved, Counters
  <1>3. CASE seal_write(r)
    <2>1. PICK n \in RequestRecord : Becomes(r, n)
      BY <1>0, <1>3, GoTyped DEF seal_write, Go, PCs
    <2>2. req[r].base \in Figures
      BY <1>0 DEF RequestRecord
    <2>3. tenant' \in TenantRecord
      <3>1. Without(tenant.sealed, seals_to_prune(tenant.sealed)) \in [Periods -> Figures]
        BY <1>0 DEF Without, TypeOK, TenantRecord
      <3>2. [tenant EXCEPT !.sealed = [Without(@, seals_to_prune(@)) EXCEPT ![req[r].p] = req[r].base]]
              \in TenantRecord
        BY <1>0, <2>2, <3>1 DEF TypeOK, TenantRecord
      <3> QED  BY <1>3, <3>2 DEF seal_write, TypeOK
    <2>4. req' \in [Requests -> RequestRecord]
      BY <2>1, RequestTyped
    <2> QED  BY <1>3, <2>3, <2>4 DEF seal_write, TypeOK, Unmoved, Counters
  <1>4. CASE read_granted_microusd(r)
    <2>1. granted[req[r].p] \in Int
      BY <1>0 DEF TypeOK
    <2>2. [req[r] EXCEPT !.pc = "txn", !.g = granted[req[r].p]] \in RequestRecord
      BY <1>0, <2>1 DEF RequestRecord, PCs
    <2> QED  BY <1>4, <2>2, OnlyRequestMoves DEF read_granted_microusd, Unmoved, Counters
  <1>5. ASSUME WallItems(r), pool' \in [Periods -> PoolRecord] PROVE TypeOK'
    <2>1. req' \in [Requests -> RequestRecord]
      <3>1. [req[r] EXCEPT !.pc = "live", !.hold = (pool[req[r].p].status # "none"),
               !.quota = (QuotaOf[Model(r)] # None), !.uq = (req[r].base # None)] \in RequestRecord
        BY <1>0 DEF RequestRecord, PCs
      <3> QED  BY <1>5, <3>1, RequestTyped DEF WallItems
    <2>2. used' \in [Periods -> Int]
      BY <1>0, <1>5 DEF WallItems, TypeOK
    <2>3. quota' \in [Models -> [Periods -> Int]]
      BY <1>0, <1>5 DEF WallItems, TypeOK
    <2>4. credit' \in [total : Nat, used : Int]
      <3>1. Tokens \in Nat
        BY FiguresAssumption
      <3> QED  BY <1>5, <3>1 DEF WallItems, TypeOK
    <2> QED  BY <1>5, <2>1, <2>2, <2>3, <2>4 DEF WallItems, TypeOK, Unmoved
  <1>6. CASE reserve_credit(r)
    <2>1. pool' \in [Periods -> PoolRecord]
      BY <1>0, <1>6 DEF reserve_credit, TypeOK, PoolRecord
    <2> QED  BY <1>5, <1>6, <2>1 DEF reserve_credit
  <1>7. CASE reserve_quota_without_pool(r)
    BY <1>5, <1>7 DEF reserve_quota_without_pool, TypeOK
  <1>8. CASE next_candidate(r)
    <2>1. req[r].i < Len(Chain) =>
            [req[r] EXCEPT !.pc = "seal", !.i = @ + 1, !.base = None, !.g = 0] \in RequestRecord
      <3>1. Len(Chain) \in Nat
        BY FiguresAssumption
      <3>2. req[r].i \in 1 .. Len(Chain)
        BY <1>0 DEF RequestRecord
      <3>3. req[r].i < Len(Chain) => req[r].i + 1 \in 1 .. Len(Chain)
        BY <3>1, <3>2
      <3> QED  BY <1>0, <3>3, UnboundedTyped DEF PCs
    <2>2. [req[r] EXCEPT !.pc = "refused"] \in RequestRecord
      BY <1>0, GoTyped DEF PCs
    <2> QED  BY <1>8, <2>1, <2>2, OnlyRequestMoves DEF next_candidate, Go, Unmoved, Counters
  <1>9. CASE refuse(r)
    <2>1. [req[r] EXCEPT !.pc = "refused"] \in RequestRecord
      BY <1>0, GoTyped DEF PCs
    <2> QED  BY <1>9, <2>1, OnlyRequestMoves DEF refuse, Go, Unmoved, Counters
  <1> QED
    BY <1>1, <1>2, <1>3, <1>4, <1>6, <1>7, <1>8, <1>9 DEF Admit

\* The counters of the tenant: credit, quotas, ceiling and pool.
CountersTyped ==
  /\ used \in [Periods -> Int]
  /\ quota \in [Models -> [Periods -> Int]]
  /\ pool \in [Periods -> PoolRecord]
  /\ credit \in [total : Nat, used : Int]

\* A step that moves one request and the counters.
LEMMA CountersMove ==
  ASSUME TypeOK, NEW r \in Requests, NEW n \in RequestRecord, Becomes(r, n), CountersTyped',
         UNCHANGED <<period, acked, granted, setter, grant, tenant>>
  PROVE  TypeOK'
  <1>1. req' \in [Requests -> RequestRecord]
    BY RequestTyped
  <1> QED  BY <1>1 DEF TypeOK, CountersTyped

\* PoolMove is typed.
LEMMA PoolMoveTyped ==
  ASSUME TypeOK, NEW r \in Requests, NEW d \in Int, PoolMove(r, d)
  PROVE  pool' \in [Periods -> PoolRecord]
  <1>1. req[r].p \in Periods
    BY PriceIsNatural
  <1>2. pool \in [Periods -> PoolRecord] /\ pool[req[r].p] \in PoolRecord
    BY <1>1 DEF TypeOK
  <1>3. [pool[req[r].p] EXCEPT !.committed = @ + d] \in PoolRecord
    BY <1>2 DEF PoolRecord
  <1> QED  BY <1>1, <1>2, <1>3 DEF PoolMove

\* Adjust is typed.
LEMMA AdjustTyped ==
  ASSUME TypeOK, NEW r \in Requests, NEW d \in Int, Adjust(r, d)
  PROVE  used' \in [Periods -> Int] /\ quota' \in [Models -> [Periods -> Int]]
  <1>1. req[r].p \in Periods /\ Model(r) \in Models
    BY PriceIsNatural
  <1>2. used' \in [Periods -> Int]
    BY <1>1 DEF Adjust, TypeOK
  <1>3. quota' \in [Models -> [Periods -> Int]]
    BY <1>1 DEF Adjust, TypeOK
  <1> QED  BY <1>2, <1>3

\* refund is typed.
LEMMA RefundTyped ==
  ASSUME TypeOK, NEW t \in Nat, refund(t)
  PROVE  credit' \in [total : Nat, used : Int]
  BY DEF refund, TypeOK

\* settle_tokens is typed.
LEMMA SettleTokensTyped ==
  ASSUME TypeOK, NEW t \in Nat, settle_tokens(t)
  PROVE  credit' \in [total : Nat, used : Int]
  <1> DEFINE left == Max({credit.total - credit.used, 0})
  <1>1. Tokens \in Nat
    BY FiguresAssumption
  <1>2. CASE t <= Tokens
    <2>1. refund(Tokens - t) /\ Tokens - t \in Nat
      BY <1>1, <1>2 DEF settle_tokens
    <2> QED  BY <2>1, RefundTyped
  <1>3. CASE ~(t <= Tokens)
    <2>1. left \in Int
      <3>1. credit.total - credit.used \in Int
        BY DEF TypeOK
      <3> DEFINE x == credit.total - credit.used
      <3>2. \E y \in {x, 0} : \A z \in {x, 0} : y >= z
        <4> HIDE DEF x
        <4>1. x \in Int
          BY <3>1 DEF x
        <4>2. CASE x >= 0
          BY <4>1, <4>2
        <4>3. CASE ~(x >= 0)
          BY <4>1, <4>3
        <4> QED  BY <4>2, <4>3
      <3>3. left \in {x, 0}
        BY <3>2, Zenon DEF Max
      <3> QED  BY <3>1, <3>3
    <2> HIDE DEF left
    <2>2. PICK more \in {t - Tokens, left, 0} : credit' = [credit EXCEPT !.used = @ + more]
      BY <1>3 DEF settle_tokens, left
    <2>3. more \in Int
      BY <1>1, <2>1, <2>2
    <2> QED  BY <2>2, <2>3 DEF TypeOK
  <1> QED  BY <1>2, <1>3

\* hold_counter_reversal is typed.
LEMMA ReversalTyped ==
  ASSUME TypeOK, NEW r \in Requests, hold_counter_reversal(r)
  PROVE  /\ used' \in [Periods -> Int] /\ quota' \in [Models -> [Periods -> Int]]
         /\ credit' \in [total : Nat, used : Int]
  <1>1. CASE credit.used >= Tokens
    <2>1. -Price(r) \in Int /\ Tokens \in Nat
      BY PriceIsNatural, FiguresAssumption
    <2>2. refund(Tokens) /\ Adjust(r, -Price(r))
      BY <1>1 DEF hold_counter_reversal
    <2> QED  BY <2>1, <2>2, RefundTyped, AdjustTyped
  <1>2. CASE ~(credit.used >= Tokens)
    BY <1>2 DEF hold_counter_reversal, TypeOK
  <1> QED  BY <1>1, <1>2

\* Every step of an ending is typed.
LEMMA EndTyped ==
  ASSUME TypeOK, NEW r \in Requests, End(r)
  PROVE  TypeOK'
  <1>0. /\ req[r] \in RequestRecord /\ req[r].p \in Periods /\ req[r].actual \in Nat
        /\ Price(r) \in Nat /\ CountersTyped
    BY PriceIsNatural DEF TypeOK, RequestRecord, CountersTyped
  <1>00. \A pc \in PCs : [req[r] EXCEPT !.pc = pc] \in RequestRecord
    BY <1>0, GoTyped
  <1>000. \A pc \in PCs : [req[r] EXCEPT !.pc = pc, !.hold = FALSE] \in RequestRecord
    BY <1>0 DEF RequestRecord
  <1>1. ASSUME NEW a \in Actuals, NEW t \in TokensUsed, settle_reservation(r, a, t)
        PROVE  TypeOK'
    <2>1. [req[r] EXCEPT !.pc = "settling", !.actual = a] \in RequestRecord
      BY <1>0, FiguresAssumption DEF RequestRecord, PCs
    <2>2. credit' \in [total : Nat, used : Int]
      <3>1. t \in Nat
        BY FiguresAssumption
      <3> QED  BY <1>1, <3>1, SettleTokensTyped DEF settle_reservation
    <2>3. CountersTyped'
      BY <1>0, <1>1, <2>2 DEF settle_reservation, CountersTyped
    <2> QED  BY <1>1, <2>1, <2>3, CountersMove DEF settle_reservation, Unmoved
  <1>2. CASE settle_pool_side(r)
    <2>1. [req[r] EXCEPT !.pc = "settled_pool", !.hold = FALSE] \in RequestRecord
      BY <1>000 DEF PCs
    <2>2. pool' \in [Periods -> PoolRecord]
      <3>1. req[r].actual - Price(r) \in Int /\ req[r].actual \in Int
        BY <1>0
      <3>2. \/ UNCHANGED pool \/ PoolMove(r, req[r].actual - Price(r))
            \/ PoolMove(r, req[r].actual)
        BY <1>2 DEF settle_pool_side
      <3> QED  BY <1>0, <3>1, <3>2, PoolMoveTyped DEF CountersTyped
    <2>3. CountersTyped'
      BY <1>0, <1>2, <2>2 DEF settle_pool_side, CountersTyped
    <2> QED  BY <1>2, <2>1, <2>3, CountersMove DEF settle_pool_side, Unmoved
  <1>3. CASE settle_quota_for(r)
    <2>1. req[r].actual - Price(r) \in Int
      BY <1>0
    <2>2. used' \in [Periods -> Int] /\ quota' \in [Models -> [Periods -> Int]]
      BY <1>3, <2>1, AdjustTyped DEF settle_quota_for
    <2>3. CountersTyped'
      BY <1>0, <1>3, <2>2 DEF settle_quota_for, CountersTyped
    <2>4. [req[r] EXCEPT !.pc = "settled"] \in RequestRecord
      BY <1>00 DEF PCs
    <2> QED  BY <1>3, <2>3, <2>4, CountersMove DEF settle_quota_for, Go, Unmoved
  <1>4. CASE return_reservation(r)
    <2>1. [req[r] EXCEPT !.pc = "released_pool", !.hold = FALSE] \in RequestRecord
      BY <1>000 DEF PCs
    <2>2. pool' \in [Periods -> PoolRecord]
      <3>1. -Price(r) \in Int
        BY <1>0
      <3>2. UNCHANGED pool \/ PoolMove(r, -Price(r))
        BY <1>4 DEF return_reservation
      <3> QED  BY <1>0, <3>1, <3>2, PoolMoveTyped DEF CountersTyped
    <2>3. credit' \in [total : Nat, used : Int]
      BY <1>4, FiguresAssumption, RefundTyped DEF return_reservation
    <2>4. CountersTyped'
      BY <1>0, <1>4, <2>2, <2>3 DEF return_reservation, CountersTyped
    <2> QED  BY <1>4, <2>1, <2>4, CountersMove DEF return_reservation, Unmoved
  <1>5. CASE release_quota_for(r)
    <2>1. -Price(r) \in Int
      BY <1>0
    <2>2. used' \in [Periods -> Int] /\ quota' \in [Models -> [Periods -> Int]]
      BY <1>5, <2>1, AdjustTyped DEF release_quota_for
    <2>3. CountersTyped'
      BY <1>0, <1>5, <2>2 DEF release_quota_for, CountersTyped
    <2>4. [req[r] EXCEPT !.pc = "released"] \in RequestRecord
      BY <1>00 DEF PCs
    <2> QED  BY <1>5, <2>3, <2>4, CountersMove DEF release_quota_for, Go, Unmoved
  <1>6. CASE adjust_fails(r)
    <2>1. PICK pc \in {"settled", "released"} : Go(r, pc)
      BY <1>6 DEF adjust_fails
    <2>2. [req[r] EXCEPT !.pc = pc] \in RequestRecord
      BY <1>00 DEF PCs
    <2> QED  BY <1>6, <2>1, <2>2, OnlyRequestMoves DEF adjust_fails, Go, Counters
  <1>7. CASE keep_reservation(r)
    <2>1. [req[r] EXCEPT !.pc = "kept"] \in RequestRecord
      BY <1>00 DEF PCs
    <2> QED  BY <1>7, <2>1, OnlyRequestMoves DEF keep_reservation, Go, Unmoved, Counters
  <1>8. CASE crash(r)
    <2>1. PICK pc \in {"dead", "refused"} : Go(r, pc)
      BY <1>8 DEF crash
    <2>2. [req[r] EXCEPT !.pc = pc] \in RequestRecord
      BY <1>00 DEF PCs
    <2> QED  BY <1>8, <2>1, <2>2, OnlyRequestMoves DEF crash, Go, Counters
  <1>9. CASE reclaim(r)
    <2>1. [req[r] EXCEPT !.pc = IF @ = "dead" THEN "reclaimed" ELSE @, !.hold = FALSE] \in RequestRecord
      <3>1. PICK pc \in PCs : pc = IF req[r].pc = "dead" THEN "reclaimed" ELSE req[r].pc
        BY <1>0 DEF RequestRecord, PCs
      <3> QED  BY <1>000, <3>1
    <2>2. pool' \in [Periods -> PoolRecord]
      <3>1. -Price(r) \in Int
        BY <1>0
      <3> QED  BY <1>9, <3>1, PoolMoveTyped DEF reclaim
    <2>3. CountersTyped'
      BY <1>9, <2>2, ReversalTyped DEF reclaim, CountersTyped
    <2> QED  BY <1>9, <2>1, <2>3, CountersMove DEF reclaim, Unmoved
  <1>10. CASE resolve_release(r)
    <2>1. [req[r] EXCEPT !.pc = "reversing", !.hold = FALSE] \in RequestRecord
      BY <1>000 DEF PCs
    <2>2. pool' \in [Periods -> PoolRecord]
      <3>1. -Price(r) \in Int
        BY <1>0
      <3> QED  BY <1>10, <3>1, PoolMoveTyped DEF resolve_release
    <2>3. CountersTyped'
      BY <1>0, <1>10, <2>2 DEF resolve_release, CountersTyped
    <2> QED  BY <1>10, <2>1, <2>3, CountersMove DEF resolve_release, Unmoved
  <1>11. CASE reverse_retained_hold_counters(r)
    <2>1. [req[r] EXCEPT !.pc = "released"] \in RequestRecord
      BY <1>00 DEF PCs
    <2>2. CountersTyped'
      BY <1>0, <1>11, ReversalTyped DEF reverse_retained_hold_counters, CountersTyped
    <2> QED  BY <1>11, <2>1, <2>2, CountersMove DEF reverse_retained_hold_counters, Go, Unmoved
  <1>12. ASSUME NEW a \in Actuals, resolve_charge(r, a) PROVE TypeOK'
    <2>0. a \in Nat
      BY FiguresAssumption
    <2>1. [req[r] EXCEPT !.pc = "charged", !.hold = FALSE, !.actual = a] \in RequestRecord
      BY <1>0, <2>0 DEF RequestRecord, PCs
    <2>2. pool' \in [Periods -> PoolRecord]
      <3>1. a - Price(r) \in Int
        BY <1>0, <2>0
      <3> QED  BY <1>12, <3>1, PoolMoveTyped DEF resolve_charge
    <2>3. CountersTyped'
      BY <1>0, <1>12, <2>2 DEF resolve_charge, CountersTyped
    <2> QED  BY <1>12, <2>1, <2>3, CountersMove DEF resolve_charge, Unmoved
  <1> QED
    BY <1>1, <1>2, <1>3, <1>4, <1>5, <1>6, <1>7, <1>8, <1>9, <1>10, <1>11, <1>12, Zenon DEF End

\* default_read is typed.
LEMMA ReadTyped ==
  ASSUME TypeOK, NEW s \in Setters, NEW e \in Periods, NEW a \in Nat, default_read(s, e, a)
  PROVE  TypeOK'
  <1>1. defaults_to_prune(tenant.defaults) \in SUBSET Periods
    <2>1. 1 .. period \subseteq Periods
      BY AdmissionAssumption DEF TypeOK, Periods
    <2> QED  BY <2>1 DEF defaults_to_prune
  <1>2. (tenant.version = 0) \in BOOLEAN
    OBVIOUS
  <1>3. [pc |-> "write", at |-> e, amount |-> a, prune |-> defaults_to_prune(tenant.defaults),
         first |-> (tenant.version = 0)] \in SetterRecord
    BY <1>1, <1>2 DEF SetterRecord
  <1> QED  BY <1>3 DEF default_read, TypeOK

\* An idle administrator is typed.
LEMMA NoWriteTyped == NoWrite \in SetterRecord
  BY AdmissionAssumption DEF NoWrite, SetterRecord, Periods

\* Every administrative step is typed.
LEMMA AdministrationTyped ==
  ASSUME TypeOK, Administration
  PROVE  TypeOK'
  <1>0. period \in Periods
    BY DEF TypeOK
  <1>1. ASSUME NEW s \in Setters, NEW e \in Periods, NEW a \in Bases, set_user_dollar_default(s, e, a)
        PROVE  TypeOK'
    BY <1>1, ReadTyped, FiguresAssumption DEF set_user_dollar_default
  <1>2. ASSUME NEW s \in Setters, default_write(s) PROVE TypeOK'
    <2> DEFINE w == setter[s]
               d == [Without(tenant.defaults, w.prune) EXCEPT ![w.at] = w.amount]
               t == [tenant EXCEPT !.version = @ + 1,
                       !.defaults = [Without(@, w.prune) EXCEPT ![w.at] = w.amount]]
    <2>1. w \in SetterRecord
      BY DEF TypeOK
    <2>2. w.at \in Periods /\ w.amount \in Figures /\ None \in Figures
      BY <2>1 DEF SetterRecord, Figures
    <2>3. t \in TenantRecord
      <3>1. Without(tenant.defaults, w.prune) \in [Periods -> Figures]
        BY <2>2 DEF Without, TypeOK, TenantRecord
      <3>2. d \in [Periods -> Figures]
        BY <2>2, <3>1
      <3>3. tenant.version + 1 \in Nat /\ tenant \in TenantRecord
        BY DEF TypeOK, TenantRecord
      <3>4. t = [tenant EXCEPT !.version = tenant.version + 1, !.defaults = d]
        BY <3>3 DEF TenantRecord
      <3> HIDE DEF d, t
      <3> QED  BY <3>2, <3>3, <3>4 DEF TenantRecord
    <2>4. [acked EXCEPT ![w.at] = w.amount] \in [Periods -> Figures]
      BY <2>2 DEF TypeOK
    <2>5. [w EXCEPT !.pc = "again"] \in SetterRecord
      BY <2>1 DEF SetterRecord
    <2>6. [setter EXCEPT ![s] = NoWrite] \in [Setters -> SetterRecord]
      BY NoWriteTyped DEF TypeOK
    <2>7. [setter EXCEPT ![s].pc = "again"] \in [Setters -> SetterRecord]
      BY <2>5 DEF TypeOK
    <2>8. /\ tenant' = t \/ tenant' = tenant
          /\ acked' = [acked EXCEPT ![w.at] = w.amount] \/ acked' = acked
          /\ setter' = [setter EXCEPT ![s] = NoWrite] \/ setter' = [setter EXCEPT ![s].pc = "again"]
      BY <1>2 DEF default_write
    <2> HIDE DEF w, t
    <2> QED  BY <1>2, <2>3, <2>4, <2>6, <2>7, <2>8 DEF default_write, TypeOK
  <1>3. ASSUME NEW s \in Setters, default_again(s) PROVE TypeOK'
    <2>1. setter[s].at \in Periods /\ setter[s].amount \in Nat
      BY DEF TypeOK, SetterRecord
    <2>2. CASE default_read(s, setter[s].at, setter[s].amount)
      BY <2>1, <2>2, ReadTyped
    <2>3. CASE ~default_read(s, setter[s].at, setter[s].amount)
      <3>1. /\ setter' = [setter EXCEPT ![s] = NoWrite]
            /\ UNCHANGED <<period, tenant, acked, used, granted, quota, pool, credit, req, grant>>
        BY <1>3, <2>3 DEF default_again
      <3> QED  BY <3>1, NoWriteTyped DEF TypeOK
    <2> QED  BY <2>2, <2>3
  <1>4. ASSUME NEW g \in GrantIds, approve_user_raise(g) PROVE TypeOK'
    <2>1. granted' \in [Periods -> Int]
      BY <1>0, <1>4, FiguresAssumption DEF approve_user_raise, TypeOK
    <2>2. grant' \in [GrantIds -> [status : {"none", "ACTIVE", "REVOKED"}, at : Periods]]
      BY <1>0, <1>4 DEF approve_user_raise, TypeOK
    <2> QED  BY <1>4, <2>1, <2>2 DEF approve_user_raise, TypeOK, Counters
  <1>5. ASSUME NEW g \in GrantIds, revoke_user_raise(g) PROVE TypeOK'
    <2>1. granted' \in [Periods -> Int]
      <3>1. grant[g].at \in Periods /\ GrantAmount \in Nat
        BY FiguresAssumption DEF TypeOK
      <3> QED  BY <1>5, <3>1 DEF revoke_user_raise, TypeOK
    <2>2. grant' \in [GrantIds -> [status : {"none", "ACTIVE", "REVOKED"}, at : Periods]]
      BY <1>5 DEF revoke_user_raise, TypeOK
    <2> QED  BY <1>5, <2>1, <2>2 DEF revoke_user_raise, TypeOK, Counters
  <1>6. ASSUME NEW total \in Totals, NEW reset \in BOOLEAN, overwrite_credit(total, reset)
        PROVE  TypeOK'
    <2>1. credit' \in [total : Nat, used : Int]
      <3>1. total \in Nat /\ credit.used \in Int
        BY FiguresAssumption DEF TypeOK
      <3> QED  BY <1>6, <3>1 DEF overwrite_credit
    <2> QED  BY <1>6, <2>1 DEF overwrite_credit, TypeOK
  <1>7. ASSUME NEW status \in {"active", "suspended"}, set_pool(status) PROVE TypeOK'
    <2>1. pool' \in [Periods -> PoolRecord]
      <3>1. pool \in [Periods -> PoolRecord] /\ pool[period] \in PoolRecord
        BY <1>0 DEF TypeOK
      <3>2. [pool[period] EXCEPT !.status = status] \in PoolRecord
        BY <3>1 DEF PoolRecord
      <3> QED  BY <1>0, <1>7, <3>1, <3>2 DEF set_pool
    <2> QED  BY <1>7, <2>1 DEF set_pool, TypeOK
  <1>8. CASE ensure_current_period_row
    <2>1. pool' \in [Periods -> PoolRecord]
      <3>1. period > 1 /\ period - 1 \in Periods
        BY <1>0, <1>8, AdmissionAssumption DEF ensure_current_period_row, previously_pooled, Periods
      <3>2. /\ pool \in [Periods -> PoolRecord] /\ pool[period] \in PoolRecord
            /\ pool[period - 1] \in PoolRecord
        BY <1>0, <3>1 DEF TypeOK
      <3>3. [pool[period] EXCEPT !.status = pool[period - 1].status] \in PoolRecord
        BY <3>2 DEF PoolRecord
      <3> QED  BY <1>0, <1>8, <3>2, <3>3 DEF ensure_current_period_row
    <2> QED  BY <1>8, <2>1 DEF ensure_current_period_row, TypeOK
  <1>9. CASE \E s \in Setters :
              \/ \E e \in Periods, a \in Bases : set_user_dollar_default(s, e, a)
              \/ default_write(s)
              \/ default_again(s)
    BY <1>1, <1>2, <1>3, <1>9
  <1>10. CASE \E g \in GrantIds : approve_user_raise(g) \/ revoke_user_raise(g)
    BY <1>4, <1>5, <1>10
  <1>11. CASE \E total \in Totals, reset \in BOOLEAN :
                set_credit(total, reset) \/ set_member_credit(total, reset)
    BY <1>6, <1>11 DEF set_credit, set_member_credit
  <1> QED
    BY <1>7, <1>8, <1>9, <1>10, <1>11, Zenon DEF Administration

\* The tick of the calendar moves nothing else.
LEMMA TickTyped == TypeOK /\ tick => TypeOK'
  <1> SUFFICES ASSUME TypeOK, tick PROVE TypeOK'
    OBVIOUS
  <1>1. period' \in Periods
    BY AdmissionAssumption DEF tick, TypeOK, Periods
  <1> QED  BY <1>1 DEF tick, TypeOK

\* TypeOK is inductive.
LEMMA StepTyped == TypeOK /\ [Next]_vars => TypeOK'
  <1> SUFFICES ASSUME TypeOK, [Next]_vars PROVE TypeOK'
    OBVIOUS
  <1>1. CASE Administration
    BY <1>1, AdministrationTyped
  <1>2. ASSUME NEW r \in Requests, Admit(r) \/ End(r) PROVE TypeOK'
    BY <1>2, AdmitTyped, EndTyped
  <1>3. CASE tick
    BY <1>3, TickTyped
  <1>4. CASE UNCHANGED vars
    BY <1>4 DEF vars, TypeOK
  <1> QED  BY <1>1, <1>2, <1>3, <1>4 DEF Next

(***************************************************************************)
(* The default that a period is sealed with.                               *)
(***************************************************************************)
\* The requests that are still being admitted.
Flight == {"seal", "sealing", "granted", "txn"}

\* What the row keeps is what its setters were told; it only drops a default when
\* it has dropped all earlier ones too, and all of them are in the past.
DefaultsKept ==
  \A q \in Periods :
    /\ tenant.defaults[q] # None => acked[q] = tenant.defaults[q]
    /\ acked[q] # None /\ tenant.defaults[q] = None =>
         q < period /\ \A e \in 1 .. q : tenant.defaults[e] = None

\* Seals are for months that have begun, and with the default told to be in force.
SealsRight ==
  \A p \in Periods : tenant.sealed[p] # None =>
    p <= period /\ tenant.sealed[p] = resolve_user_dollar_default(acked, p)

\* A write in flight is for a month that is not over, and what it means to drop is
\* past and closed downwards.
WritesRight ==
  \A s \in Setters : setter[s].pc # "idle" =>
    /\ setter[s].at >= period
    /\ \A q \in setter[s].prune :
         setter[s].pc = "write" =>
           q < period /\ \A e \in 1 .. q : e \in setter[s].prune \/ tenant.defaults[e] = None

\* A request about to seal has the default of the version that it read.
SealersRight ==
  \A r \in Requests :
    /\ req[r].p <= period
    /\ req[r].pc = "sealing" =>
         /\ req[r].base # None /\ req[r].seen <= tenant.version
         /\ req[r].seen = tenant.version =>
              req[r].base = resolve_user_dollar_default(tenant.defaults, req[r].p)

SealInv == TypeOK /\ DefaultsKept /\ SealsRight /\ WritesRight /\ SealersRight

\* Dropping superseded defaults never changes what a month resolves to.
LEMMA PruningKeepsTheDefault ==
  ASSUME TypeOK, DefaultsKept, NEW p \in Periods,
         resolve_user_dollar_default(tenant.defaults, p) # None
  PROVE  resolve_user_dollar_default(tenant.defaults, p) = resolve_user_dollar_default(acked, p)
  <1>0. tenant.defaults \in [Periods -> Figures] /\ acked \in [Periods -> Figures]
    BY DEF TypeOK, TenantRecord
  <1>1. p \in Nat /\ 1 .. p \subseteq Periods
    BY AdmissionAssumption DEF Periods
  <1>2. PICK q \in 1 .. p : /\ tenant.defaults[q] # None
                            /\ resolve_user_dollar_default(tenant.defaults, p) = tenant.defaults[q]
                            /\ \A e \in 1 .. p : e > q => tenant.defaults[e] = None
    BY <1>0, ResolvedIsThere, Zenon
  <1>3. acked[q] = tenant.defaults[q]
    BY <1>1, <1>2 DEF DefaultsKept
  <1>4. resolve_user_dollar_default(acked, p) # None
    BY <1>0, <1>2, <1>3, ResolvedIsThere, Zenon
  <1>5. PICK l \in 1 .. p : /\ acked[l] # None
                            /\ resolve_user_dollar_default(acked, p) = acked[l]
                            /\ \A e \in 1 .. p : e > l => acked[e] = None
    BY <1>0, <1>4, ResolvedIsThere, Zenon
  <1>6. ~(q > l)
    BY <1>2, <1>3, <1>5
  <1>7. ~(l > q)
    <2> SUFFICES ASSUME l > q PROVE FALSE
      OBVIOUS
    <2>1. tenant.defaults[l] = None
      BY <1>2
    <2>2. \A e \in 1 .. l : tenant.defaults[e] = None
      BY <1>1, <1>5, <2>1 DEF DefaultsKept
    <2>3. q \in 1 .. l
      BY <1>1
    <2> QED  BY <1>2, <2>2, <2>3
  <1>8. l = q
    BY <1>1, <1>6, <1>7
  <1> QED  BY <1>2, <1>3, <1>5, <1>8

\* What an ending leaves alone.
EndLeaves(r) ==
  /\ req' = [req EXCEPT ![r] = req'[r]]
  /\ req'[r].p = req[r].p /\ req'[r].pc \notin Flight \cup {"idle"}
  /\ req[r].pc = "txn" => req'[r].pc # "live"
  /\ UNCHANGED <<period, acked, setter, tenant, granted>>

\* Every ending is of that form.
LEMMA EndEffect ==
  ASSUME TypeOK, NEW r \in Requests, End(r)
  PROVE  EndLeaves(r)
  <1>0. req[r] \in RequestRecord /\ req \in [Requests -> RequestRecord]
    BY DEF TypeOK
  <1>1. ASSUME NEW a \in Actuals, NEW t \in TokensUsed, settle_reservation(r, a, t)
        PROVE  EndLeaves(r)
    BY <1>0, <1>1 DEF settle_reservation, EndLeaves, Becomes, Unmoved, RequestRecord, Flight
  <1>2. ASSUME NEW a \in Actuals, resolve_charge(r, a) PROVE EndLeaves(r)
    BY <1>0, <1>2 DEF resolve_charge, EndLeaves, Becomes, Unmoved, RequestRecord, Flight
  <1>3. CASE settle_pool_side(r)
    BY <1>0, <1>3 DEF settle_pool_side, EndLeaves, Go, Becomes, Unmoved, RequestRecord, Flight
  <1>4. CASE settle_quota_for(r)
    BY <1>0, <1>4 DEF settle_quota_for, EndLeaves, Go, Becomes, Unmoved, RequestRecord, Flight
  <1>5. CASE return_reservation(r)
    BY <1>0, <1>5 DEF return_reservation, EndLeaves, Go, Becomes, Unmoved, RequestRecord, Flight
  <1>6. CASE release_quota_for(r)
    BY <1>0, <1>6 DEF release_quota_for, EndLeaves, Go, Becomes, Unmoved, RequestRecord, Flight
  <1>7. CASE adjust_fails(r)
    BY <1>0, <1>7 DEF adjust_fails, EndLeaves, Go, Becomes, Unmoved, RequestRecord, Flight
  <1>8. CASE keep_reservation(r)
    BY <1>0, <1>8 DEF keep_reservation, EndLeaves, Go, Becomes, Unmoved, RequestRecord, Flight
  <1>9. CASE crash(r)
    BY <1>0, <1>9 DEF crash, EndLeaves, Go, Becomes, Unmoved, RequestRecord, Flight
  <1>10. CASE reclaim(r)
    BY <1>0, <1>10 DEF reclaim, EndLeaves, Go, Becomes, Unmoved, RequestRecord, Flight
  <1>11. CASE resolve_release(r)
    BY <1>0, <1>11 DEF resolve_release, EndLeaves, Go, Becomes, Unmoved, RequestRecord, Flight
  <1>12. CASE reverse_retained_hold_counters(r)
    BY <1>0, <1>12 DEF reverse_retained_hold_counters, EndLeaves, Go, Becomes, Unmoved, RequestRecord, Flight
  <1> QED
    BY <1>1, <1>2, <1>3, <1>4, <1>5, <1>6, <1>7, <1>8, <1>9, <1>10, <1>11, <1>12, Zenon DEF End

\* What a step of an admission leaves alone.
LEMMA AdmitEffect ==
  ASSUME TypeOK, NEW r \in Requests, Admit(r)
  PROVE  /\ req' = [req EXCEPT ![r] = req'[r]]
         /\ UNCHANGED <<period, acked, setter, granted>>
         /\ tenant'.defaults = tenant.defaults /\ tenant'.version = tenant.version
         /\ ~seal_write(r) => tenant' = tenant
         /\ req'[r].p \in {req[r].p, period}
  <1> DEFINE Goal == /\ req' = [req EXCEPT ![r] = req'[r]]
                     /\ UNCHANGED <<period, acked, setter, granted>>
                     /\ tenant'.defaults = tenant.defaults /\ tenant'.version = tenant.version
                     /\ ~seal_write(r) => tenant' = tenant
                     /\ req'[r].p \in {req[r].p, period}
  <1>0. /\ req[r] \in RequestRecord /\ req \in [Requests -> RequestRecord]
        /\ tenant \in TenantRecord
    BY DEF TypeOK
  <1>1. CASE reserve_credit_for_model(r)
    BY <1>0, <1>1 DEF reserve_credit_for_model, Go, Becomes, Unmoved, RequestRecord
  <1>2. CASE seal_read(r)
    BY <1>0, <1>2, SealReadIs DEF seal_read, Unmoved
  <1>3. CASE read_granted_microusd(r)
    BY <1>0, <1>3 DEF read_granted_microusd, Go, Becomes, Unmoved, RequestRecord
  <1>4. CASE next_candidate(r)
    BY <1>0, <1>4, NextCandidateIs DEF Unmoved
  <1>5. CASE refuse(r)
    BY <1>0, <1>5, GoIs DEF refuse, Unmoved
  <1>6. ASSUME WallItems(r) PROVE Goal
    BY <1>0, <1>6 DEF WallItems, Becomes, Unmoved, RequestRecord
  <1>7. CASE reserve_credit(r)
    BY <1>6, <1>7 DEF reserve_credit
  <1>8. CASE reserve_quota_without_pool(r)
    BY <1>6, <1>8 DEF reserve_quota_without_pool
  <1>9. CASE seal_write(r)
    <2>1. tenant'.defaults = tenant.defaults /\ tenant'.version = tenant.version
      BY <1>0, <1>9 DEF seal_write, TenantRecord
    <2>2. Go(r, "granted") \/ Go(r, "seal")
      BY <1>9 DEF seal_write
    <2>3. req' = [req EXCEPT ![r] = req'[r]] /\ req'[r].p = req[r].p
      BY <1>0, <2>2, GoIs
    <2> QED  BY <1>9, <2>1, <2>3 DEF seal_write, Unmoved
  <1> QED
    BY <1>1, <1>2, <1>3, <1>4, <1>5, <1>7, <1>8, <1>9, Zenon DEF Admit

\* Before the first month's requests there is nothing to be wrong.
LEMMA InitSealed == Init => SealInv
  <1> SUFFICES ASSUME Init PROVE SealInv
    OBVIOUS
  <1>1. TypeOK
    BY InitTyped
  <1>2. DefaultsKept /\ SealsRight
    BY DEF Init, DefaultsKept, SealsRight
  <1>3. WritesRight
    BY DEF Init, NoWrite, WritesRight
  <1>4. SealersRight
    BY DEF Init, NoRequest, SealersRight
  <1> QED  BY <1>1, <1>2, <1>3, <1>4 DEF SealInv

\* A seal that is written is the default that was told, and dropping old seals harms none.
LEMMA SealWriteSeals ==
  ASSUME SealInv, NEW r \in Requests, seal_write(r)
  PROVE  SealsRight'
  <1> USE DEF SealInv
  <1>0. /\ req[r] \in RequestRecord /\ req[r].p \in Periods /\ tenant \in TenantRecord
        /\ req[r].p <= period
    BY PriceIsNatural DEF TypeOK, SealersRight
  <1>1. period' = period /\ acked' = acked
    BY <1>0 DEF seal_write, Unmoved
  <1>2. CASE tenant' = tenant
    BY <1>1, <1>2 DEF SealsRight
  <1>3. CASE tenant' # tenant
    <2>1. /\ tenant.version = req[r].seen /\ req[r].pc = "sealing"
          /\ tenant' = [tenant EXCEPT !.sealed =
                [Without(@, seals_to_prune(@)) EXCEPT ![req[r].p] = req[r].base]]
      BY <1>3 DEF seal_write
    <2>2. tenant'.sealed = [Without(tenant.sealed, seals_to_prune(tenant.sealed)) EXCEPT ![req[r].p] = req[r].base]
      BY <1>0, <2>1 DEF TenantRecord
    <2>3. /\ req[r].base # None
          /\ req[r].base = resolve_user_dollar_default(tenant.defaults, req[r].p)
      BY <2>1 DEF SealersRight
    <2>4. req[r].base = resolve_user_dollar_default(acked, req[r].p)
      BY <1>0, <2>3, PruningKeepsTheDefault
    <2> SUFFICES ASSUME NEW p \in Periods, tenant'.sealed[p] # None
                 PROVE  p <= period /\ tenant'.sealed[p] = resolve_user_dollar_default(acked, p)
      BY <1>1 DEF SealsRight
    <2>5. CASE p = req[r].p
      BY <1>0, <2>2, <2>4, <2>5 DEF Without
    <2>6. CASE p # req[r].p
      <3>1. tenant'.sealed[p] = tenant.sealed[p]
        BY <1>0, <2>2, <2>6 DEF Without
      <3> QED  BY <3>1 DEF SealsRight
    <2> QED  BY <2>5, <2>6
  <1> QED  BY <1>2, <1>3

\* A request that reads the default has the one of the version that it read.
LEMMA AdmitSealers ==
  ASSUME SealInv, NEW r \in Requests, Admit(r)
  PROVE  SealersRight'
  <1> USE DEF SealInv
  <1>0. /\ req[r] \in RequestRecord /\ req \in [Requests -> RequestRecord] /\ period \in Nat
        /\ tenant.version \in Nat
    BY AdmissionAssumption DEF TypeOK, TenantRecord, Periods
  <1>1. /\ req' = [req EXCEPT ![r] = req'[r]] /\ period' = period
        /\ tenant'.defaults = tenant.defaults /\ tenant'.version = tenant.version
        /\ req'[r].p \in {req[r].p, period}
    BY AdmitEffect
  <1>2. req'[r].p <= period
    BY <1>0, <1>1 DEF SealersRight
  <1>3. req'[r].pc = "sealing" =>
          /\ req'[r].base # None /\ req'[r].seen = tenant.version
          /\ req'[r].base = resolve_user_dollar_default(tenant.defaults, req'[r].p)
    <2>1. CASE seal_read(r)
      <3> DEFINE d == resolve_user_dollar_default(tenant.defaults, req[r].p)
      <3>1. \/ \E b : req' = [req EXCEPT ![r] = [req[r] EXCEPT !.pc = "granted", !.base = b]]
            \/ req' = [req EXCEPT ![r] = [req[r] EXCEPT !.pc = "txn", !.base = None, !.g = 0]]
            \/ /\ d # None
               /\ req' = [req EXCEPT ![r] =
                    [req[r] EXCEPT !.pc = "sealing", !.base = d, !.seen = tenant.version]]
        BY <2>1 DEF seal_read, Becomes
      <3> HIDE DEF d
      <3>2. CASE \E b : req' = [req EXCEPT ![r] = [req[r] EXCEPT !.pc = "granted", !.base = b]]
        BY <1>0, <3>2 DEF RequestRecord
      <3>3. CASE req' = [req EXCEPT ![r] = [req[r] EXCEPT !.pc = "txn", !.base = None, !.g = 0]]
        BY <1>0, <3>3 DEF RequestRecord
      <3>4. CASE /\ d # None
                 /\ req' = [req EXCEPT ![r] =
                      [req[r] EXCEPT !.pc = "sealing", !.base = d, !.seen = tenant.version]]
        <4>1. /\ req'[r].p = req[r].p /\ req'[r].base = d /\ req'[r].seen = tenant.version
          BY <1>0, <3>4 DEF RequestRecord
        <4> QED  BY <3>4, <4>1 DEF d
      <3> QED  BY <3>1, <3>2, <3>3, <3>4
    <2>2. CASE ~seal_read(r)
      <3>1. ASSUME WallItems(r) PROVE req'[r].pc # "sealing"
        BY <1>0, <3>1 DEF WallItems, Becomes, RequestRecord
      <3>2. CASE reserve_credit_for_model(r) \/ read_granted_microusd(r)
        BY <1>0, <3>2 DEF reserve_credit_for_model, read_granted_microusd, Becomes, RequestRecord
      <3>3. CASE next_candidate(r)
        BY <1>0, <3>3, NextCandidateIs
      <3>4. CASE Go(r, "granted") \/ Go(r, "seal") \/ Go(r, "refused")
        BY <1>0, <3>4, GoIs
      <3>5. seal_write(r) \/ refuse(r) => Go(r, "granted") \/ Go(r, "seal") \/ Go(r, "refused")
        BY DEF seal_write, refuse
      <3>6. reserve_credit(r) \/ reserve_quota_without_pool(r) => WallItems(r)
        BY DEF reserve_credit, reserve_quota_without_pool
      <3> QED
        BY <2>2, <3>1, <3>2, <3>3, <3>4, <3>5, <3>6 DEF Admit
    <2> QED  BY <2>1, <2>2
  <1> SUFFICES ASSUME NEW q \in Requests
               PROVE  /\ req'[q].p <= period
                      /\ req'[q].pc = "sealing" =>
                           /\ req'[q].base # None /\ req'[q].seen <= tenant.version
                           /\ req'[q].seen = tenant.version =>
                                req'[q].base = resolve_user_dollar_default(tenant.defaults, req'[q].p)
    BY <1>1 DEF SealersRight
  <1>4. CASE q = r
    BY <1>0, <1>2, <1>3, <1>4
  <1>5. CASE q # r
    <2>1. req'[q] = req[q]
      BY <1>0, <1>1, <1>5
    <2> QED  BY <2>1 DEF SealersRight
  <1> QED  BY <1>4, <1>5

\* No step of a request breaks the invariant of the seals.
LEMMA RequestSealed ==
  ASSUME SealInv, NEW r \in Requests, Admit(r) \/ End(r)
  PROVE  SealInv'
  <1> USE DEF SealInv
  <1>0. TypeOK'
    BY AdmitTyped, EndTyped
  <1>1. /\ req' = [req EXCEPT ![r] = req'[r]]
        /\ UNCHANGED <<period, acked, setter, granted>>
        /\ tenant'.defaults = tenant.defaults
    BY AdmitEffect, EndEffect DEF EndLeaves
  <1>2. DefaultsKept'
    BY <1>1 DEF DefaultsKept
  <1>3. WritesRight'
    BY <1>1 DEF WritesRight
  <1>4. SealsRight'
    <2>1. CASE seal_write(r)
      BY <2>1, SealWriteSeals
    <2>2. CASE ~seal_write(r)
      <3>1. tenant' = tenant
        BY <2>2, AdmitEffect, EndEffect DEF EndLeaves
      <3> QED  BY <1>1, <3>1 DEF SealsRight
    <2> QED  BY <2>1, <2>2
  <1>5. SealersRight'
    <2>1. CASE Admit(r)
      BY <2>1, AdmitSealers
    <2>2. CASE End(r)
      <3>1. EndLeaves(r)
        BY <2>2, EndEffect
      <3> QED  BY <3>1 DEF EndLeaves, SealersRight, Flight, TypeOK
    <2> QED  BY <2>1, <2>2
  <1> QED  BY <1>0, <1>2, <1>3, <1>4, <1>5

\* What a read of the defaults means to drop.
LEMMA PrunedArePast ==
  ASSUME TypeOK, NEW q \in defaults_to_prune(tenant.defaults)
  PROVE  /\ q \in Periods /\ q < period
         /\ \A e \in 1 .. q :
              e \in defaults_to_prune(tenant.defaults) \/ tenant.defaults[e] = None
  <1> DEFINE C == {e \in 1 .. period : tenant.defaults[e] # None}
  <1>0. period \in Nat /\ 1 .. period \subseteq Periods
    BY AdmissionAssumption DEF TypeOK, Periods
  <1>1. C # {} /\ defaults_to_prune(tenant.defaults) = C \ {Max(C)}
    BY DEF defaults_to_prune
  <1>2. Max(C) \in C /\ \A x \in C : x <= Max(C)
    <2>1. C \subseteq 1 .. period
      OBVIOUS
    <2> HIDE DEF C
    <2> QED  BY <1>0, <1>1, <2>1, LatestExists
  <1>3. q \in 1 .. period /\ Max(C) \in 1 .. period /\ q < Max(C)
    BY <1>0, <1>1, <1>2
  <1>4. ASSUME NEW e \in 1 .. q, tenant.defaults[e] # None
        PROVE  e \in defaults_to_prune(tenant.defaults)
    <2>1. e \in 1 .. period /\ e < Max(C)
      BY <1>0, <1>3
    <2>2. e \in C
      BY <1>4, <2>1
    <2> QED  BY <1>1, <2>1, <2>2
  <1> QED  BY <1>0, <1>3, <1>4

\* Nor does an administrator's read.
LEMMA ReadSealed ==
  ASSUME SealInv, NEW s \in Setters, NEW e \in Periods, NEW a \in Nat, default_read(s, e, a),
         e >= period
  PROVE  SealInv'
  <1> USE DEF SealInv
  <1>0. TypeOK'
    BY ReadTyped
  <1>1. UNCHANGED <<period, tenant, acked, req>>
    BY DEF default_read
  <1>2. DefaultsKept' /\ SealsRight' /\ SealersRight'
    BY <1>1 DEF DefaultsKept, SealsRight, SealersRight
  <1>3. WritesRight'
    <2> SUFFICES ASSUME NEW x \in Setters, setter'[x].pc # "idle"
                 PROVE  /\ setter'[x].at >= period
                        /\ \A q \in setter'[x].prune :
                             setter'[x].pc = "write" =>
                               q < period /\ \A d \in 1 .. q : d \in setter'[x].prune \/ tenant.defaults[d] = None
      BY <1>1 DEF WritesRight
    <2>1. CASE x = s
      <3>1. setter'[x].at = e /\ setter'[x].prune = defaults_to_prune(tenant.defaults)
        BY <2>1 DEF default_read, TypeOK
      <3> QED  BY <3>1, PrunedArePast
    <2>2. CASE x # s
      <3>1. setter'[x] = setter[x]
        BY <2>2 DEF default_read, TypeOK
      <3> QED  BY <3>1 DEF WritesRight
    <2> QED  BY <2>1, <2>2
  <1> QED  BY <1>0, <1>2, <1>3

\* An administrator's write that lands.
LEMMA WriteSealed ==
  ASSUME SealInv, NEW s \in Setters, default_write(s)
  PROVE  SealInv'
  <1> USE DEF SealInv
  <1> DEFINE w == setter[s]
  <1>0. /\ TypeOK' /\ w \in SetterRecord /\ w.at \in Periods /\ w.amount \in Nat /\ w.pc = "write"
        /\ tenant \in TenantRecord /\ period \in Nat /\ tenant.version \in Nat
    <2>1. Administration
      BY DEF Administration
    <2>2. TypeOK'
      BY <2>1, AdministrationTyped
    <2>3. w \in SetterRecord
      BY DEF TypeOK
    <2>4. w.at \in Periods /\ w.amount \in Nat
      BY <2>3 DEF SetterRecord
    <2>5. w.pc = "write"
      BY DEF default_write
    <2>6. tenant \in TenantRecord /\ tenant.version \in Nat
      BY DEF TypeOK, TenantRecord
    <2>7. period \in Nat
      BY AdmissionAssumption DEF TypeOK, Periods
    <2> QED  BY <2>2, <2>3, <2>4, <2>5, <2>6, <2>7
  <1>1. period' = period /\ req' = req
    BY DEF default_write
  <1>2. CASE tenant' = tenant /\ acked' = acked
    <2>1. DefaultsKept' /\ SealsRight' /\ SealersRight'
      BY <1>1, <1>2 DEF DefaultsKept, SealsRight, SealersRight
    <2>2. WritesRight'
      <3> SUFFICES ASSUME NEW x \in Setters, setter'[x].pc # "idle"
                   PROVE  /\ setter'[x].at >= period
                          /\ \A q \in setter'[x].prune :
                               setter'[x].pc = "write" =>
                                 q < period /\ \A d \in 1 .. q : d \in setter'[x].prune \/ tenant.defaults[d] = None
        BY <1>1, <1>2 DEF WritesRight
      <3>1. CASE x = s
        <4>1. setter'[s] = NoWrite \/ setter'[s] = [setter[s] EXCEPT !.pc = "again"]
          BY <1>0 DEF default_write, TypeOK
        <4>2. setter'[s].at = setter[s].at /\ setter'[s].pc = "again"
          BY <1>0, <3>1, <4>1 DEF NoWrite, SetterRecord
        <4> QED  BY <1>0, <3>1, <4>2 DEF WritesRight
      <3>2. CASE x # s
        <4>1. setter'[x] = setter[x]
          BY <3>2 DEF default_write, TypeOK
        <4> QED  BY <4>1 DEF WritesRight
      <3> QED  BY <3>1, <3>2
    <2> QED  BY <1>0, <2>1, <2>2
  <1>3. CASE ~(tenant' = tenant /\ acked' = acked)
    <2>1. /\ tenant.sealed[w.at] = None
          /\ tenant' = [tenant EXCEPT !.version = @ + 1,
                !.defaults = [Without(@, w.prune) EXCEPT ![w.at] = w.amount]]
          /\ acked' = [acked EXCEPT ![w.at] = w.amount]
          /\ setter' = [setter EXCEPT ![s] = NoWrite]
      BY <1>3 DEF default_write
    <2>2. /\ tenant'.version = tenant.version + 1 /\ tenant'.sealed = tenant.sealed
          /\ tenant'.defaults = [Without(tenant.defaults, w.prune) EXCEPT ![w.at] = w.amount]
      BY <1>0, <2>1 DEF TenantRecord
    <2>3. /\ w.at >= period
          /\ \A q \in w.prune : q < period /\ \A e \in 1 .. q : e \in w.prune \/ tenant.defaults[e] = None
      BY <1>0 DEF WritesRight
    <2>4. \A q \in Periods : /\ q = w.at => tenant'.defaults[q] = w.amount /\ acked'[q] = w.amount
                             /\ q # w.at =>
                                  /\ acked'[q] = acked[q]
                                  /\ tenant'.defaults[q] = IF q \in w.prune THEN None ELSE tenant.defaults[q]
      <3>1. acked \in [Periods -> Figures]
        BY DEF TypeOK
      <3> QED  BY <1>0, <2>1, <2>2, <3>1 DEF Without
    <2> HIDE DEF w
    <2>5. DefaultsKept'
      <3> SUFFICES ASSUME NEW q \in Periods
                   PROVE  /\ tenant'.defaults[q] # None => acked'[q] = tenant'.defaults[q]
                          /\ acked'[q] # None /\ tenant'.defaults[q] = None =>
                               q < period /\ \A e \in 1 .. q : tenant'.defaults[e] = None
        BY <1>1 DEF DefaultsKept
      <3>0. q \in Nat /\ 1 .. q \subseteq Periods /\ w.at \in Nat /\ w.amount # None
        BY <1>0, AdmissionAssumption DEF Periods, None
      <3>1. CASE q = w.at
        BY <2>4, <3>0, <3>1
      <3>2. CASE q # w.at
        <4>1. tenant'.defaults[q] # None => acked'[q] = tenant'.defaults[q]
          BY <2>4, <3>2 DEF DefaultsKept
        <4>2. ASSUME acked'[q] # None, tenant'.defaults[q] = None
              PROVE  q < period /\ \A e \in 1 .. q : tenant'.defaults[e] = None
          <5>1. q < period /\ \A e \in 1 .. q : e \in w.prune \/ tenant.defaults[e] = None
            <6>1. CASE q \in w.prune
              BY <2>3, <6>1
            <6>2. CASE q \notin w.prune
              BY <2>4, <3>2, <4>2, <6>2 DEF DefaultsKept
            <6> QED  BY <6>1, <6>2
          <5>2. \A e \in 1 .. q : e \in Periods /\ e # w.at
            BY <1>0, <2>3, <3>0, <5>1
          <5> QED  BY <2>4, <5>1, <5>2
        <4> QED  BY <4>1, <4>2
      <3> QED  BY <3>1, <3>2
    <2>6. SealsRight'
      <3> SUFFICES ASSUME NEW p \in Periods, tenant.sealed[p] # None
                   PROVE  p <= period /\ tenant.sealed[p] = resolve_user_dollar_default(acked', p)
        BY <1>1, <2>2 DEF SealsRight
      <3>1. p <= period /\ tenant.sealed[p] = resolve_user_dollar_default(acked, p)
        BY DEF SealsRight
      <3>2. \A q \in 1 .. p : q \in Periods /\ q # w.at
        <4>1. p # w.at /\ p \in Nat /\ w.at \in Nat /\ 1 .. p \subseteq Periods
          BY <1>0, <2>1, AdmissionAssumption DEF Periods
        <4> QED  BY <1>0, <2>3, <3>1, <4>1
      <3>3. \A q \in 1 .. p : acked[q] = acked'[q]
        BY <2>4, <3>2
      <3>4. acked \in [Periods -> Figures]
        BY DEF TypeOK
      <3> QED  BY <3>1, <3>3, <3>4, ResolvedLikewise
    <2>7. SealersRight'
      <3> SUFFICES ASSUME NEW r \in Requests
                   PROVE  /\ req[r].p <= period
                          /\ req[r].pc = "sealing" =>
                               /\ req[r].base # None /\ req[r].seen <= tenant.version + 1
                               /\ req[r].seen # tenant.version + 1
        BY <1>1, <2>2 DEF SealersRight
      <3>1. req[r].seen \in Int
        BY DEF TypeOK, RequestRecord
      <3> QED  BY <1>0, <3>1 DEF SealersRight
    <2>8. WritesRight'
      <3> SUFFICES ASSUME NEW x \in Setters, setter'[x].pc # "idle"
                   PROVE  /\ setter'[x].at >= period
                          /\ \A q \in setter'[x].prune :
                               setter'[x].pc = "write" =>
                                 q < period /\ \A d \in 1 .. q : d \in setter'[x].prune \/ tenant'.defaults[d] = None
        BY <1>1 DEF WritesRight
      <3>1. x # s /\ setter'[x] = setter[x]
        BY <2>1 DEF TypeOK, NoWrite
      <3>2. setter[x].prune \subseteq Periods
        BY DEF TypeOK, SetterRecord
      <3>3. ASSUME NEW q \in setter[x].prune, setter[x].pc = "write", NEW d \in 1 .. q
            PROVE  d \in setter[x].prune \/ tenant'.defaults[d] = None
        <4>1. q < period /\ (d \in setter[x].prune \/ tenant.defaults[d] = None)
          BY <3>1, <3>3 DEF WritesRight
        <4>2. d \in Periods /\ d # w.at
          BY <1>0, <2>3, <3>2, <4>1, AdmissionAssumption DEF Periods
        <4> QED  BY <2>4, <4>1, <4>2
      <3> QED  BY <3>1, <3>3 DEF WritesRight
    <2> QED  BY <1>0, <2>5, <2>6, <2>7, <2>8
  <1> QED  BY <1>2, <1>3

\* Nor the retry of a lost write.
LEMMA AgainSealed ==
  ASSUME SealInv, NEW s \in Setters, default_again(s)
  PROVE  SealInv'
  <1> USE DEF SealInv
  <1>0. TypeOK'
    <2>1. Administration
      BY DEF Administration
    <2> QED  BY <2>1, AdministrationTyped
  <1>1. setter[s].at \in Periods /\ setter[s].amount \in Nat /\ setter[s].at >= period
    BY DEF TypeOK, SetterRecord, default_again, WritesRight
  <1>2. CASE default_read(s, setter[s].at, setter[s].amount)
    BY <1>1, <1>2, ReadSealed
  <1>3. CASE ~default_read(s, setter[s].at, setter[s].amount)
    <2>1. setter' = [setter EXCEPT ![s] = NoWrite] /\ UNCHANGED <<period, tenant, acked, req>>
      BY <1>3 DEF default_again
    <2>2. WritesRight'
      BY <2>1 DEF WritesRight, NoWrite, TypeOK
    <2> QED  BY <1>0, <2>1, <2>2 DEF DefaultsKept, SealsRight, SealersRight
  <1> QED  BY <1>2, <1>3

\* The other administrative steps do not look at the defaults.
LEMMA OthersSealed ==
  ASSUME SealInv, TypeOK', UNCHANGED <<period, tenant, acked, req, setter>>
  PROVE  SealInv'
  BY DEF SealInv, DefaultsKept, SealsRight, WritesRight, SealersRight

\* Nor the end of a month.
LEMMA TickSealed ==
  ASSUME SealInv, tick
  PROVE  SealInv'
  <1> USE DEF SealInv
  <1>0. TypeOK' /\ period \in Nat /\ period' = period + 1 /\ UNCHANGED <<tenant, acked, req, setter>>
    BY TickTyped, AdmissionAssumption DEF tick, TypeOK, Periods
  <1>1. DefaultsKept'
    <2>1. \A q \in Periods : q \in Nat /\ (q < period => q < period')
      BY <1>0, AdmissionAssumption DEF Periods
    <2> QED  BY <1>0, <2>1 DEF DefaultsKept
  <1>2. SealsRight'
    <2>1. \A q \in Periods : q \in Nat /\ (q <= period => q <= period')
      BY <1>0, AdmissionAssumption DEF Periods
    <2> QED  BY <1>0, <2>1 DEF SealsRight
  <1>3. SealersRight'
    <2>1. \A r \in Requests : req[r].p \in Nat
      BY AdmissionAssumption DEF TypeOK, RequestRecord, Periods
    <2>2. \A r \in Requests : req[r].p <= period => req[r].p <= period'
      BY <1>0, <2>1
    <2> QED  BY <1>0, <2>2 DEF SealersRight
  <1>4. WritesRight'
    <2> SUFFICES ASSUME NEW s \in Setters, setter[s].pc # "idle"
                 PROVE  /\ setter[s].at >= period + 1
                        /\ \A q \in setter[s].prune :
                             setter[s].pc = "write" =>
                               q < period + 1 /\ \A e \in 1 .. q : e \in setter[s].prune \/ tenant.defaults[e] = None
      BY <1>0 DEF WritesRight
    <2>1. setter[s].at \in Nat /\ \A q \in setter[s].prune : q \in Nat
      BY AdmissionAssumption DEF TypeOK, SetterRecord, Periods
    <2>2. setter[s].at > period
      BY DEF tick
    <2> QED  BY <1>0, <2>1, <2>2 DEF WritesRight
  <1> QED  BY <1>0, <1>1, <1>2, <1>3, <1>4

\* The invariant of the seals is inductive.
LEMMA StepSealed == SealInv /\ [Next]_vars => SealInv'
  <1> SUFFICES ASSUME SealInv, [Next]_vars PROVE SealInv'
    OBVIOUS
  <1>0. TypeOK'
    BY StepTyped DEF SealInv
  <1>1. ASSUME NEW s \in Setters, NEW e \in Periods, NEW a \in Bases, set_user_dollar_default(s, e, a)
        PROVE  SealInv'
    <2>1. e >= period /\ a \in Nat
      <3>1. period \in Nat /\ e \in Nat
        BY AdmissionAssumption DEF SealInv, TypeOK, Periods
      <3> QED  BY <1>1, <3>1, FiguresAssumption DEF set_user_dollar_default
    <2> QED  BY <1>1, <2>1, ReadSealed DEF set_user_dollar_default
  <1>2. ASSUME NEW s \in Setters, default_write(s) \/ default_again(s) PROVE SealInv'
    BY <1>2, WriteSealed, AgainSealed
  <1>3. ASSUME NEW g \in GrantIds, approve_user_raise(g) \/ revoke_user_raise(g) PROVE SealInv'
    BY <1>0, <1>3, OthersSealed DEF approve_user_raise, revoke_user_raise
  <1>4. ASSUME NEW total \in Totals, NEW reset \in BOOLEAN,
               set_credit(total, reset) \/ set_member_credit(total, reset)
        PROVE  SealInv'
    BY <1>0, <1>4, OthersSealed DEF set_credit, set_member_credit, overwrite_credit
  <1>5. ASSUME NEW status \in {"active", "suspended"}, set_pool(status) PROVE SealInv'
    BY <1>0, <1>5, OthersSealed DEF set_pool
  <1>6. CASE ensure_current_period_row
    BY <1>0, <1>6, OthersSealed DEF ensure_current_period_row
  <1>7. CASE Administration
    BY <1>1, <1>2, <1>3, <1>4, <1>5, <1>6, <1>7, Zenon DEF Administration
  <1>8. ASSUME NEW r \in Requests, Admit(r) \/ End(r) PROVE SealInv'
    BY <1>8, RequestSealed
  <1>9. CASE tick
    BY <1>9, TickSealed
  <1>10. CASE UNCHANGED vars
    BY <1>0, <1>10, OthersSealed DEF vars
  <1> QED  BY <1>7, <1>8, <1>9, <1>10 DEF Next

\* SealedAsAcked: a month is sealed with the default whose setter was last told that it
\* is in force for it, whatever requests, administrators and months do in between.
THEOREM SealsFollowTheLastWord == Spec => []SealedAsAcked
  <1>1. SealInv => SealedAsAcked
    BY DEF SealInv, SealsRight, SealedAsAcked
  <1> QED  BY <1>1, InitSealed, StepSealed, PTL DEF Spec

(***************************************************************************)
(* A request is admitted within every wall.                                *)
(***************************************************************************)
\* A request in flight is of this month or the last, so its seal is not dropped, and
\* its base is that seal.
FlightRight ==
  \A r \in Requests :
    /\ req[r].pc \in Flight => req[r].p >= period - 1
    /\ req[r].pc \in {"granted", "txn"} /\ req[r].base # None =>
         tenant.sealed[req[r].p] = req[r].base

FlightInv == TypeOK /\ FlightRight

\* No request is in flight at first.
LEMMA InitInFlight == Init => FlightInv
  BY InitTyped DEF Init, NoRequest, FlightInv, FlightRight, Flight

\* No seal of this month or the last is dropped or changed.
LEMMA SealsStay ==
  ASSUME TypeOK, NEW r \in Requests, Admit(r), NEW p \in Periods, p >= period - 1,
         tenant.sealed[p] # None
  PROVE  tenant'.sealed[p] = tenant.sealed[p]
  <1>0. tenant \in TenantRecord /\ req[r].p \in Periods /\ period \in Nat /\ p \in Nat
    <2>1. tenant \in TenantRecord /\ period \in Periods /\ \A x \in Periods : x \in Nat
      BY AdmissionAssumption DEF TypeOK, Periods
    <2> QED  BY <2>1, PriceIsNatural
  <1>1. CASE tenant' = tenant
    BY <1>1
  <1>2. CASE tenant' # tenant
    <2>1. /\ tenant.sealed[req[r].p] = None
          /\ tenant' = [tenant EXCEPT !.sealed =
                [Without(@, seals_to_prune(@)) EXCEPT ![req[r].p] = req[r].base]]
      BY <1>2, AdmitEffect DEF seal_write
    <2>2. tenant'.sealed = [Without(tenant.sealed, seals_to_prune(tenant.sealed)) EXCEPT ![req[r].p] = req[r].base]
      BY <1>0, <2>1 DEF TenantRecord
    <2>3. p \notin seals_to_prune(tenant.sealed)
      <3>1. RETENTION \in Nat \ {0}
        BY AdmissionAssumption
      <3>2. ~(p < period - RETENTION)
        BY <1>0, <3>1
      <3> QED  BY <3>2 DEF seals_to_prune
    <2> QED  BY <2>1, <2>2, <2>3 DEF Without
  <1> QED  BY <1>1, <1>2

\* A step of an admission keeps every base equal to its seal.
LEMMA AdmitInFlight ==
  ASSUME FlightInv, NEW r \in Requests, Admit(r)
  PROVE  FlightRight'
  <1> USE DEF FlightInv
  <1>0. /\ req[r] \in RequestRecord /\ req[r].p \in Periods /\ period \in Nat /\ req[r].p \in Nat
        /\ req \in [Requests -> RequestRecord] /\ tenant \in TenantRecord
    <2>1. /\ tenant \in TenantRecord /\ req \in [Requests -> RequestRecord]
          /\ period \in Periods /\ \A x \in Periods : x \in Nat
      BY AdmissionAssumption DEF TypeOK, Periods
    <2> QED  BY <2>1, PriceIsNatural
  <1>1. req' = [req EXCEPT ![r] = req'[r]] /\ period' = period
    BY AdmitEffect
  <1>2. /\ req'[r].pc \in Flight => req'[r].p >= period - 1
        /\ req'[r].pc \in {"granted", "txn"} /\ req'[r].base # None =>
             tenant'.sealed[req'[r].p] = req'[r].base
    <2> DEFINE Goal == /\ req'[r].pc \in Flight => req'[r].p >= period - 1
                       /\ req'[r].pc \in {"granted", "txn"} /\ req'[r].base # None =>
                            tenant'.sealed[req'[r].p] = req'[r].base
    <2>1. CASE reserve_credit_for_model(r)
      BY <1>0, <2>1 DEF reserve_credit_for_model, Becomes, RequestRecord
    <2>2. CASE seal_read(r)
      <3>0. req[r].p >= period - 1
        BY <2>2 DEF seal_read, FlightRight, Flight
      <3> DEFINE b == tenant.sealed[req[r].p]
      <3>1. \/ req' = [req EXCEPT ![r] = [req[r] EXCEPT !.pc = "granted", !.base = b]]
            \/ req' = [req EXCEPT ![r] = [req[r] EXCEPT !.pc = "txn", !.base = None, !.g = 0]]
            \/ \E d : req' = [req EXCEPT ![r] =
                    [req[r] EXCEPT !.pc = "sealing", !.base = d, !.seen = tenant.version]]
        BY <2>2 DEF seal_read, Becomes
      <3>2. tenant' = tenant
        BY <2>2 DEF seal_read
      <3>3. CASE req' = [req EXCEPT ![r] = [req[r] EXCEPT !.pc = "granted", !.base = b]]
        <4>1. req'[r].base = b /\ req'[r].p = req[r].p
          BY <1>0, <3>3 DEF RequestRecord
        <4> QED  BY <3>0, <3>2, <4>1
      <3>4. CASE req' = [req EXCEPT ![r] = [req[r] EXCEPT !.pc = "txn", !.base = None, !.g = 0]]
        BY <1>0, <3>0, <3>4 DEF RequestRecord
      <3>5. CASE \E d : req' = [req EXCEPT ![r] =
                    [req[r] EXCEPT !.pc = "sealing", !.base = d, !.seen = tenant.version]]
        BY <1>0, <3>0, <3>5 DEF RequestRecord
      <3> QED  BY <3>1, <3>3, <3>4, <3>5
    <2>3. CASE seal_write(r)
      <3>0. req[r].p >= period - 1
        BY <2>3 DEF seal_write, FlightRight, Flight
      <3>1. CASE tenant' = [tenant EXCEPT !.sealed =
                    [Without(@, seals_to_prune(@)) EXCEPT ![req[r].p] = req[r].base]]
        <4>1. tenant'.sealed = [Without(tenant.sealed, seals_to_prune(tenant.sealed)) EXCEPT ![req[r].p] = req[r].base]
          BY <1>0, <3>1 DEF TenantRecord
        <4>2. tenant'.sealed[req[r].p] = req[r].base
          BY <1>0, <4>1 DEF Without
        <4>3. req'[r].base = req[r].base /\ req'[r].p = req[r].p
          BY <1>0, <2>3 DEF seal_write, Go, Becomes, RequestRecord
        <4> QED  BY <3>0, <4>2, <4>3
      <3>2. CASE Go(r, "seal")
        BY <1>0, <3>0, <3>2 DEF Go, Becomes, RequestRecord
      <3> QED  BY <2>3, <3>1, <3>2 DEF seal_write
    <2>4. CASE read_granted_microusd(r)
      BY <1>0, <2>4 DEF read_granted_microusd, Becomes, RequestRecord, FlightRight, Flight
    <2>5. ASSUME WallItems(r) PROVE Goal
      BY <1>0, <2>5 DEF WallItems, Becomes, RequestRecord, Flight
    <2>6. CASE reserve_credit(r) \/ reserve_quota_without_pool(r)
      BY <2>5, <2>6 DEF reserve_credit, reserve_quota_without_pool
    <2>7. CASE next_candidate(r)
      BY <1>0, <2>7, NextCandidateIs DEF FlightRight, Flight
    <2>8. CASE refuse(r)
      BY <1>0, <2>8 DEF refuse, Go, Becomes, RequestRecord, Flight
    <2> QED  BY <2>1, <2>2, <2>3, <2>4, <2>6, <2>7, <2>8, Zenon DEF Admit
  <1> SUFFICES ASSUME NEW q \in Requests
               PROVE  /\ req'[q].pc \in Flight => req'[q].p >= period - 1
                      /\ req'[q].pc \in {"granted", "txn"} /\ req'[q].base # None =>
                           tenant'.sealed[req'[q].p] = req'[q].base
    BY <1>1 DEF FlightRight
  <1>3. CASE q = r
    BY <1>2, <1>3
  <1>4. CASE q # r
    <2>1. req'[q] = req[q] /\ req[q].p \in Periods
      BY <1>0, <1>1, <1>4, PriceIsNatural
    <2>2. req[q].pc \in {"granted", "txn"} /\ req[q].base # None =>
            tenant'.sealed[req[q].p] = tenant.sealed[req[q].p]
      BY <2>1, SealsStay DEF FlightRight, Flight
    <2> QED  BY <2>1, <2>2 DEF FlightRight
  <1> QED  BY <1>3, <1>4

\* Administrators leave the seals alone.
LEMMA AdministrationEffect ==
  ASSUME TypeOK, Administration
  PROVE  tenant'.sealed = tenant.sealed /\ UNCHANGED <<period, req, used, quota>>
  <1>0. tenant \in TenantRecord
    BY DEF TypeOK
  <1> DEFINE Goal == tenant'.sealed = tenant.sealed /\ UNCHANGED <<period, req, used, quota>>
  <1>1. ASSUME NEW s \in Setters, NEW e \in Periods, NEW a, default_read(s, e, a) PROVE Goal
    BY <1>1 DEF default_read
  <1>2. ASSUME NEW s \in Setters, NEW e \in Periods, NEW a \in Bases, set_user_dollar_default(s, e, a)
        PROVE  Goal
    BY <1>1, <1>2 DEF set_user_dollar_default
  <1>3. ASSUME NEW s \in Setters, default_write(s) PROVE Goal
    <2>1. tenant'.sealed = tenant.sealed
      <3> DEFINE w == setter[s]
                 d == [Without(tenant.defaults, w.prune) EXCEPT ![w.at] = w.amount]
      <3>1. tenant' = tenant \/ tenant' = [tenant EXCEPT !.version = @ + 1, !.defaults = d]
        BY <1>0, <1>3 DEF default_write, TenantRecord
      <3> HIDE DEF d
      <3> QED  BY <1>0, <3>1 DEF TenantRecord
    <2> QED  BY <1>3, <2>1 DEF default_write
  <1>4. ASSUME NEW s \in Setters, default_again(s) PROVE Goal
    <2>1. setter[s].at \in Periods
      BY DEF TypeOK, SetterRecord
    <2> QED  BY <1>1, <1>4, <2>1 DEF default_again
  <1>5. ASSUME NEW g \in GrantIds, approve_user_raise(g) \/ revoke_user_raise(g) PROVE Goal
    BY <1>5 DEF approve_user_raise, revoke_user_raise, Counters
  <1>6. ASSUME NEW total \in Totals, NEW reset \in BOOLEAN,
               set_credit(total, reset) \/ set_member_credit(total, reset)
        PROVE  Goal
    BY <1>6 DEF set_credit, set_member_credit, overwrite_credit
  <1>7. ASSUME NEW status \in {"active", "suspended"}, set_pool(status) PROVE Goal
    BY <1>7 DEF set_pool
  <1>8. CASE ensure_current_period_row
    BY <1>8 DEF ensure_current_period_row
  <1>9. CASE \E s \in Setters :
              \/ \E e \in Periods, a \in Bases : set_user_dollar_default(s, e, a)
              \/ default_write(s)
              \/ default_again(s)
    BY <1>2, <1>3, <1>4, <1>9
  <1>10. CASE \E g \in GrantIds : approve_user_raise(g) \/ revoke_user_raise(g)
    BY <1>5, <1>10
  <1>11. CASE \E total \in Totals, reset \in BOOLEAN :
                set_credit(total, reset) \/ set_member_credit(total, reset)
    BY <1>6, <1>11
  <1> QED
    BY <1>7, <1>8, <1>9, <1>10, <1>11, Zenon DEF Administration

\* The invariant of the requests in flight is inductive.
LEMMA StepInFlight == FlightInv /\ [Next]_vars => FlightInv'
  <1> SUFFICES ASSUME FlightInv, [Next]_vars PROVE FlightRight'
    BY StepTyped DEF FlightInv
  <1> USE DEF FlightInv
  <1>1. CASE Administration
    <2>1. tenant'.sealed = tenant.sealed /\ period' = period /\ req' = req
      BY <1>1, AdministrationEffect
    <2> QED  BY <2>1 DEF FlightRight
  <1>2. ASSUME NEW r \in Requests, Admit(r) PROVE FlightRight'
    BY <1>2, AdmitInFlight
  <1>3. ASSUME NEW r \in Requests, End(r) PROVE FlightRight'
    <2>1. EndLeaves(r)
      BY <1>3, EndEffect
    <2> QED  BY <2>1 DEF EndLeaves, FlightRight, Flight, TypeOK
  <1>4. CASE tick
    <2>1. /\ period' = period + 1 /\ tenant' = tenant /\ req' = req
          /\ \A r \in Requests : req[r].pc \in Flight => req[r].p = period
      BY <1>4 DEF tick, Flight
    <2>2. period \in Nat
      BY AdmissionAssumption DEF TypeOK, Periods
    <2> QED  BY <2>1, <2>2 DEF FlightRight
  <1>5. CASE UNCHANGED vars
    BY <1>5 DEF vars, FlightRight
  <1> QED  BY <1>1, <1>2, <1>3, <1>4, <1>5 DEF Next

\* The walls of one request, when its transaction goes through.
Fits(r) ==
  LET p == req[r].p m == Model(r) IN
  /\ req'[r].uq => used'[p] <= tenant'.sealed[p] + granted'[p]
  /\ QuotaOf[m] # None => quota'[m][p] <= QuotaOf[m]
  /\ req'[r].hold => pool'[p].committed <= PoolLimit
  /\ credit'.used <= credit'.total

\* The items of the transaction check every wall but the pool.
LEMMA WallsFit ==
  ASSUME FlightInv, NEW r \in Requests, WallItems(r),
         req'[r].hold => pool'[req[r].p].committed <= PoolLimit
  PROVE  Fits(r)
  <1> USE DEF FlightInv
  <1>0. /\ req[r] \in RequestRecord /\ req[r].p \in Periods /\ req \in [Requests -> RequestRecord]
        /\ Model(r) \in Models /\ Price(r) \in Nat /\ QuotaOf[Model(r)] \in Nat \cup {None}
    BY PriceIsNatural DEF TypeOK
  <1>1. req[r].pc = "txn" /\ tenant' = tenant /\ granted' = granted
    BY DEF WallItems, Unmoved
  <1>2. req'[r].uq => used'[req[r].p] <= tenant'.sealed[req[r].p] + granted'[req[r].p]
    <2>1. req'[r].uq = (req[r].base # None)
      BY <1>0 DEF WallItems, Becomes, RequestRecord
    <2>2. CASE req[r].base # None
      <3>1. tenant.sealed[req[r].p] = req[r].base
        BY <1>1, <2>2 DEF FlightRight
      <3>0. /\ used[req[r].p] \in Int /\ granted[req[r].p] \in Int /\ req[r].g \in Int
            /\ req[r].base \in Nat
        BY <1>0, <2>2 DEF TypeOK, RequestRecord, Figures
      <3>2. /\ used[req[r].p] <= req[r].base + req[r].g - Price(r) /\ granted[req[r].p] >= req[r].g
        <4>1. UserFits(r)
          BY DEF WallItems
        <4> QED  BY <1>0, <2>2, <3>0, <4>1 DEF UserFits, uq_ceiling
      <3>3. used'[req[r].p] = used[req[r].p] + Price(r)
        BY <1>0, <2>2 DEF WallItems, TypeOK
      <3> QED  BY <1>0, <1>1, <3>1, <3>2, <3>3, <3>0
    <2> QED  BY <2>1, <2>2
  <1>3. QuotaOf[Model(r)] # None => quota'[Model(r)][req[r].p] <= QuotaOf[Model(r)]
    <2> SUFFICES ASSUME QuotaOf[Model(r)] # None
                 PROVE  quota'[Model(r)][req[r].p] <= QuotaOf[Model(r)]
      OBVIOUS
    <2>1. quota[Model(r)][req[r].p] <= QuotaOf[Model(r)] - Price(r)
      BY DEF WallItems, QuotaFits
    <2>2. quota'[Model(r)][req[r].p] = quota[Model(r)][req[r].p] + Price(r)
      BY <1>0 DEF WallItems, TypeOK
    <2>3. quota[Model(r)][req[r].p] \in Int /\ QuotaOf[Model(r)] \in Nat
      BY <1>0 DEF TypeOK
    <2> QED  BY <1>0, <2>1, <2>2, <2>3
  <1>4. credit'.used <= credit'.total
    <2>1. credit' = [credit EXCEPT !.used = @ + Tokens] /\ credit.used <= credit.total - Tokens
      BY DEF WallItems, CreditFits
    <2>2. credit \in [total : Nat, used : Int] /\ Tokens \in Nat
      BY FiguresAssumption DEF TypeOK
    <2> QED  BY <2>1, <2>2
  <1> QED  BY <1>2, <1>3, <1>4 DEF Fits

\* The transaction checks every wall.
LEMMA AdmissionFits ==
  ASSUME FlightInv, NEW r \in Requests, Admit(r), req[r].pc = "txn", req'[r].pc = "live"
  PROVE  Fits(r)
  <1> USE DEF FlightInv
  <1>0. /\ req[r] \in RequestRecord /\ req[r].p \in Periods /\ req \in [Requests -> RequestRecord]
        /\ Price(r) \in Nat /\ pool[req[r].p] \in PoolRecord
    BY PriceIsNatural DEF TypeOK
  <1>1. CASE reserve_credit(r)
    <2>1. pool'[req[r].p].committed = pool[req[r].p].committed + Price(r)
      BY <1>0, <1>1 DEF reserve_credit, TypeOK, PoolRecord
    <2>2. pool[req[r].p].committed + Price(r) <= PoolLimit
      BY <1>0, <1>1 DEF reserve_credit, PoolFits, PoolRecord
    <2> QED  BY <1>1, <2>1, <2>2, WallsFit DEF reserve_credit
  <1>2. CASE reserve_quota_without_pool(r)
    <2>1. ~req'[r].hold
      BY <1>0, <1>2 DEF reserve_quota_without_pool, WallItems, Becomes, RequestRecord
    <2> QED  BY <1>2, <2>1, WallsFit DEF reserve_quota_without_pool
  <1>3. CASE ~reserve_credit(r) /\ ~reserve_quota_without_pool(r)
    BY <1>0, <1>3 DEF Admit, reserve_credit_for_model, seal_read, seal_write, read_granted_microusd,
       next_candidate, refuse, Go, Becomes, RequestRecord
  <1> QED  BY <1>1, <1>2, <1>3

\* AdmittedFits: every wall holds on the figures of the moment of the admission.
THEOREM AdmissionsAlwaysFit == Spec => AdmittedFits
  <1>1. FlightInv /\ [Next]_vars =>
          [\A r \in Requests : req[r].pc = "txn" /\ req'[r].pc = "live" =>
             LET p == req[r].p m == Model(r) IN
             /\ req'[r].uq => used'[p] <= tenant'.sealed[p] + granted'[p]
             /\ QuotaOf[m] # None => quota'[m][p] <= QuotaOf[m]
             /\ req'[r].hold => pool'[p].committed <= PoolLimit
             /\ credit'.used <= credit'.total]_vars
    <2> SUFFICES ASSUME FlightInv, Next, NEW r \in Requests, req[r].pc = "txn", req'[r].pc = "live"
                 PROVE  Fits(r)
      BY DEF Fits
    <2>1. CASE Administration
      BY <2>1, AdministrationEffect DEF FlightInv
    <2>2. ASSUME NEW q \in Requests, Admit(q) PROVE Fits(r)
      <3>1. q = r
        BY <2>2, AdmitEffect DEF FlightInv, TypeOK
      <3> QED  BY <2>2, <3>1, AdmissionFits
    <2>3. ASSUME NEW q \in Requests, End(q) PROVE Fits(r)
      <3>1. EndLeaves(q)
        BY <2>3, EndEffect DEF FlightInv
      <3> QED  BY <3>1 DEF EndLeaves, FlightInv, TypeOK
    <2>4. CASE tick
      BY <2>4 DEF tick
    <2> QED  BY <2>1, <2>2, <2>3, <2>4 DEF Next
  <1> QED  BY <1>1, InitInFlight, StepInFlight, PTL DEF Spec, AdmittedFits

(***************************************************************************)
(* No wall forgets money, as long as nobody else ends a living request.    *)
(***************************************************************************)
\* The library's Min of two numbers.
LEMMA SmallerOfTwo ==
  ASSUME NEW a \in Int, NEW b \in Int
  PROVE  Min({a, b}) = IF a <= b THEN a ELSE b
  <1>1. \E y \in {a, b} : \A z \in {a, b} : z >= y
    <2>1. CASE a <= b
      BY <2>1
    <2>2. CASE ~(a <= b)
      BY <2>2
    <2> QED  BY <2>1, <2>2
  <1>2. Min({a, b}) \in {a, b} /\ \A z \in {a, b} : z >= Min({a, b})
    <2>1. \E y \in {a, b} : \A z \in {a, b} : y <= z
      BY <1>1
    <2> QED  BY <2>1, Zenon DEF Min
  <1> QED  BY <1>2

\* Smaller shares have a smaller sum.
LEMMA TotalMonotone ==
  ASSUME NEW S, IsFiniteSet(S), NEW f \in [S -> Nat], NEW g \in [S -> Nat],
         \A k \in S : f[k] <= g[k]
  PROVE  Total(f) <= Total(g)
  <1>1. IsFiniteSet(Units(g))
    BY UnitsFinite
  <1>2. Units(f) \subseteq Units(g)
    <2> SUFFICES ASSUME NEW k \in S PROVE Block(k, f[k]) \subseteq Block(k, g[k])
      BY DEF Units
    <2>1. f[k] \in Nat /\ g[k] \in Nat /\ f[k] <= g[k]
      OBVIOUS
    <2>2. 1 .. f[k] \subseteq 1 .. g[k]
      BY <2>1
    <2> QED  BY <2>2 DEF Block
  <1> QED  BY <1>1, <1>2, FS_Subset DEF Total

\* A counter that moves at least as much as the one share that moves stays above the sum.
LEMMA CounterCovers ==
  ASSUME NEW S, IsFiniteSet(S), NEW f \in [S -> Nat], NEW g \in [S -> Nat], NEW k \in S,
         \A j \in S : j # k => g[j] = f[j],
         NEW c \in Int, NEW d \in Int, c >= Total(f), d - c >= g[k] - f[k]
  PROVE  d >= Total(g)
  <1>1. g = [f EXCEPT ![k] = g[k]]
    OBVIOUS
  <1>2. Total(g) = Total(f) - f[k] + g[k]
    BY <1>1, TotalUpdate
  <1>3. Total(f) \in Nat /\ f[k] \in Nat /\ g[k] \in Nat
    BY UnitsFinite
  <1> QED  BY <1>2, <1>3

\* What a request owes its counters: more than what is due while an update that may
\* still give something back is under way.
Owing == {"live", "settling", "kept", "dead", "settled_pool", "released_pool", "reversing", "charged"}

OwedBy(q) ==
  IF q.pc \in Owing THEN Cost[Chain[q.i]]
  ELSE IF q.pc = "settled" THEN Min({q.actual, Cost[Chain[q.i]]})
  ELSE 0

UserShare(q, p) == IF q.uq /\ q.p = p THEN OwedBy(q) ELSE 0

ModelShare(q, m, p) == IF q.quota /\ q.p = p /\ Chain[q.i] = m THEN OwedBy(q) ELSE 0

OwedCovered ==
  \A p \in Periods :
    /\ used[p] >= Total([r \in Requests |-> UserShare(req[r], p)])
    /\ \A m \in Models : quota[m][p] >= Total([r \in Requests |-> ModelShare(req[r], m, p)])

OwedInv == TypeOK /\ OwedCovered

\* What a request owes is a natural number.
LEMMA OwedTyped ==
  ASSUME NEW q \in RequestRecord
  PROVE  /\ Chain[q.i] \in Models /\ Cost[Chain[q.i]] \in Nat /\ OwedBy(q) \in Nat
         /\ \A p, m : UserShare(q, p) \in Nat /\ ModelShare(q, m, p) \in Nat
  <1>1. q.i \in 1 .. Len(Chain) /\ q.actual \in Nat
    BY DEF RequestRecord
  <1>2. Chain[q.i] \in Models
    BY <1>1, FiguresAssumption
  <1>3. Cost[Chain[q.i]] \in Nat
    BY <1>2, FiguresAssumption
  <1>4. Min({q.actual, Cost[Chain[q.i]]}) \in Nat
    BY <1>1, <1>3, SmallerOfTwo
  <1>5. OwedBy(q) \in Nat
    BY <1>3, <1>4 DEF OwedBy
  <1> QED  BY <1>2, <1>3, <1>5 DEF UserShare, ModelShare

\* Nothing is owed at first.
LEMMA InitOwed == Init => OwedInv
  <1> SUFFICES ASSUME Init PROVE OwedInv
    OBVIOUS
  <1>1. \A r \in Requests : req[r] = NoRequest
    BY DEF Init
  <1>2. \A p, m : UserShare(NoRequest, p) = 0 /\ ModelShare(NoRequest, m, p) = 0
    BY DEF UserShare, ModelShare, NoRequest
  <1> SUFFICES ASSUME NEW p \in Periods, NEW m \in Models
               PROVE  /\ used[p] >= Total([r \in Requests |-> UserShare(req[r], p)])
                      /\ quota[m][p] >= Total([r \in Requests |-> ModelShare(req[r], m, p)])
    <2>1. Models # {}
      BY FiguresAssumption DEF Models, Range
    <2> QED  BY <2>1, InitTyped DEF OwedInv, OwedCovered
  <1>3. /\ [r \in Requests |-> UserShare(req[r], p)] = [r \in Requests |-> 0]
        /\ [r \in Requests |-> ModelShare(req[r], m, p)] = [r \in Requests |-> 0]
    BY <1>1, <1>2
  <1>4. Total([r \in Requests |-> 0]) = 0
    BY TotalZero
  <1>5. used[p] = 0 /\ quota[m][p] = 0
    BY DEF Init
  <1> QED  BY <1>3, <1>4, <1>5

\* A step of one request whose counters move at least as much as what it owes.
LEMMA RequestCovered ==
  ASSUME OwedInv, TypeOK', NEW r \in Requests, req' = [req EXCEPT ![r] = req'[r]],
         \A p \in Periods :
           /\ used'[p] - used[p] >= UserShare(req'[r], p) - UserShare(req[r], p)
           /\ \A m \in Models :
                quota'[m][p] - quota[m][p] >= ModelShare(req'[r], m, p) - ModelShare(req[r], m, p)
  PROVE  OwedInv'
  <1> USE DEF OwedInv
  <1> SUFFICES ASSUME NEW p \in Periods
               PROVE  /\ used'[p] >= Total([q \in Requests |-> UserShare(req'[q], p)])
                      /\ \A m \in Models :
                           quota'[m][p] >= Total([q \in Requests |-> ModelShare(req'[q], m, p)])
    BY DEF OwedCovered
  <1>0. /\ \A q \in Requests : req[q] \in RequestRecord /\ req'[q] \in RequestRecord
        /\ \A q \in Requests : q # r => req'[q] = req[q]
        /\ IsFiniteSet(Requests)
    BY FiguresAssumption DEF TypeOK
  <1>1. used'[p] >= Total([q \in Requests |-> UserShare(req'[q], p)])
    <2> DEFINE f == [q \in Requests |-> UserShare(req[q], p)]
               g == [q \in Requests |-> UserShare(req'[q], p)]
    <2>1. f \in [Requests -> Nat] /\ g \in [Requests -> Nat]
      BY <1>0, OwedTyped
    <2>2. \A q \in Requests : q # r => g[q] = f[q]
      BY <1>0
    <2>3. used[p] \in Int /\ used'[p] \in Int /\ used[p] >= Total(f)
      BY DEF TypeOK, OwedCovered
    <2>4. used'[p] - used[p] >= g[r] - f[r]
      OBVIOUS
    <2>5. used'[p] >= Total(g)
      <3> DEFINE c == used[p]
                 d == used'[p]
      <3>1. c \in Int /\ d \in Int /\ c >= Total(f) /\ d - c >= g[r] - f[r]
        BY <2>3, <2>4
      <3> HIDE DEF f, g, c, d
      <3>2. d >= Total(g)
        BY <1>0, <2>1, <2>2, <3>1, CounterCovers
      <3> QED  BY <3>2 DEF d
    <2> QED  BY <2>5
  <1>2. ASSUME NEW m \in Models
        PROVE  quota'[m][p] >= Total([q \in Requests |-> ModelShare(req'[q], m, p)])
    <2> DEFINE f == [q \in Requests |-> ModelShare(req[q], m, p)]
               g == [q \in Requests |-> ModelShare(req'[q], m, p)]
               c == quota[m][p]
               e == quota'[m][p]
    <2>1. f \in [Requests -> Nat] /\ g \in [Requests -> Nat]
      BY <1>0, OwedTyped
    <2>2. \A q \in Requests : q # r => g[q] = f[q]
      BY <1>0
    <2>3. c \in Int /\ e \in Int
      <3>1. quota \in [Models -> [Periods -> Int]] /\ quota' \in [Models -> [Periods -> Int]]
        BY DEF TypeOK
      <3> QED  BY <3>1
    <2>4. c >= Total(f)
      BY DEF OwedCovered
    <2>5. e - c >= g[r] - f[r]
      OBVIOUS
    <2>6. e >= Total(g)
      <3> HIDE DEF f, g, c, e
      <3> QED  BY <1>0, <2>1, <2>2, <2>3, <2>4, <2>5, CounterCovers
    <2> QED  BY <2>6
  <1> QED  BY <1>1, <1>2

\* An ending: what the request is about stays, and its counters move by d or not at all.
SameAccount(q, n) == n.p = q.p /\ n.i = q.i /\ n.uq = q.uq /\ n.quota = q.quota

\* An ending whose counters move by at least what it stops owing.
LEMMA EndingCovered ==
  ASSUME OwedInv, TypeOK', NEW r \in Requests, req' = [req EXCEPT ![r] = req'[r]],
         SameAccount(req[r], req'[r]), NEW d \in Int, OwedBy(req'[r]) - OwedBy(req[r]) <= d,
         Adjust(r, d) \/ (d = 0 /\ UNCHANGED <<used, quota>>)
  PROVE  OwedInv'
  <1> USE DEF OwedInv
  <1>0. /\ req[r] \in RequestRecord /\ req'[r] \in RequestRecord
        /\ req[r].p \in Periods /\ Model(r) \in Models /\ Model(r) = Chain[req[r].i]
        /\ OwedBy(req[r]) \in Nat /\ OwedBy(req'[r]) \in Nat
    BY PriceIsNatural, OwedTyped DEF TypeOK, Model
  <1>1. ASSUME NEW p \in Periods
        PROVE  used'[p] - used[p] >= UserShare(req'[r], p) - UserShare(req[r], p)
    <2>1. used[p] \in Int /\ used \in [Periods -> Int]
      BY DEF TypeOK
    <2>2. used'[p] = IF Adjust(r, d) /\ req[r].uq /\ req[r].p = p THEN used[p] + d ELSE used[p]
      BY <1>0, <2>1 DEF Adjust
    <2>3. CASE req[r].uq /\ req[r].p = p
      <3>1. UserShare(req'[r], p) = OwedBy(req'[r]) /\ UserShare(req[r], p) = OwedBy(req[r])
        BY <2>3 DEF UserShare, SameAccount
      <3>2. used'[p] - used[p] = d
        BY <2>1, <2>2, <2>3
      <3> QED  BY <3>1, <3>2
    <2>4. CASE ~(req[r].uq /\ req[r].p = p)
      <3>1. UserShare(req'[r], p) = 0 /\ UserShare(req[r], p) = 0
        BY <2>4 DEF UserShare, SameAccount
      <3> QED  BY <2>1, <2>2, <2>4, <3>1
    <2> QED  BY <2>3, <2>4
  <1>2. ASSUME NEW p \in Periods, NEW m \in Models
        PROVE  quota'[m][p] - quota[m][p] >= ModelShare(req'[r], m, p) - ModelShare(req[r], m, p)
    <2>1. quota[m][p] \in Int /\ quota \in [Models -> [Periods -> Int]]
      BY DEF TypeOK
    <2>2. quota'[m][p] = IF Adjust(r, d) /\ req[r].quota /\ req[r].p = p /\ Model(r) = m
                           THEN quota[m][p] + d ELSE quota[m][p]
      BY <1>0, <2>1 DEF Adjust
    <2>3. CASE req[r].quota /\ req[r].p = p /\ Model(r) = m
      <3>1. ModelShare(req'[r], m, p) = OwedBy(req'[r]) /\ ModelShare(req[r], m, p) = OwedBy(req[r])
        BY <1>0, <2>3 DEF ModelShare, SameAccount
      <3>2. quota'[m][p] - quota[m][p] = d
        BY <2>1, <2>2, <2>3
      <3> QED  BY <3>1, <3>2
    <2>4. CASE ~(req[r].quota /\ req[r].p = p /\ Model(r) = m)
      <3>1. ModelShare(req'[r], m, p) = 0 /\ ModelShare(req[r], m, p) = 0
        BY <1>0, <2>4 DEF ModelShare, SameAccount
      <3> QED  BY <2>1, <2>2, <2>4, <3>1
    <2> QED  BY <2>3, <2>4
  <1> QED  BY <1>1, <1>2, RequestCovered

\* Every ending of a request is one.
LEMMA EndOwed ==
  ASSUME ~Overlaps, OwedInv, NEW r \in Requests, End(r)
  PROVE  OwedInv'
  <1> USE DEF OwedInv
  <1> DEFINE price == Price(r)
             q == req[r]
             n == req'[r]
  <1>0. /\ q \in RequestRecord /\ req \in [Requests -> RequestRecord] /\ price \in Nat
        /\ q.actual \in Nat /\ price = Cost[Chain[q.i]]
    BY PriceIsNatural DEF TypeOK, RequestRecord, Price, Model
  <1>00. TypeOK' /\ req' = [req EXCEPT ![r] = n]
    BY EndTyped, EndEffect DEF EndLeaves
  <1>000. \A a \in Nat : Min({a, price}) \in Nat /\ Min({a, price}) <= a /\ Min({a, price}) <= price
    BY <1>0, SmallerOfTwo
  <1>1. ASSUME NEW a \in Actuals, NEW t \in TokensUsed, settle_reservation(r, a, t)
        PROVE  OwedInv'
    <2>1. SameAccount(q, n) /\ OwedBy(q) = price /\ OwedBy(n) = price
      BY <1>0, <1>1 DEF settle_reservation, Go, Becomes, RequestRecord, SameAccount, OwedBy, Owing
    <2>2. UNCHANGED <<used, quota>>
      BY <1>1 DEF settle_reservation, Unmoved, Counters
    <2> QED  BY <1>0, <1>00, <1>000, <2>1, <2>2, EndingCovered
  <1>2. CASE settle_pool_side(r)
    <2>1. SameAccount(q, n) /\ OwedBy(q) = price /\ OwedBy(n) = price
      BY <1>0, <1>2 DEF settle_pool_side, Go, Becomes, RequestRecord, SameAccount, OwedBy, Owing
    <2>2. UNCHANGED <<used, quota>>
      BY <1>2 DEF settle_pool_side, Unmoved, Counters
    <2> QED  BY <1>0, <1>00, <1>000, <2>1, <2>2, EndingCovered
  <1>3. CASE settle_quota_for(r)
    <2>1. SameAccount(q, n) /\ OwedBy(q) = price /\ OwedBy(n) = Min({q.actual, price})
      BY <1>0, <1>3 DEF settle_quota_for, Go, Becomes, RequestRecord, SameAccount, OwedBy, Owing
    <2>2. Adjust(r, q.actual - price)
      BY <1>3 DEF settle_quota_for
    <2>3. OwedBy(n) - OwedBy(q) <= q.actual - price /\ q.actual - price \in Int
      BY <1>0, <1>000, <2>1
    <2> QED  BY <1>00, <2>1, <2>2, <2>3, EndingCovered
  <1>4. CASE return_reservation(r)
    <2>1. SameAccount(q, n) /\ OwedBy(q) = price /\ OwedBy(n) = price
      BY <1>0, <1>4 DEF return_reservation, Go, Becomes, RequestRecord, SameAccount, OwedBy, Owing
    <2>2. UNCHANGED <<used, quota>>
      BY <1>4 DEF return_reservation, Unmoved, Counters
    <2> QED  BY <1>0, <1>00, <1>000, <2>1, <2>2, EndingCovered
  <1>5. CASE release_quota_for(r)
    <2>1. SameAccount(q, n) /\ OwedBy(q) = price /\ OwedBy(n) = 0
      BY <1>0, <1>5 DEF release_quota_for, Go, Becomes, RequestRecord, SameAccount, OwedBy, Owing
    <2>2. Adjust(r, -price)
      BY <1>5 DEF release_quota_for
    <2>3. OwedBy(n) - OwedBy(q) <= -price /\ -price \in Int
      BY <1>0, <2>1
    <2> QED  BY <1>00, <2>1, <2>2, <2>3, EndingCovered
  <1>6. CASE adjust_fails(r)
    <2>1. SameAccount(q, n) /\ OwedBy(n) \in Nat /\ OwedBy(n) <= OwedBy(q) /\ OwedBy(q) \in Nat
      <3>1. OwedBy(q) = price /\ SameAccount(q, n)
        BY <1>0, <1>6 DEF adjust_fails, Go, Becomes, RequestRecord, SameAccount, OwedBy, Owing
      <3>2. OwedBy(n) = 0 \/ OwedBy(n) = Min({q.actual, price})
        <4>1. Go(r, "settled") \/ Go(r, "released")
          BY <1>6 DEF adjust_fails
        <4>2. n.pc \in {"settled", "released"} /\ n.actual = q.actual /\ n.i = q.i
          BY <1>0, <4>1, GoIs
        <4> QED  BY <1>0, <4>2 DEF OwedBy, Owing
      <3> QED  BY <1>0, <1>000, <3>1, <3>2
    <2>2. UNCHANGED <<used, quota>>
      BY <1>6 DEF adjust_fails, Counters
    <2>3. OwedBy(n) - OwedBy(q) <= 0
      BY <2>1
    <2> QED  BY <1>00, <2>1, <2>2, <2>3, EndingCovered
  <1>7. CASE keep_reservation(r)
    <2>1. SameAccount(q, n) /\ OwedBy(q) = price /\ OwedBy(n) = price
      BY <1>0, <1>7 DEF keep_reservation, Go, Becomes, RequestRecord, SameAccount, OwedBy, Owing
    <2>2. UNCHANGED <<used, quota>>
      BY <1>7 DEF keep_reservation, Unmoved, Counters
    <2> QED  BY <1>0, <1>00, <1>000, <2>1, <2>2, EndingCovered
  <1>8. CASE crash(r)
    <2>1. SameAccount(q, n) /\ OwedBy(n) = OwedBy(q) /\ OwedBy(q) \in Nat
      <3>1. SameAccount(q, n) /\ OwedBy(n) = OwedBy(q)
        BY <1>0, <1>8 DEF crash, Go, Becomes, RequestRecord, SameAccount, OwedBy, Owing
      <3> QED  BY <1>0, <3>1, OwedTyped
    <2>2. UNCHANGED <<used, quota>>
      BY <1>8 DEF crash, Counters
    <2>3. OwedBy(n) - OwedBy(q) <= 0
      BY <2>1
    <2> QED  BY <1>00, <2>1, <2>2, <2>3, EndingCovered
  <1>9. ASSUME hold_counter_reversal(r), SameAccount(q, n), OwedBy(q) = price, OwedBy(n) = 0
        PROVE  OwedInv'
    <2>1. Adjust(r, -price) \/ UNCHANGED <<used, quota>>
      BY <1>9 DEF hold_counter_reversal
    <2>2. OwedBy(n) - OwedBy(q) <= -price /\ -price \in Int
      BY <1>0, <1>9
    <2>3. OwedBy(n) - OwedBy(q) <= 0
      BY <1>0, <1>9
    <2>4. CASE Adjust(r, -price)
      BY <1>00, <1>9, <2>2, <2>4, EndingCovered
    <2>5. CASE UNCHANGED <<used, quota>>
      BY <1>00, <1>9, <2>3, <2>5, EndingCovered
    <2> QED  BY <2>1, <2>4, <2>5
  <1>10. CASE reclaim(r)
    <2>1. q.pc = "dead"
      BY <1>10 DEF reclaim
    <2>2. SameAccount(q, n) /\ OwedBy(q) = price /\ OwedBy(n) = 0
      BY <1>0, <1>10, <2>1 DEF reclaim, Becomes, RequestRecord, SameAccount, OwedBy, Owing
    <2> QED  BY <1>9, <1>10, <2>2 DEF reclaim
  <1>11. CASE resolve_release(r)
    <2>1. SameAccount(q, n) /\ OwedBy(q) = price /\ OwedBy(n) = price
      BY <1>0, <1>11 DEF resolve_release, Go, Becomes, RequestRecord, SameAccount, OwedBy, Owing
    <2>2. UNCHANGED <<used, quota>>
      BY <1>11 DEF resolve_release, Unmoved, Counters
    <2> QED  BY <1>0, <1>00, <1>000, <2>1, <2>2, EndingCovered
  <1>12. CASE reverse_retained_hold_counters(r)
    <2>1. SameAccount(q, n) /\ OwedBy(q) = price /\ OwedBy(n) = 0
      BY <1>0, <1>12 DEF reverse_retained_hold_counters, Go, Becomes, RequestRecord, SameAccount, OwedBy, Owing
    <2> QED  BY <1>9, <1>12, <2>1 DEF reverse_retained_hold_counters
  <1>13. ASSUME NEW a \in Actuals, resolve_charge(r, a) PROVE OwedInv'
    <2>1. SameAccount(q, n) /\ OwedBy(q) = price /\ OwedBy(n) = price
      BY <1>0, <1>13 DEF resolve_charge, Go, Becomes, RequestRecord, SameAccount, OwedBy, Owing
    <2>2. UNCHANGED <<used, quota>>
      BY <1>13 DEF resolve_charge, Unmoved, Counters
    <2> QED  BY <1>0, <1>00, <1>000, <2>1, <2>2, EndingCovered
  <1> QED
    BY <1>1, <1>2, <1>3, <1>4, <1>5, <1>6, <1>7, <1>8, <1>10, <1>11, <1>12, <1>13, Zenon DEF End

\* An admission counts what it will owe.
LEMMA AdmitOwed ==
  ASSUME OwedInv, NEW r \in Requests, Admit(r)
  PROVE  OwedInv'
  <1> USE DEF OwedInv
  <1> DEFINE price == Price(r)
             q == req[r]
             n == req'[r]
  <1>0. /\ q \in RequestRecord /\ req \in [Requests -> RequestRecord] /\ price \in Nat
        /\ price = Cost[Chain[q.i]] /\ q.p \in Periods /\ Model(r) \in Models /\ Model(r) = Chain[q.i]
    BY PriceIsNatural DEF TypeOK, Price, Model
  <1>00. TypeOK' /\ req' = [req EXCEPT ![r] = n]
    BY AdmitTyped, AdmitEffect
  <1>1. ASSUME UNCHANGED <<used, quota>>, OwedBy(q) = 0, OwedBy(n) = 0 PROVE OwedInv'
    <2>1. \A p \in Periods : used'[p] - used[p] >= UserShare(n, p) - UserShare(q, p)
      <3>1. \A p \in Periods : used[p] \in Int
        BY DEF TypeOK
      <3> QED  BY <1>1, <3>1 DEF UserShare
    <2>2. \A p \in Periods, m \in Models :
            quota'[m][p] - quota[m][p] >= ModelShare(n, m, p) - ModelShare(q, m, p)
      <3>1. \A p \in Periods, m \in Models : quota[m][p] \in Int
        BY DEF TypeOK
      <3> QED  BY <1>1, <3>1 DEF ModelShare
    <2> QED  BY <1>00, <2>1, <2>2, RequestCovered
  <1>2. ASSUME WallItems(r) PROVE OwedInv'
    <2>1. /\ OwedBy(q) = 0 /\ OwedBy(n) = price /\ n.p = q.p /\ n.i = q.i
          /\ n.uq = (q.base # None) /\ n.quota = (QuotaOf[Model(r)] # None)
      BY <1>0, <1>2 DEF WallItems, Becomes, RequestRecord, OwedBy, Owing
    <2>2. ASSUME NEW p \in Periods
          PROVE  used'[p] - used[p] >= UserShare(n, p) - UserShare(q, p)
      <3>1. used[p] \in Int /\ used \in [Periods -> Int]
        BY DEF TypeOK
      <3>2. used' = IF q.base # None THEN [used EXCEPT ![q.p] = @ + price] ELSE used
        BY <1>2 DEF WallItems
      <3>3. used'[p] = IF n.uq /\ q.p = p THEN used[p] + price ELSE used[p]
        BY <1>0, <2>1, <3>1, <3>2
      <3>4. UserShare(q, p) = 0 /\ UserShare(n, p) = IF n.uq /\ q.p = p THEN price ELSE 0
        BY <2>1 DEF UserShare
      <3> QED  BY <1>0, <3>1, <3>3, <3>4
    <2>3. ASSUME NEW p \in Periods, NEW m \in Models
          PROVE  quota'[m][p] - quota[m][p] >= ModelShare(n, m, p) - ModelShare(q, m, p)
      <3>1. quota[m][p] \in Int /\ quota \in [Models -> [Periods -> Int]]
        BY DEF TypeOK
      <3>2. quota' = IF QuotaOf[Model(r)] # None
                     THEN [quota EXCEPT ![Model(r)][q.p] = @ + price] ELSE quota
        BY <1>2 DEF WallItems
      <3>3. quota'[m][p] = IF n.quota /\ q.p = p /\ Model(r) = m THEN quota[m][p] + price ELSE quota[m][p]
        BY <1>0, <2>1, <3>1, <3>2
      <3>4. ModelShare(q, m, p) = 0 /\ ModelShare(n, m, p) = IF n.quota /\ q.p = p /\ Model(r) = m THEN price ELSE 0
        BY <1>0, <2>1 DEF ModelShare
      <3> QED  BY <1>0, <3>1, <3>3, <3>4
    <2> QED  BY <1>00, <2>2, <2>3, RequestCovered
  <1>3. CASE reserve_credit_for_model(r)
    <2>1. OwedBy(q) = 0 /\ OwedBy(n) = 0
      BY <1>0, <1>3 DEF reserve_credit_for_model, Go, Becomes, RequestRecord, OwedBy, Owing
    <2> QED  BY <1>1, <1>3, <2>1 DEF reserve_credit_for_model, Counters
  <1>4. CASE seal_read(r)
    <2>1. \E b, d : \/ req' = [req EXCEPT ![r] = [q EXCEPT !.pc = "granted", !.base = b]]
                   \/ req' = [req EXCEPT ![r] = [q EXCEPT !.pc = "txn", !.base = None, !.g = 0]]
                   \/ req' = [req EXCEPT ![r] = [q EXCEPT !.pc = "sealing", !.base = b, !.seen = d]]
      BY <1>4 DEF seal_read, Becomes
    <2>2. n.pc \in {"granted", "txn", "sealing"}
      BY <1>0, <2>1 DEF RequestRecord
    <2>3. q.pc = "seal" /\ UNCHANGED <<used, quota>>
      BY <1>4 DEF seal_read, Counters
    <2> QED  BY <1>1, <2>2, <2>3 DEF OwedBy, Owing
  <1>5. CASE seal_write(r)
    <2>1. OwedBy(q) = 0 /\ OwedBy(n) = 0
      BY <1>0, <1>5 DEF seal_write, Go, Becomes, RequestRecord, OwedBy, Owing
    <2> QED  BY <1>1, <1>5, <2>1 DEF seal_write, Counters
  <1>6. CASE read_granted_microusd(r)
    <2>1. OwedBy(q) = 0 /\ OwedBy(n) = 0
      BY <1>0, <1>6 DEF read_granted_microusd, Go, Becomes, RequestRecord, OwedBy, Owing
    <2> QED  BY <1>1, <1>6, <2>1 DEF read_granted_microusd, Counters
  <1>7. CASE next_candidate(r)
    <2>1. OwedBy(q) = 0 /\ OwedBy(n) = 0
      BY <1>0, <1>7, NextCandidateIs DEF OwedBy, Owing
    <2> QED  BY <1>1, <1>7, <2>1 DEF next_candidate, Counters
  <1>8. CASE refuse(r)
    <2>1. OwedBy(q) = 0 /\ OwedBy(n) = 0
      BY <1>0, <1>8 DEF refuse, Go, Becomes, RequestRecord, OwedBy, Owing
    <2> QED  BY <1>1, <1>8, <2>1 DEF refuse, Counters
  <1>9. CASE reserve_credit(r) \/ reserve_quota_without_pool(r)
    BY <1>2, <1>9 DEF reserve_credit, reserve_quota_without_pool
  <1> QED
    BY <1>3, <1>4, <1>5, <1>6, <1>7, <1>8, <1>9, Zenon DEF Admit

\* The invariant of the counters is inductive.
LEMMA StepOwed == ~Overlaps /\ OwedInv /\ [Next]_vars => OwedInv'
  <1> SUFFICES ASSUME ~Overlaps, OwedInv, [Next]_vars PROVE OwedInv'
    OBVIOUS
  <1>0. TypeOK'
    BY StepTyped DEF OwedInv
  <1>1. ASSUME UNCHANGED <<req, used, quota>> PROVE OwedInv'
    BY <1>0, <1>1 DEF OwedInv, OwedCovered
  <1>2. CASE Administration
    BY <1>1, <1>2, AdministrationEffect DEF OwedInv
  <1>3. ASSUME NEW r \in Requests, Admit(r) \/ End(r) PROVE OwedInv'
    BY <1>3, AdmitOwed, EndOwed
  <1>4. CASE tick
    BY <1>1, <1>4 DEF tick
  <1>5. CASE UNCHANGED vars
    BY <1>1, <1>5 DEF vars
  <1> QED  BY <1>2, <1>3, <1>4, <1>5 DEF Next

\* What is due is never more than what is owed.
LEMMA DueIsOwed ==
  ASSUME TypeOK, NEW r \in Requests
  PROVE  Due(r) \in Nat /\ Due(r) <= OwedBy(req[r])
  <1>1. /\ Price(r) = Cost[Chain[req[r].i]] /\ Price(r) \in Nat /\ req[r].actual \in Nat
    BY PriceIsNatural DEF Price, Model, RequestRecord
  <1>2. /\ Min({req[r].actual, Price(r)}) \in Nat
        /\ Min({req[r].actual, Price(r)}) <= Price(r)
    BY <1>1, SmallerOfTwo
  <1>3. CASE req[r].pc \in {"live", "settling", "kept", "dead"}
    BY <1>1, <1>3 DEF Due, OwedBy, Owing
  <1>4. CASE req[r].pc \in {"settled_pool", "charged"}
    BY <1>1, <1>2, <1>4 DEF Due, OwedBy, Owing
  <1>5. CASE req[r].pc = "settled"
    BY <1>1, <1>2, <1>5 DEF Due, OwedBy, Owing
  <1>6. CASE req[r].pc \notin {"live", "settling", "kept", "dead", "settled_pool", "settled", "charged"}
    BY <1>1, <1>6 DEF Due, OwedBy, Owing
  <1> QED  BY <1>3, <1>4, <1>5, <1>6

\* What is counted covers what is due.
LEMMA OwedIsDue == OwedInv => NeverUndercounted
  <1> SUFFICES ASSUME OwedInv, NEW p \in Periods
               PROVE  /\ used[p] >= Total([r \in Requests |-> IF req[r].uq /\ req[r].p = p THEN Due(r) ELSE 0])
                      /\ \A m \in Models : quota[m][p] >=
                           Total([r \in Requests |-> IF req[r].quota /\ req[r].p = p /\ Model(r) = m
                                                       THEN Due(r) ELSE 0])
    BY DEF NeverUndercounted
  <1> USE DEF OwedInv
  <1>0. /\ IsFiniteSet(Requests)
        /\ \A r \in Requests : /\ req[r] \in RequestRecord /\ Due(r) \in Nat
                               /\ Due(r) <= OwedBy(req[r]) /\ OwedBy(req[r]) \in Nat
    BY FiguresAssumption, DueIsOwed, OwedTyped DEF TypeOK
  <1>1. used[p] >= Total([r \in Requests |-> IF req[r].uq /\ req[r].p = p THEN Due(r) ELSE 0])
    <2> DEFINE f == [r \in Requests |-> IF req[r].uq /\ req[r].p = p THEN Due(r) ELSE 0]
               g == [r \in Requests |-> UserShare(req[r], p)]
    <2>1. f \in [Requests -> Nat] /\ g \in [Requests -> Nat] /\ \A r \in Requests : f[r] <= g[r]
      BY <1>0 DEF UserShare
    <2>2. used[p] \in Int /\ used[p] >= Total(g)
      BY DEF TypeOK, OwedCovered
    <2> HIDE DEF f, g
    <2>3. Total(f) \in Nat /\ Total(g) \in Nat /\ Total(f) <= Total(g)
      BY <1>0, <2>1, UnitsFinite, TotalMonotone
    <2>4. used[p] >= Total(f)
      BY <2>2, <2>3
    <2> QED  BY <2>4 DEF f
  <1>2. ASSUME NEW m \in Models
        PROVE  quota[m][p] >= Total([r \in Requests |-> IF req[r].quota /\ req[r].p = p /\ Model(r) = m
                                                          THEN Due(r) ELSE 0])
    <2> DEFINE f == [r \in Requests |-> IF req[r].quota /\ req[r].p = p /\ Model(r) = m THEN Due(r) ELSE 0]
               g == [r \in Requests |-> ModelShare(req[r], m, p)]
               c == quota[m][p]
    <2>1. f \in [Requests -> Nat] /\ g \in [Requests -> Nat] /\ \A r \in Requests : f[r] <= g[r]
      BY <1>0 DEF ModelShare, Model
    <2>2. c \in Int
      <3>1. quota \in [Models -> [Periods -> Int]]
        BY DEF TypeOK
      <3> QED  BY <3>1
    <2>3. c >= Total(g)
      BY DEF OwedCovered
    <2> HIDE DEF f, g, c
    <2>4. Total(f) \in Nat /\ Total(g) \in Nat /\ Total(f) <= Total(g)
      BY <1>0, <2>1, UnitsFinite, TotalMonotone
    <2>5. c >= Total(f)
      BY <2>2, <2>3, <2>4
    <2> QED  BY <2>5 DEF f, c
  <1> QED  BY <1>1, <1>2

\* NeverUndercounted, where nobody ends a request while it lives: no settlement, release,
\* crash, reclaim, lost update or operator makes a wall forget what is reserved or spent.
THEOREM WallsNeverForget ==
  ASSUME ~Overlaps
  PROVE  Spec => []NeverUndercounted
  <1>1. OwedInv /\ [Next]_vars => OwedInv'
    BY StepOwed
  <1> QED  BY <1>1, InitOwed, OwedIsDue, PTL DEF Spec

=============================================================================
