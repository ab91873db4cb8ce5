---------------------------- MODULE IdentityProofs ----------------------------
(***************************************************************************)
(* The invariants of Identity, for every number of users, requests, keys   *)
(* and administrators' operations.  A step of any request is, for the      *)
(* tables, one of the moves of StoreMove; what a request in flight relies  *)
(* on (ReqOK) survives the moves of the others, and the request that moves *)
(* establishes it anew.                                                    *)
(***************************************************************************)
EXTENDS Identity, FiniteSetTheorems, TLAPS

\* The request of p has yet to put a row, or the first membership, of a user.
AtPut(p) == req[p].op \in {"create", "sso"} /\ req[p].at = "put"
AtEnsure(p) == req[p].op \in {"create", "sso"} /\ req[p].at = "ensure"
Makes(p) == AtPut(p) \/ AtEnsure(p)

\* ... and would bring an archived membership back.
Revives(p) == Makes(p) /\ (req[p].op = "create" => req[p].revive)

\* The request of p names a user who has a row.
Known(p) ==
  \/ req[p].op \in {"backfill", "me", "delete", "role"}
  \/ AtEnsure(p)
  \/ req[p].op = "sso" /\ req[p].at \in {"consume", "login", "record"}

(* What a request carries, by the operation it belongs to. *)

BackfillReqs == [op : {"backfill"}, at : {"put"}, u : Users, row : {r \in Rows : r.status = "active"}]
MeReqs == [op : {"me"}, at : {"ensure"}, u : Users, t : Tenants]
CreateReqs == [op : {"create"}, at : {"put", "ensure"}, u : Users, role : Roles, t : Tenants,
               revive : BOOLEAN]
DeleteReqs == [op : {"delete"}, at : {"mark", "list"}, u : Users]
KeyListReqs == [op : {"delete", "role"}, at : {"revoke", "archive"}, u : Users, todo : SUBSET Keys]
RoleReqs == [op : {"role"}, at : {"write", "sessions"}, u : Users, role : Roles,
             seen : SUBSET Roles, t : {None}]
MoveReqs == [op : {"role"}, at : {"write", "sessions", "switch", "signout", "list"}, u : Users,
             role : Roles, seen : SUBSET Roles, t : Tenants, old : Tenants]
ArchiveReqs == [op : {"archive"}, at : {"members"}, t : Tenants, todo : SUBSET Users]
GateReqs == [op : {"sso"}, at : {"gate", "login", "record"}, u : Users, arn : Principals]
SignUpReqs == [op : {"sso"}, at : {"put", "ensure", "consume", "login", "record"}, u : Users,
               arn : Principals, role : {"user", "team_lead"}, t : Tenants]

Shape(r) ==
  /\ r.op \in {"idle", "backfill", "me", "create", "delete", "role", "owner", "archive", "key", "sso"}
  /\ r.op = "backfill" => r \in BackfillReqs
  /\ r.op = "me" => r \in MeReqs
  /\ r.op = "create" => r \in CreateReqs
  /\ r.op = "delete" => r \in DeleteReqs \cup KeyListReqs
  /\ r.op = "role" => r \in RoleReqs \cup MoveReqs \cup KeyListReqs
  /\ r.op = "archive" => r \in ArchiveReqs
  /\ r.op = "sso" => r \in GateReqs \cup SignUpReqs

StoresOK ==
  /\ users \in [Users -> Rows \cup {NoRow}]
  /\ pool \in SUBSET Users
  /\ token \in [Users -> Nat \cup {None}]
  /\ ut \in [Users -> [Tenants -> {"none", "active", "archived"}]]
  /\ gone \in SUBSET Users
  /\ clock \in Nat
  /\ req = [p \in Procs |-> req[p]]

(* Users and requests. *)

NoMembership(u) == \A t \in Tenants : ut[u][t] = "none"

\* A membership of u in t that was never there would be its first, unless the
\* seed wrote over the row.
FirstAt(u, t) == u \notin adopted /\ ut[u][t] = "none" => NoMembership(u) /\ users[u].org = t

\* The tombstone of u is there, or its row was written over since.
Barred(u) == is_user_deleted(u) \/ u \in late \/ u \in adopted

\* Everything about one user that does not depend on a request.
UserOK(u) ==
  /\ u \notin adopted => \A s, t \in Tenants : ut[u][s] = "active" /\ ut[u][t] = "active" => s = t
  /\ users[u] = NoRow => NoMembership(u)
  /\ users[u] # NoRow => FirstAt(u, users[u].org)
  /\ token[u] # None => u \in pool \/ users[u] # NoRow
  /\ u \in gone => Barred(u)

\* Everything about one request.
ReqOK(p) ==
  LET r == req[p] IN
  /\ Shape(r)
  /\ AtPut(p) /\ users[r.u] = NoRow => r.u \in pool
  /\ AtPut(p) /\ Revives(p) => users[r.u] = NoRow
  /\ r.op = "create" /\ ~r.revive => r.role = "admin"
  /\ Known(p) => users[r.u] # NoRow
  /\ Revives(p) => token[r.u] = None
  /\ Revives(p) /\ AtEnsure(p) => NoMembership(r.u) /\ users[r.u].org = r.t
  /\ r.op = "me" \/ AtEnsure(p) => FirstAt(r.u, r.t)
  /\ r.op = "backfill" => token[r.u] # None /\ FirstAt(r.u, r.row.org)
  /\ r.op = "delete" /\ r.at # "mark" => Barred(r.u)

\* A user is made by one request at a time, and nobody acts as a user who is being made.
ActsAs(q) == req[q].op = "me" \/ (req[q].op = "sso" /\ req[q].at \in {"consume", "login", "record"})
Apart(p, q) ==
  p # q /\ ((Makes(p) /\ Makes(q)) \/ (Revives(p) /\ ActsAs(q))) => req[q].u # req[p].u

MemberInv ==
  /\ StoresOK
  /\ \A u \in Users : UserOK(u)
  /\ \A p \in Procs : ReqOK(p)
  /\ \A p, q \in Procs : Apart(p, q)

\* Before its first administrator the system is empty; from then on there is one whom no
\* request in flight is about to take away, or requests were taking away all of several.
Empty ==
  /\ \A u \in Users : users[u] = NoRow
  /\ account = "none"
  /\ \A p \in Procs :
       /\ req[p].op \in {"idle", "create", "sso"}
       /\ req[p].op = "create" => req[p].at = "put" /\ req[p].role = "admin"
       /\ req[p].op = "sso" => req[p].at = "gate"
AdminInv == Empty \/ SomeoneSafe \/ cornered

-----------------------------------------------------------------------------
(* The moves. *)

tables == <<users, pool, token, ut>>

\* The request of p is the one that moves.
Acts(p) == req'[p] # req[p]
RowLike(row, old) == row \in Rows /\ row.roles = old.roles /\ row.org = old.org

PutRow(u) ==
  /\ users[u] = NoRow
  /\ \E p \in Procs, row \in Rows :
       /\ AtPut(p) /\ req[p].u = u /\ Acts(p)
       /\ row.status = "active" /\ row.roles = {req[p].role} /\ row.org = req[p].t
       /\ users' = [users EXCEPT ![u] = row]
  /\ UNCHANGED <<pool, token, ut>>
Rewrite(u) ==
  /\ users[u] # NoRow
  /\ \E row \in Rows : /\ RowLike(row, users[u]) /\ row.status = users[u].status
                       /\ users' = [users EXCEPT ![u] = row]
  /\ UNCHANGED <<pool, token, ut>>
Overwrite(u) ==
  /\ users[u] # NoRow
  /\ \E p \in Procs, row \in Rows :
       /\ req[p].u = u /\ row.status = "active" /\ users' = [users EXCEPT ![u] = row]
       /\ \/ /\ At(p, "backfill", "put") /\ u \in late'
             /\ row.roles = req[p].row.roles /\ row.org = req[p].row.org
          \/ /\ At(p, "create", "put") /\ Acts(p) /\ u \in adopted'
             /\ row.roles = {req[p].role}
  /\ UNCHANGED <<pool, token, ut>>
MarkDeleted(u) ==
  /\ users[u] # NoRow
  /\ \E p \in Procs : At(p, "delete", "mark") /\ req[p].u = u
  /\ \E row \in Rows : /\ RowLike(row, users[u]) /\ row.status = "deleted"
                       /\ users' = [users EXCEPT ![u] = row]
  /\ UNCHANGED <<pool, token, ut>>
ChangeRole(u) ==
  /\ users[u] # NoRow
  /\ \E p \in Procs : /\ At(p, "role", "write") /\ req[p].u = u /\ users[u].roles = req[p].seen
                      /\ users' = [users EXCEPT ![u].roles = {req[p].role}]
  /\ UNCHANGED <<pool, token, ut>>
Switch(u) ==
  /\ users[u] # NoRow
  /\ \E old, t \in Tenants :
       /\ ut[u][old] = "active" /\ ut[u][t] # "active"
       /\ ut' = [ut EXCEPT ![u][old] = "archived", ![u][t] = "active"]
       /\ users' = [users EXCEPT ![u].org = t]
  /\ UNCHANGED <<pool, token>>
Ensure(u) ==
  /\ \E p \in Procs :
       /\ req[p].op = "me" \/ AtEnsure(p)
       /\ req[p].u = u /\ Acts(p)
       /\ ensure(u, req[p].t, Revives(p))
  /\ UNCHANGED <<users, pool, token>>
Archive(u) ==
  /\ users[u] # NoRow
  /\ \E f \in [Tenants -> {"none", "active", "archived"}] :
       /\ \A t \in Tenants : f[t] = ut[u][t] \/ (ut[u][t] = "active" /\ f[t] = "archived")
       /\ ut' = [ut EXCEPT ![u] = f]
  /\ UNCHANGED <<users, pool, token>>
Enter(u) == users[u] = NoRow /\ pool' = pool \union {u} /\ UNCHANGED <<users, token, ut>>
Leave(u) == users[u] # NoRow /\ pool' = pool \ {u} /\ UNCHANGED <<users, token, ut>>
SignIn(u) ==
  /\ u \in pool /\ ~BeingMade(u)
  /\ token' = [token EXCEPT ![u] = clock]
  /\ UNCHANGED <<users, pool, ut>>

Move ==
  \/ UNCHANGED tables
  \/ \E u \in Users :
       \/ PutRow(u) \/ Overwrite(u) \/ Rewrite(u) \/ MarkDeleted(u) \/ ChangeRole(u) \/ Switch(u)
       \/ Ensure(u) \/ Archive(u) \/ Enter(u) \/ Leave(u) \/ SignIn(u)

\* A row written over is remembered as such, a late one until the next tombstone.
Kept == \A u \in Users : /\ u \in adopted => u \in adopted'
                         /\ u \in late => u \in late' \/ is_user_deleted(u)'
StoreMove == Move /\ Kept

-----------------------------------------------------------------------------

\* A stored user that is not missing has the fields of a row.
LEMMA RowHasFields ==
  ASSUME StoresOK, NEW u \in Users, users[u] # NoRow
  PROVE  users[u] \in Rows
  BY DEF StoresOK

\* An administrator holds that role alone.
LEMMA AdminsRole ==
  ASSUME StoresOK, NEW u \in Users
  PROVE  u \in Admins <=> Live(u) /\ users[u].roles = {"admin"}
  <1>1. Live(u) => users[u] \in Rows
    BY RowHasFields DEF Live
  <1> QED  BY <1>1 DEF Admins, Rows

\* Only a live administrator passes for one, by session or by key.
LEMMA AdminsAct ==
  ASSUME StoresOK, NEW by \in Users,
         \/ user_has_permission(by, "admin")
         \/ jwt_admits(by) /\ has_permission(users[by].roles, "admin")
  PROVE  Live(by) /\ users[by].roles = {"admin"}
  <1>1. users[by] # NoRow /\ users[by].status # "deleted" /\ has_permission(users[by].roles, "admin")
    <2>1. ASSUME NEW k \in Keys, key_admits(k), keys[k].user = by,
                 has_permission(users[by].roles, "admin")
          PROVE  users[by] # NoRow /\ users[by].status # "deleted"
      BY <2>1 DEF key_admits, is_user_deleted
    <2> QED  BY <2>1 DEF user_has_permission, jwt_admits, is_user_deleted
  <1>2. users[by] \in Rows
    BY <1>1, RowHasFields
  <1>3. "admin" \in users[by].roles
    BY <1>1 DEF has_permission, grants
  <1> QED  BY <1>1, <1>2, <1>3 DEF Rows, Live

\* Who signed in has a row and a token.
LEMMA SessionsAct ==
  ASSUME NEW u \in Users, jwt_admits(u)
  PROVE  token[u] # None /\ Live(u)
  BY DEF jwt_admits, is_user_deleted, Live

\* No request moves another one.
LEMMA OneActs ==
  ASSUME StoresOK, NEW p \in Procs, Begin(p) \/ Continue(p)
  PROVE  /\ \A q \in Procs : q # p => req'[q] = req[q]
         /\ req' = [q \in Procs |-> req'[q]]
  <1>1. StoresOK => req = [q \in Procs |-> req[q]]
    BY DEF StoresOK
  <1>2. \E r : req' = [req EXCEPT ![p] = r]
    <2>1. CASE Begin(p)
      <3>1. ASSUME NEW by \in Users, NEW u \in Users, NEW role, NEW t,
                   \/ backfill_read(p, u) \/ me_read(p, u)
                   \/ delete_user(p, by, u) \/ set_user_role(p, by, u, role)
                   \/ create_user(p, by, u, role, t) \/ assign_tenant(p, by, u, t, role)
            PROVE  \E r : req' = [req EXCEPT ![p] = r]
        BY <3>1 DEF backfill_read, me_read, delete_user, set_user_role, create_user, assign_tenant, Start
      <3>2. ASSUME NEW by, NEW u, NEW scope, NEW e,
                   create_api_key_on_behalf(p, by, u, scope) \/ create_my_api_key(p, u, scope, e)
            PROVE  \E r : req' = [req EXCEPT ![p] = r]
        BY <3>2 DEF create_api_key_on_behalf, create_my_api_key, new_key, Start
      <3>3. ASSUME NEW by, NEW t, NEW owner, NEW sig, NEW u, NEW arn,
                   \/ archive_tenant(p, by, t) \/ set_tenant_owner(p, by, t, owner)
                   \/ verify_and_call_sts(p, sig, u, arn)
            PROVE  \E r : req' = [req EXCEPT ![p] = r]
        BY <3>3 DEF archive_tenant, set_tenant_owner, verify_and_call_sts, Start
      <3>4. CASE seed_bootstrap_admin(p)
        <4>1. PICK u \in Users :
                GoWith(p, [op |-> "create", at |-> "put", u |-> u, role |-> "admin", t |-> DEFAULT_ORG,
                           revive |-> FALSE])
          BY <3>4 DEF seed_bootstrap_admin
        <4> QED  BY <4>1 DEF GoWith
      <3> QED
        BY <2>1, <3>1, <3>2, <3>3, <3>4, Zenon DEF Begin
    <2>2. CASE Continue(p)
      <3>1. ASSUME NEW a, Go(p, a) PROVE \E s : req' = [req EXCEPT ![p] = s]
        BY <3>1 DEF Go
      <3>2. ASSUME NEW r, GoWith(p, r) PROVE \E s : req' = [req EXCEPT ![p] = s]
        BY <3>2 DEF GoWith
      <3>3. CASE End(p)
        BY <3>3 DEF End
      <3> QED
        BY <2>2, <3>1, <3>2, <3>3
           DEF Continue, backfill_put, me_ensure, create_user_put, create_user_ensure,
               delete_user_mark, list_keys, revoke_keys, delete_user_archive, update_roles,
               set_user_role_sessions, switch_tenant, assign_tenant_signout, set_owner,
               archive_member, archive_flip, put_api_key, sso_new_user, sso_known_user, sso_put,
               sso_ensure, mark_consumed, sso_login, record_sso_login, abandon
    <2> QED  BY <2>1, <2>2
  <1> QED  BY <1>1, <1>2

-----------------------------------------------------------------------------
(* Every step is a move of the tables. *)

\* A row put where there was none, or written over the row it was read from.
LEMMA PutRowIs ==
  ASSUME StoresOK, NEW u \in Users, NEW role \in Roles, NEW org \in Tenants,
         NEW method \in {None, "sso"}, NEW arn \in Principals \cup {None},
         put_user(u, {role}, org, method, arn)
  PROVE  \E row \in Rows : /\ row.status = "active" /\ row.roles = {role} /\ row.org = org
                           /\ users' = [users EXCEPT ![u] = row]
  <1> DEFINE m == IF method # None THEN method ELSE IF users[u] # NoRow THEN users[u].method ELSE "cognito"
             a == IF arn # None THEN arn ELSE IF users[u] # NoRow THEN users[u].arn ELSE None
  <1>1. m \in {"cognito", "sso"} /\ a \in Principals \cup {None}
    BY RowHasFields DEF Rows
  <1>2. users' = [users EXCEPT ![u] = Row({role}, org, m, a)]
    BY DEF put_user
  <1> HIDE DEF m, a
  <1>3. Row({role}, org, m, a) \in Rows
    BY <1>1 DEF Row, Rows
  <1>4. /\ Row({role}, org, m, a).status = "active" /\ Row({role}, org, m, a).roles = {role}
        /\ Row({role}, org, m, a).org = org
    BY DEF Row
  <1> QED  BY <1>2, <1>3, <1>4

\* The put of a new user puts a row where there is none; the seed's may write over one.
LEMMA PutMoves ==
  ASSUME MemberInv, Remember, NEW p \in Procs, create_user_put(p) \/ sso_put(p)
  PROVE  /\ req[p].u \in Users
         /\ UNCHANGED tables \/ PutRow(req[p].u) \/ Overwrite(req[p].u)
         /\ users[req[p].u] = NoRow => PutRow(req[p].u)
  <1>0. StoresOK /\ ReqOK(p)
    BY DEF MemberInv
  <1>1. /\ AtPut(p) /\ req[p].u \in Users /\ req[p].role \in Roles /\ req[p].t \in Tenants
        /\ req[p].op = "sso" => req[p].arn \in Principals
    BY <1>0 DEF ReqOK, Shape, create_user_put, sso_put, At, AtPut, CreateReqs, GateReqs, SignUpReqs, Roles
  <1>3. PICK row \in Rows : /\ row.status = "active" /\ row.roles = {req[p].role} /\ row.org = req[p].t
                            /\ users' = [users EXCEPT ![req[p].u] = row]
    <2>1. PICK u \in Users, role \in Roles, t \in Tenants :
            u = req[p].u /\ role = req[p].role /\ t = req[p].t
      BY <1>1
    <2>2. CASE create_user_put(p)
      <3>1. put_user(u, {role}, t, None, None)
        BY <2>1, <2>2 DEF create_user_put, put_user
      <3>2. \E row \in Rows : /\ row.status = "active" /\ row.roles = {role} /\ row.org = t
                              /\ users' = [users EXCEPT ![u] = row]
        BY <1>0, <3>1, PutRowIs
      <3> QED  BY <2>1, <3>2
    <2>3. CASE sso_put(p)
      <3>1. PICK arn \in Principals : arn = req[p].arn
        BY <1>1, <2>3 DEF sso_put, At
      <3>2. put_user(u, {role}, t, "sso", arn)
        BY <2>1, <2>3, <3>1 DEF sso_put, put_user
      <3>3. \E row \in Rows : /\ row.status = "active" /\ row.roles = {role} /\ row.org = t
                              /\ users' = [users EXCEPT ![u] = row]
        BY <1>0, <3>2, PutRowIs
      <3> QED  BY <2>1, <3>3
    <2> QED  BY <2>2, <2>3
  <1>4. UNCHANGED <<pool, token, ut>>
    BY DEF create_user_put, sso_put
  <1>5. Acts(p)
    <2>1. req' = [req EXCEPT ![p].at = "ensure"] /\ req[p].at = "put"
      BY DEF create_user_put, sso_put, At, Go
    <2>2. req = [q \in Procs |-> req[q]] /\ req[p] \in CreateReqs \cup SignUpReqs
      BY <1>0, <1>1, <2>1 DEF StoresOK, ReqOK, Shape, AtPut, GateReqs
    <2>3. req'[p].at = "ensure"
      BY <2>1, <2>2 DEF CreateReqs, SignUpReqs
    <2> QED  BY <2>1, <2>3 DEF Acts
  <1>6. users[req[p].u] = NoRow => PutRow(req[p].u)
    BY <1>1, <1>3, <1>4, <1>5 DEF PutRow
  <1>7. CASE users[req[p].u] # NoRow
    <2>1. At(p, "create", "put")
      BY <1>0, <1>1, <1>7 DEF ReqOK, AtPut, Revives, Makes, At
    <2>2. CASE users'[req[p].u] = users[req[p].u]
      <3>1. users' = users
        BY <1>0, <1>3, <2>2 DEF StoresOK
      <3> QED  BY <1>1, <1>4, <1>6, <1>7, <3>1 DEF tables
    <2>3. CASE users'[req[p].u] # users[req[p].u]
      <3>1. PutOver(req[p].u)
        BY <1>5, <1>7, <2>1, <2>3 DEF PutOver, PutBy, Acts
      <3>2. req[p].u \in adopted'
        BY <1>1, <3>1 DEF Remember
      <3>3. Overwrite(req[p].u)
        BY <1>3, <1>4, <1>5, <1>7, <2>1, <3>2 DEF Overwrite
      <3> QED  BY <1>1, <1>6, <3>3
    <2> QED  BY <2>2, <2>3
  <1> QED  BY <1>1, <1>6, <1>7

\* A backfill rewrites the row it read and keeps its status, or it writes over a newer one.
LEMMA BackfillMoves ==
  ASSUME MemberInv, Remember, NEW p \in Procs, backfill_put(p)
  PROVE  UNCHANGED tables \/ (req[p].u \in Users /\ (Rewrite(req[p].u) \/ Overwrite(req[p].u)))
  <1>0. StoresOK /\ ReqOK(p)
    BY DEF MemberInv
  <1>1. /\ At(p, "backfill", "put") /\ req[p] \in BackfillReqs /\ req[p].u \in Users
        /\ req[p].row \in Rows /\ users[req[p].u] # NoRow
    BY <1>0 DEF ReqOK, Shape, Known, backfill_put, At, BackfillReqs
  <1>2. PICK u \in Users : u = req[p].u
    BY <1>1
  <1>3. PICK role \in Roles, org \in Tenants : req[p].row.roles = {role} /\ req[p].row.org = org
    BY <1>1 DEF Rows
  <1>4. put_user(u, {role}, org, None, None)
    BY <1>2, <1>3 DEF backfill_put, put_user
  <1>5. PICK row \in Rows : /\ row.status = "active" /\ row.roles = {role} /\ row.org = org
                            /\ users' = [users EXCEPT ![u] = row]
    BY <1>0, <1>4, PutRowIs
  <1>6. UNCHANGED <<pool, token, ut>>
    BY DEF backfill_put
  <1>7. CASE users[u] = req[p].row
    <2>1. users[u].status = "active"
      BY <1>1, <1>7 DEF BackfillReqs
    <2>2. Rewrite(u)
      BY <1>1, <1>2, <1>3, <1>5, <1>6, <1>7, <2>1 DEF Rewrite, RowLike
    <2> QED  BY <1>2, <2>2 DEF Rewrite, RowLike
  <1>8. CASE users'[u] = users[u]
    <2>1. users' = users
      BY <1>0, <1>5, <1>8 DEF StoresOK
    <2> QED  BY <1>6, <2>1 DEF tables
  <1>9. CASE users[u] # req[p].row /\ users'[u] # users[u]
    <2>1. req'[p] = Idle
      BY <1>0 DEF backfill_put, End, StoresOK
    <2>2. PutLate(u)
      BY <1>1, <1>2, <1>9, <2>1 DEF PutLate, PutBy, Idle, At
    <2>3. ~is_user_deleted(u)'
      BY <1>0, <1>5 DEF is_user_deleted, StoresOK
    <2>4. u \in late'
      BY <2>2, <2>3 DEF Remember
    <2>5. Overwrite(u)
      BY <1>1, <1>2, <1>3, <1>5, <1>6, <2>4 DEF Overwrite
    <2>6. u = req[p].u
      BY <1>2
    <2> QED  BY <2>5, <2>6
  <1> QED  BY <1>7, <1>8, <1>9

\* Each of the writes to a user's row is one of the four moves of a row, or fails.
LEMMA RowMoves ==
  ASSUME MemberInv, NEW p \in Procs
  PROVE  /\ set_user_role_sessions(p) \/ assign_tenant_signout(p) \/ record_sso_login(p)
              => req[p].u \in Users /\ Rewrite(req[p].u)
         /\ delete_user_mark(p) => req[p].u \in Users /\ MarkDeleted(req[p].u)
         /\ update_roles(p) => UNCHANGED tables \/ (req[p].u \in Users /\ ChangeRole(req[p].u))
         /\ switch_tenant(p) => UNCHANGED tables \/ (req[p].u \in Users /\ Switch(req[p].u))
  <1> DEFINE u == req[p].u
             signed == [users[u] EXCEPT !.after = clock]
             seen == [users[u] EXCEPT !.arn = req[p].arn]
             dead == [users[u] EXCEPT !.status = "deleted", !.after = clock]
  <1>0. StoresOK /\ ReqOK(p)
    BY DEF MemberInv
  <1>1. ASSUME \/ req[p].op \in {"role", "delete"}
               \/ At(p, "sso", "record")
        PROVE  /\ u \in Users /\ users[u] # NoRow /\ users[u] \in Rows
               /\ req[p].op = "sso" => req[p].arn \in Principals
    <2>1. u \in Users /\ (req[p].op = "sso" => req[p].arn \in Principals)
      BY <1>0, <1>1 DEF ReqOK, Shape, At, DeleteReqs, KeyListReqs, RoleReqs, MoveReqs, GateReqs, SignUpReqs
    <2>2. users[u] # NoRow
      BY <1>0, <1>1 DEF ReqOK, Known, At
    <2> QED  BY <1>0, <2>1, <2>2, RowHasFields
  <1>2. CASE set_user_role_sessions(p) \/ assign_tenant_signout(p)
    <2>1. u \in Users /\ users[u] # NoRow /\ users[u] \in Rows
      BY <1>1, <1>2 DEF set_user_role_sessions, assign_tenant_signout, At
    <2>2. signed \in Rows /\ RowLike(signed, users[u]) /\ signed.status = users[u].status
      BY <1>0, <2>1 DEF Rows, RowLike, StoresOK
    <2>3. users' = [users EXCEPT ![u] = signed] /\ UNCHANGED <<pool, token, ut>>
      BY <1>0, <1>2, <2>1 DEF set_user_role_sessions, assign_tenant_signout, revoke_all_sessions, StoresOK
    <2>4. Rewrite(u)
      BY <2>1, <2>2, <2>3 DEF Rewrite
    <2> QED  BY <1>2, <2>1, <2>4 DEF set_user_role_sessions, assign_tenant_signout,
                  record_sso_login, delete_user_mark, update_roles, switch_tenant, At
  <1>3. CASE record_sso_login(p)
    <2>1. u \in Users /\ users[u] # NoRow /\ users[u] \in Rows /\ req[p].arn \in Principals
      BY <1>1, <1>3 DEF record_sso_login, At
    <2>2. seen \in Rows /\ RowLike(seen, users[u]) /\ seen.status = users[u].status
      BY <2>1 DEF Rows, RowLike
    <2>3. users' = [users EXCEPT ![u] = seen] /\ UNCHANGED <<pool, token, ut>>
      BY <1>0, <1>3, <2>1 DEF record_sso_login, StoresOK
    <2> QED  BY <1>3, <2>1, <2>2, <2>3 DEF Rewrite, record_sso_login, delete_user_mark, update_roles,
                  switch_tenant, At
  <1>4. CASE delete_user_mark(p)
    <2>1. u \in Users /\ users[u] # NoRow /\ users[u] \in Rows
      BY <1>1, <1>4 DEF delete_user_mark, At
    <2>2. dead \in Rows /\ RowLike(dead, users[u]) /\ dead.status = "deleted"
      BY <1>0, <2>1 DEF Rows, RowLike, StoresOK
    <2>3. users' = [users EXCEPT ![u] = dead] /\ UNCHANGED <<pool, token, ut>>
      BY <1>0, <1>4, <2>1 DEF delete_user_mark, mark_deleted, StoresOK
    <2> QED  BY <1>4, <2>1, <2>2, <2>3 DEF MarkDeleted, delete_user_mark, record_sso_login, update_roles,
                  switch_tenant, set_user_role_sessions, assign_tenant_signout, At
  <1>5. CASE update_roles(p)
    <2>1. u \in Users /\ users[u] # NoRow
      BY <1>1, <1>5 DEF update_roles, At
    <2>2. UNCHANGED tables \/ ChangeRole(u)
      BY <1>5, <2>1 DEF update_roles, ChangeRole, At, tables
    <2> QED  BY <1>5, <2>1, <2>2 DEF delete_user_mark, record_sso_login, update_roles,
                  switch_tenant, set_user_role_sessions, assign_tenant_signout, At
  <1>6. CASE switch_tenant(p)
    <2>1. u \in Users /\ users[u] # NoRow
      BY <1>1, <1>6 DEF switch_tenant, At
    <2>2. req[p].old \in Tenants /\ req[p].t \in Tenants
      BY <1>0, <1>6 DEF switch_tenant, At, ReqOK, Shape, RoleReqs, MoveReqs, KeyListReqs
    <2>3. UNCHANGED tables \/ Switch(u)
      BY <1>6, <2>1, <2>2 DEF switch_tenant, Switch, tables
    <2> QED  BY <1>6, <2>1, <2>3 DEF delete_user_mark, record_sso_login, update_roles,
                  switch_tenant, set_user_role_sessions, assign_tenant_signout, At
  <1> QED  BY <1>2, <1>3, <1>4, <1>5, <1>6

\* Making sure of a membership is the move of that name.
LEMMA EnsureMoves ==
  ASSUME MemberInv, NEW p \in Procs, me_ensure(p) \/ create_user_ensure(p) \/ sso_ensure(p)
  PROVE  req[p].u \in Users /\ Ensure(req[p].u)
  <1>0. StoresOK /\ ReqOK(p)
    BY DEF MemberInv
  <1>1. /\ req[p] \in MeReqs \cup CreateReqs \cup SignUpReqs
        /\ req[p].op = "me" \/ AtEnsure(p)
        /\ req[p].at = "ensure"
    BY <1>0 DEF ReqOK, Shape, me_ensure, create_user_ensure, sso_ensure, At, AtEnsure, GateReqs
  <1>2. PICK u \in Users, t \in Tenants : u = req[p].u /\ t = req[p].t
    BY <1>1 DEF MeReqs, CreateReqs, SignUpReqs
  <1>3. ensure(u, t, Revives(p))
    <2>1. CASE me_ensure(p)
      BY <1>2, <2>1 DEF me_ensure, ensure, Revives, Makes, AtPut, AtEnsure, At
    <2>2. CASE create_user_ensure(p)
      BY <1>2, <2>2 DEF create_user_ensure, ensure, Revives, Makes, AtPut, AtEnsure, At
    <2>3. CASE sso_ensure(p)
      BY <1>2, <2>3 DEF sso_ensure, ensure, Revives, Makes, AtPut, AtEnsure, At
    <2> QED  BY <2>1, <2>2, <2>3
  <1>4. Acts(p)
    <2>1. req = [q \in Procs |-> req[q]]
      BY <1>0 DEF StoresOK
    <2>2. CASE me_ensure(p) \/ create_user_ensure(p)
      <3>1. req'[p] = Idle
        BY <2>1, <2>2 DEF me_ensure, create_user_ensure, End
      <3>2. req[p].op # "idle"
        BY <2>2 DEF me_ensure, create_user_ensure, At
      <3> QED  BY <3>1, <3>2 DEF Acts, Idle
    <2>3. CASE sso_ensure(p)
      <3>1. req[p] \in SignUpReqs
        BY <1>0, <2>3 DEF ReqOK, Shape, sso_ensure, At, GateReqs
      <3>2. req'[p].at = "consume"
        BY <2>1, <2>3, <3>1 DEF sso_ensure, Go, SignUpReqs
      <3> QED  BY <1>1, <3>2 DEF Acts
    <2> QED  BY <2>2, <2>3
  <1>5. UNCHANGED <<users, pool, token>>
    BY DEF me_ensure, create_user_ensure, sso_ensure
  <1>6. Ensure(u)
    BY <1>1, <1>2, <1>3, <1>4, <1>5 DEF Ensure, ensure
  <1> QED  BY <1>2, <1>6 DEF Ensure, ensure

\* Archiving a membership, of a deleted user or of a member, is the move of that name.
LEMMA ArchiveMoves ==
  ASSUME MemberInv, NEW p \in Procs
  PROVE  /\ delete_user_archive(p) => req[p].u \in Users /\ Archive(req[p].u)
         /\ archive_member(p) => UNCHANGED tables \/ \E u \in Users : Archive(u)
  <1>0. StoresOK /\ ReqOK(p)
    BY DEF MemberInv
  <1>1. CASE delete_user_archive(p)
    <2>1. PICK u \in Users : u = req[p].u /\ users[u] # NoRow
      BY <1>0, <1>1 DEF ReqOK, Shape, Known, delete_user_archive, At, DeleteReqs, KeyListReqs
    <2> DEFINE f == [t \in Tenants |-> IF ut[u][t] = "active" THEN "archived" ELSE ut[u][t]]
    <2>2. ut' = [ut EXCEPT ![u] = f] /\ UNCHANGED <<users, pool, token>>
      BY <1>0, <1>1, <2>1 DEF delete_user_archive, StoresOK
    <2>3. /\ f \in [Tenants -> {"none", "active", "archived"}]
          /\ \A t \in Tenants : f[t] = ut[u][t] \/ (ut[u][t] = "active" /\ f[t] = "archived")
      BY <1>0 DEF StoresOK
    <2>4. Archive(u)
      BY <2>1, <2>2, <2>3 DEF Archive
    <2> QED  BY <1>1, <2>1, <2>4 DEF delete_user_archive, archive_member, At
  <1>2. CASE archive_member(p)
    <2>1. PICK u \in req[p].todo :
            IF ut[u][req[p].t] = "active" THEN ut' = [ut EXCEPT ![u][req[p].t] = "archived"] ELSE UNCHANGED ut
      BY <1>2 DEF archive_member
    <2>2. u \in Users /\ req[p].t \in Tenants
      BY <1>0, <1>2, <2>1 DEF ReqOK, Shape, archive_member, At, ArchiveReqs
    <2>3. UNCHANGED <<users, pool, token>>
      BY <1>2 DEF archive_member
    <2>4. CASE ut[u][req[p].t] = "active"
      <3> DEFINE f == [ut[u] EXCEPT ![req[p].t] = "archived"]
      <3>1. users[u] # NoRow
        BY <2>2, <2>4 DEF MemberInv, UserOK, NoMembership
      <3>2. ut' = [ut EXCEPT ![u] = f]
        BY <1>0, <2>1, <2>2, <2>4 DEF StoresOK
      <3>3. /\ f \in [Tenants -> {"none", "active", "archived"}]
            /\ \A t \in Tenants : f[t] = ut[u][t] \/ (ut[u][t] = "active" /\ f[t] = "archived")
        BY <1>0, <2>2, <2>4 DEF StoresOK
      <3>4. Archive(u)
        BY <3>1, <3>2, <3>3, <2>3 DEF Archive
      <3> QED  BY <1>2, <2>2, <3>4 DEF archive_member, delete_user_archive, At
    <2>5. CASE ut[u][req[p].t] # "active"
      BY <1>2, <2>1, <2>3, <2>5 DEF tables, archive_member, delete_user_archive, At
    <2> QED  BY <2>4, <2>5
  <1> QED  BY <1>1, <1>2

\* Who enters, leaves and signs in.
LEMMA PoolMoves ==
  ASSUME MemberInv, NEW p \in Procs
  PROVE  /\ \A by, u \in Users, role \in Roles, t \in Tenants : create_user(p, by, u, role, t) => Enter(u)
         /\ \A role \in Roles, t \in Tenants :
              sso_new_user(p, role, t) => req[p].u \in Users /\ Enter(req[p].u)
         /\ seed_bootstrap_admin(p) => UNCHANGED tables \/ \E u \in Users : Enter(u)
         /\ \A by, u \in Users : delete_user(p, by, u) => UNCHANGED tables \/ Leave(u)
         /\ sso_login(p) => UNCHANGED tables \/ (req[p].u \in Users /\ SignIn(req[p].u))
  <1>0. StoresOK /\ ReqOK(p)
    BY DEF MemberInv
  <1>s. ASSUME req[p].op = "sso" PROVE req[p].u \in Users
    BY <1>0, <1>s DEF ReqOK, Shape, GateReqs, SignUpReqs
  <1>1. ASSUME NEW by \in Users, NEW u \in Users, NEW role \in Roles, NEW t \in Tenants,
               create_user(p, by, u, role, t)
        PROVE  Enter(u)
    BY <1>1 DEF create_user, Enter
  <1>2. ASSUME NEW role \in Roles, NEW t \in Tenants, sso_new_user(p, role, t)
        PROVE  req[p].u \in Users /\ Enter(req[p].u)
    BY <1>s, <1>2 DEF sso_new_user, Enter, At
  <1>3. ASSUME seed_bootstrap_admin(p) PROVE UNCHANGED tables \/ \E u \in Users : Enter(u)
    <2>1. PICK u \in Users : /\ (u = Root /\ Root \in pool) \/ users[u] = NoRow
                            /\ pool' = pool \union {u}
      BY <1>3 DEF seed_bootstrap_admin
    <2>2. UNCHANGED <<users, token, ut>>
      BY <1>3 DEF seed_bootstrap_admin
    <2>3. CASE users[u] = NoRow
      BY <2>1, <2>2, <2>3 DEF Enter
    <2>4. CASE u = Root /\ Root \in pool
      BY <2>1, <2>2, <2>4 DEF tables
    <2> QED  BY <2>1, <2>3, <2>4
  <1>4. ASSUME NEW by \in Users, NEW u \in Users, delete_user(p, by, u)
        PROVE  UNCHANGED tables \/ Leave(u)
    BY <1>4 DEF delete_user, Leave, tables
  <1>5. ASSUME sso_login(p), ~UNCHANGED tables PROVE req[p].u \in Users /\ SignIn(req[p].u)
    <2>1. /\ req[p].op = "sso" /\ req[p].at = "login" /\ req[p].u \in pool /\ req[p].u \in Users
          /\ token' = [token EXCEPT ![req[p].u] = clock] /\ UNCHANGED <<users, pool, ut>>
      BY <1>5, <1>s DEF sso_login, At, tables
    <2>2. ~BeingMade(req[p].u)
      <3>1. SUFFICES ASSUME NEW q \in Procs, Revives(q), req[q].u = req[p].u, req[q].at # "login" PROVE FALSE
        BY DEF BeingMade, Revives, Makes, AtPut, AtEnsure
      <3>2. Apart(q, p) /\ q # p
        BY <2>1, <3>1 DEF MemberInv
      <3> QED  BY <2>1, <3>1, <3>2 DEF Apart, ActsAs
    <2> QED  BY <2>1, <2>2 DEF SignIn
  <1> QED  BY <1>1, <1>2, <1>3, <1>4, <1>5

\* What was written over stays remembered.
LEMMA KeptAlways ==
  ASSUME [Next]_vars
  PROVE  Kept
  <1>1. CASE UNCHANGED vars
    BY <1>1 DEF vars, history, Kept
  <1>2. CASE Remember
    BY <1>2 DEF Remember, Kept
  <1> QED  BY <1>1, <1>2 DEF Next

\* Every step makes one of the moves on the stores.
LEMMA StoreStep ==
  ASSUME ~Overlaps, MemberInv, [Next]_vars
  PROVE  StoreMove
  <1>1. CASE UNCHANGED vars
    BY <1>1, KeptAlways DEF vars, stores, StoreMove, Move, tables
  <1> SUFFICES ASSUME Step, Remember PROVE Move
    BY <1>1, KeptAlways DEF Next, StoreMove
  <1>2. CASE Administer
    BY <1>2 DEF Administer, revoke_my_api_key, revoke_any_api_key, create_own_tenant, create_tenant,
       create_trusted_account, update_trusted_account, delete_trusted_account, create_invite,
       delete_invite, mint_ui_ticket, Move, tables
  <1>3. ASSUME NEW p \in Procs, Begin(p) PROVE Move
    <2>1. ASSUME NEW by \in Users, NEW u \in Users, NEW role \in Roles, NEW t \in Tenants,
                 \/ backfill_read(p, u) \/ me_read(p, u) \/ set_user_role(p, by, u, role)
                 \/ assign_tenant(p, by, u, t, role) \/ archive_tenant(p, by, t)
          PROVE  UNCHANGED tables
      BY <2>1 DEF backfill_read, me_read, set_user_role, assign_tenant, archive_tenant, stores, tables
    <2>2. ASSUME NEW by, NEW u, NEW scope, NEW e, NEW t, NEW owner, NEW sig, NEW arn,
                 \/ create_api_key_on_behalf(p, by, u, scope) \/ create_my_api_key(p, u, scope, e)
                 \/ set_tenant_owner(p, by, t, owner) \/ verify_and_call_sts(p, sig, u, arn)
          PROVE  UNCHANGED tables
      BY <2>2 DEF create_api_key_on_behalf, create_my_api_key, new_key, set_tenant_owner,
                  verify_and_call_sts, stores, tables
    <2>3. ASSUME NEW by \in Users, NEW u \in Users, NEW role \in Roles, NEW t \in Tenants,
                 create_user(p, by, u, role, t) \/ delete_user(p, by, u) \/ seed_bootstrap_admin(p)
          PROVE  Move
      BY <2>3, PoolMoves, IdentityAssumption DEF Move
    <2>4. \E t \in Tenants : TRUE
      BY IdentityAssumption
    <2>5. \E r \in Roles : TRUE
      BY DEF Roles
    <2>6. \E u \in Users : TRUE
      BY IdentityAssumption
    <2>7. UNCHANGED tables => Move
      BY DEF Move
    <2> QED
      BY <1>3, <2>1, <2>2, <2>3, <2>4, <2>5, <2>6, <2>7, Zenon DEF Begin
  <1>4. ASSUME NEW p \in Procs, Continue(p) PROVE Move
    <2>1. CASE \/ list_keys(p) \/ revoke_keys(p) \/ set_owner(p) \/ archive_flip(p)
               \/ (\E k \in Keys : put_api_key(p, k)) \/ sso_known_user(p) \/ mark_consumed(p)
               \/ abandon(p)
      BY <2>1 DEF list_keys, revoke_keys, set_owner, archive_flip, put_api_key, sso_known_user,
                  mark_consumed, abandon, stores, Move, tables
    <2>2. CASE backfill_put(p) \/ create_user_put(p) \/ sso_put(p)
      <3>1. \/ UNCHANGED tables
            \/ req[p].u \in Users /\ \/ PutRow(req[p].u) \/ Overwrite(req[p].u)
                                     \/ Rewrite(req[p].u)
        BY <2>2, BackfillMoves, PutMoves
      <3> QED  BY <3>1 DEF Move
    <2>3. CASE me_ensure(p) \/ create_user_ensure(p) \/ sso_ensure(p)
      <3>1. req[p].u \in Users /\ Ensure(req[p].u)
        BY <2>3, EnsureMoves
      <3> QED  BY <3>1 DEF Move
    <2>4. CASE \/ delete_user_mark(p) \/ update_roles(p) \/ set_user_role_sessions(p)
               \/ switch_tenant(p) \/ assign_tenant_signout(p) \/ record_sso_login(p)
      <3>1. \/ UNCHANGED tables
            \/ req[p].u \in Users /\ \/ Rewrite(req[p].u) \/ MarkDeleted(req[p].u)
                                     \/ ChangeRole(req[p].u) \/ Switch(req[p].u)
        BY <2>4, RowMoves
      <3> QED  BY <3>1 DEF Move
    <2>5. CASE delete_user_archive(p) \/ archive_member(p)
      <3>1. UNCHANGED tables \/ \E u \in Users : Archive(u)
        BY <2>5, ArchiveMoves
      <3> QED  BY <3>1 DEF Move
    <2>6. CASE sso_login(p) \/ \E role \in Roles, t \in Tenants : sso_new_user(p, role, t)
      <3>1. \/ UNCHANGED tables
            \/ req[p].u \in Users /\ (Enter(req[p].u) \/ SignIn(req[p].u))
        BY <2>6, PoolMoves
      <3> QED  BY <3>1 DEF Move
    <2> QED  BY <1>4, <2>1, <2>2, <2>3, <2>4, <2>5, <2>6 DEF Continue
  <1>5. ASSUME NEW u \in Users, cognito_login(u) PROVE Move
    BY <1>5 DEF cognito_login, SignIn, Move
  <1>6. CASE \/ \E x \in Tickets : consume_ui_ticket(x)
             \/ \E s \in Signatures : purge_nonce(s)
             \/ seed_default_tenant \/ tick
    BY <1>6 DEF consume_ui_ticket, purge_nonce, seed_default_tenant, tick, stores, Move, tables
  <1> QED  BY <1>2, <1>3, <1>4, <1>5, <1>6 DEF Step

-----------------------------------------------------------------------------
(* What a move leaves of a user. *)

\* A missing row is not a row.
LEMMA RowsNeverEmpty == NoRow \notin Rows
  BY IdentityAssumption

\* A row stays a row, and a tombstone a tombstone unless the row is written over.
LEMMA RowsStay ==
  ASSUME MemberInv, StoreMove
  PROVE  /\ users' \in [Users -> Rows \cup {NoRow}]
         /\ \A v \in Users :
              /\ users[v] # NoRow => users'[v] # NoRow
              /\ Barred(v) => Barred(v)'
  <1>0. StoresOK /\ Kept
    BY DEF MemberInv, StoreMove
  <1>1. CASE UNCHANGED users
    BY <1>0, <1>1 DEF StoresOK, is_user_deleted, Barred, Kept
  <1>2. ASSUME NEW u \in Users, NEW row \in Rows, users' = [users EXCEPT ![u] = row],
               is_user_deleted(u) => row.status = "deleted" \/ u \in late' \/ u \in adopted'
        PROVE  /\ users' \in [Users -> Rows \cup {NoRow}]
               /\ \A v \in Users :
                    /\ users[v] # NoRow => users'[v] # NoRow
                    /\ Barred(v) => Barred(v)'
    <2>1. users' \in [Users -> Rows \cup {NoRow}] /\ \A v \in Users : users[v] # NoRow => users'[v] # NoRow
      BY <1>0, <1>2, RowsNeverEmpty DEF StoresOK
    <2>2. ASSUME NEW v \in Users, is_user_deleted(v) PROVE Barred(v)'
      <3>1. CASE v = u
        BY <1>0, <1>2, <2>2, <3>1, RowsNeverEmpty DEF StoresOK, is_user_deleted, Barred
      <3>2. CASE v # u
        BY <1>0, <1>2, <2>2, <3>2 DEF StoresOK, is_user_deleted, Barred
      <3> QED  BY <3>1, <3>2
    <2>3. ASSUME NEW v \in Users, v \in late \/ v \in adopted PROVE Barred(v)'
      BY <1>0, <2>3 DEF Kept, Barred
    <2> QED  BY <2>1, <2>2, <2>3 DEF Barred
  <1>3. ASSUME NEW u \in Users, PutRow(u) \/ Overwrite(u) \/ Rewrite(u) \/ MarkDeleted(u)
        PROVE  \E row \in Rows : /\ users' = [users EXCEPT ![u] = row]
                                 /\ is_user_deleted(u) => row.status = "deleted" \/ u \in late' \/ u \in adopted'
    BY <1>3 DEF PutRow, Overwrite, Rewrite, MarkDeleted, is_user_deleted
  <1>4. ASSUME NEW u \in Users, ChangeRole(u)
        PROVE  \E row \in Rows : /\ users' = [users EXCEPT ![u] = row]
                                 /\ is_user_deleted(u) => row.status = "deleted" \/ u \in late' \/ u \in adopted'
    <2>1. PICK p \in Procs : /\ At(p, "role", "write") /\ users' = [users EXCEPT ![u].roles = {req[p].role}]
      BY <1>4 DEF ChangeRole
    <2>2. req[p].role \in Roles
      BY <2>1 DEF MemberInv, ReqOK, Shape, At, RoleReqs, MoveReqs, KeyListReqs
    <2>3. users[u] \in Rows
      BY <1>0, <1>4, RowHasFields DEF ChangeRole
    <2> DEFINE row == [users[u] EXCEPT !.roles = {req[p].role}]
    <2>4. row \in Rows /\ row.status = users[u].status
      BY <2>2, <2>3 DEF Rows
    <2>5. users' = [users EXCEPT ![u] = row]
      BY <1>0, <2>1 DEF StoresOK
    <2> QED  BY <2>4, <2>5 DEF is_user_deleted
  <1>5. ASSUME NEW u \in Users, Switch(u)
        PROVE  \E row \in Rows : /\ users' = [users EXCEPT ![u] = row]
                                 /\ is_user_deleted(u) => row.status = "deleted" \/ u \in late' \/ u \in adopted'
    <2>1. PICK t \in Tenants : users' = [users EXCEPT ![u].org = t]
      BY <1>5 DEF Switch
    <2>2. users[u] \in Rows
      BY <1>0, <1>5, RowHasFields DEF Switch
    <2> DEFINE row == [users[u] EXCEPT !.org = t]
    <2>3. row \in Rows /\ row.status = users[u].status
      BY <2>2 DEF Rows
    <2>4. users' = [users EXCEPT ![u] = row]
      BY <1>0, <2>1 DEF StoresOK
    <2> QED  BY <2>3, <2>4 DEF is_user_deleted
  <1>6. UNCHANGED users \/ \E u \in Users : PutRow(u) \/ Overwrite(u) \/ Rewrite(u) \/ MarkDeleted(u) \/ ChangeRole(u) \/ Switch(u)
    BY DEF StoreMove, Move, tables, Ensure, Archive, Enter, Leave, SignIn
  <1> QED  BY <1>1, <1>2, <1>3, <1>4, <1>5, <1>6

\* Only Switch and Overwrite change the tenant of a row.
LEMMA OrgStays ==
  ASSUME MemberInv, StoreMove, NEW v \in Users, users[v] # NoRow, ~Switch(v), ~Overwrite(v)
  PROVE  users'[v].org = users[v].org
  <1>0. StoresOK
    BY DEF MemberInv
  <1>1. users[v] \in Rows
    BY <1>0, RowHasFields
  <1>2. CASE UNCHANGED users
    BY <1>2
  <1>3. ASSUME NEW u \in Users, PutRow(u) \/ Rewrite(u) \/ MarkDeleted(u)
        PROVE  users'[v].org = users[v].org
    BY <1>0, <1>3 DEF PutRow, Rewrite, MarkDeleted, RowLike, StoresOK
  <1>o. ASSUME NEW u \in Users, Overwrite(u)
        PROVE  users'[v].org = users[v].org
    <2>1. u # v
      BY <1>o
    <2> QED  BY <1>0, <1>o, <2>1 DEF Overwrite, StoresOK
  <1>4. ASSUME NEW u \in Users, ChangeRole(u)
        PROVE  users'[v].org = users[v].org
    BY <1>0, <1>1, <1>4 DEF ChangeRole, StoresOK, Rows
  <1>5. ASSUME NEW u \in Users, Switch(u)
        PROVE  users'[v].org = users[v].org
    BY <1>0, <1>1, <1>5 DEF Switch, StoresOK, Rows
  <1>6. UNCHANGED users \/ \E u \in Users : PutRow(u) \/ Overwrite(u) \/ Rewrite(u) \/ MarkDeleted(u) \/ ChangeRole(u) \/ Switch(u)
    BY DEF StoreMove, Move, tables, Ensure, Archive, Enter, Leave, SignIn
  <1> QED  BY <1>2, <1>3, <1>o, <1>4, <1>5, <1>6

\* An ensure makes a membership or changes nothing; of a user the seed did not adopt it
\* makes the first one.
LEMMA EnsureIs ==
  ASSUME MemberInv, NEW u \in Users, Ensure(u)
  PROVE  /\ users[u] # NoRow
         /\ UNCHANGED ut \/ \E t \in Tenants : ut' = [ut EXCEPT ![u][t] = "active"]
         /\ u \notin adopted =>
              \/ UNCHANGED ut
              \/ \E t \in Tenants : /\ NoMembership(u) /\ users[u].org = t
                                    /\ ut' = [ut EXCEPT ![u][t] = "active"]
  <1>1. PICK p \in Procs : /\ req[p].op = "me" \/ AtEnsure(p)
                           /\ req[p].u = u
                           /\ ensure(u, req[p].t, Revives(p))
    BY DEF Ensure
  <1>2. ReqOK(p) /\ StoresOK
    BY DEF MemberInv
  <1>3. users[u] # NoRow
    BY <1>1, <1>2 DEF ReqOK, Known
  <1>4. PICK t \in Tenants : t = req[p].t
    BY <1>1, <1>2 DEF ReqOK, Shape, AtEnsure, MeReqs, CreateReqs, GateReqs, SignUpReqs
  <1>5. FirstAt(u, t)
    BY <1>1, <1>2, <1>4 DEF ReqOK
  <1>6. Revives(p) => NoMembership(u)
    BY <1>1, <1>2 DEF ReqOK, Revives, Makes, AtPut, AtEnsure
  <1>7. CASE ut[u][t] = "none"
    <2>1. ut' = [ut EXCEPT ![u][t] = "active"]
      BY <1>1, <1>4, <1>7 DEF ensure
    <2>2. u \notin adopted => NoMembership(u) /\ users[u].org = t
      BY <1>5, <1>7 DEF FirstAt
    <2> QED  BY <1>3, <2>1, <2>2
  <1>8. CASE ut[u][t] # "none"
    <2>1. ~Revives(p)
      BY <1>6, <1>8 DEF NoMembership
    <2> QED  BY <1>1, <1>3, <1>4, <1>8, <2>1 DEF ensure
  <1>9. UNCHANGED ut \/ ut' = [ut EXCEPT ![u][t] = "active"]
    BY <1>1, <1>4 DEF ensure
  <1> QED  BY <1>3, <1>7, <1>8, <1>9

\* Each move changes the memberships of one user, if any.
LEMMA MembershipMoves ==
  ASSUME MemberInv, StoreMove, NEW v \in Users
  PROVE  /\ ut' \in [Users -> [Tenants -> {"none", "active", "archived"}]]
         /\ ut'[v] # ut[v] => Switch(v) \/ Ensure(v) \/ Archive(v)
  <1>0. StoresOK
    BY DEF MemberInv
  <1>1. CASE UNCHANGED ut
    BY <1>0, <1>1 DEF StoresOK
  <1>2. ASSUME NEW u \in Users, Switch(u) \/ Archive(u)
        PROVE  /\ ut' \in [Users -> [Tenants -> {"none", "active", "archived"}]]
               /\ ut'[v] # ut[v] => v = u
    <2>1. ASSUME NEW f \in [Tenants -> {"none", "active", "archived"}], ut' = [ut EXCEPT ![u] = f]
          PROVE  /\ ut' \in [Users -> [Tenants -> {"none", "active", "archived"}]]
                 /\ ut'[v] # ut[v] => v = u
      BY <1>0, <2>1 DEF StoresOK
    <2>2. CASE Switch(u)
      <3>1. PICK old \in Tenants, t \in Tenants :
              ut' = [ut EXCEPT ![u][old] = "archived", ![u][t] = "active"]
        BY <2>2 DEF Switch
      <3> DEFINE f == [ut[u] EXCEPT ![old] = "archived", ![t] = "active"]
      <3>2. ut' = [ut EXCEPT ![u] = f]
        BY <1>0, <3>1 DEF StoresOK
      <3>3. f \in [Tenants -> {"none", "active", "archived"}]
        BY <1>0 DEF StoresOK
      <3> QED  BY <2>1, <3>2, <3>3
    <2>3. CASE Archive(u)
      BY <2>1, <2>3 DEF Archive
    <2> QED  BY <1>2, <2>2, <2>3
  <1>3. ASSUME NEW u \in Users, Ensure(u)
        PROVE  /\ ut' \in [Users -> [Tenants -> {"none", "active", "archived"}]]
               /\ ut'[v] # ut[v] => v = u
    <2>1. CASE UNCHANGED ut
      BY <1>0, <2>1 DEF StoresOK
    <2>2. ASSUME NEW t \in Tenants, ut' = [ut EXCEPT ![u][t] = "active"]
          PROVE  /\ ut' \in [Users -> [Tenants -> {"none", "active", "archived"}]]
                 /\ ut'[v] # ut[v] => v = u
      <3> DEFINE f == [ut[u] EXCEPT ![t] = "active"]
      <3>1. f \in [Tenants -> {"none", "active", "archived"}] /\ ut' = [ut EXCEPT ![u] = f]
        BY <1>0, <2>2 DEF StoresOK
      <3> HIDE DEF f
      <3> QED  BY <1>0, <3>1 DEF StoresOK
    <2> QED  BY <1>3, <2>1, <2>2, EnsureIs
  <1>4. UNCHANGED ut \/ \E u \in Users : Switch(u) \/ Ensure(u) \/ Archive(u)
    BY DEF StoreMove, Move, tables, PutRow, Overwrite, Rewrite, MarkDeleted, ChangeRole, Enter, Leave, SignIn
  <1> QED  BY <1>1, <1>2, <1>3, <1>4

\* A user who was never a member, is not switched and gets no first membership stays so;
\* a first membership is made at the tenant of the row.
LEMMA FirstStays ==
  ASSUME MemberInv, StoreMove, NEW v \in Users, NEW t \in Tenants, users[v] # NoRow, FirstAt(v, t)
  PROVE  FirstAt(v, t)'
  <1>0. StoresOK
    BY DEF MemberInv
  <1>1. SUFFICES ASSUME v \notin adopted', ut'[v][t] = "none" PROVE NoMembership(v)' /\ users'[v].org = t
    BY DEF FirstAt, NoMembership
  <1>a. v \notin adopted
    BY <1>1 DEF StoreMove, Kept
  <1>2. CASE Switch(v)
    <2>1. PICK old \in Tenants, s \in Tenants :
            ut[v][old] = "active" /\ ut' = [ut EXCEPT ![v][old] = "archived", ![v][s] = "active"]
      BY <1>2 DEF Switch
    <2>2. ut[v][t] = "none"
      BY <1>0, <1>1, <2>1 DEF StoresOK
    <2> QED  BY <1>a, <2>1, <2>2 DEF FirstAt, NoMembership
  <1>o. CASE Overwrite(v)
    <2>1. PICK p \in Procs, row \in Rows :
            /\ At(p, "backfill", "put") /\ req[p].u = v /\ row.org = req[p].row.org
            /\ users' = [users EXCEPT ![v] = row] /\ UNCHANGED ut
      BY <1>1, <1>o DEF Overwrite
    <2>2. PICK o \in Tenants : o = row.org
      BY DEF Rows
    <2>3. FirstAt(v, o)
      BY <2>1, <2>2 DEF MemberInv, ReqOK, At
    <2>4. NoMembership(v) /\ users[v].org = t
      BY <1>1, <1>a, <2>1 DEF FirstAt
    <2>5. users[v].org = o
      BY <1>a, <2>3, <2>4 DEF FirstAt, NoMembership
    <2>6. users'[v].org = o
      BY <1>0, <2>1, <2>2 DEF StoresOK
    <2>7. NoMembership(v)'
      BY <2>1, <2>4 DEF NoMembership
    <2> QED  BY <2>4, <2>5, <2>6, <2>7
  <1>3. CASE ~Switch(v) /\ ~Overwrite(v)
    <2>1. users'[v].org = users[v].org
      BY <1>3, OrgStays
    <2>2. CASE ut'[v] = ut[v]
      BY <1>1, <1>a, <2>1, <2>2 DEF FirstAt, NoMembership
    <2>3. CASE Ensure(v)
      <3>1. CASE UNCHANGED ut
        BY <1>1, <1>a, <2>1, <3>1 DEF FirstAt, NoMembership
      <3>2. CASE \E s \in Tenants : /\ NoMembership(v) /\ users[v].org = s
                                    /\ ut' = [ut EXCEPT ![v][s] = "active"]
        <4>1. PICK s \in Tenants : /\ NoMembership(v) /\ users[v].org = s
                                   /\ ut' = [ut EXCEPT ![v][s] = "active"]
          BY <3>2
        <4>2. s = t
          BY <1>a, <4>1 DEF FirstAt, NoMembership
        <4> QED  BY <1>0, <1>1, <4>1, <4>2 DEF StoresOK
      <3> QED  BY <1>a, <2>3, <3>1, <3>2, EnsureIs
    <2>4. CASE Archive(v)
      <3>1. PICK f \in [Tenants -> {"none", "active", "archived"}] :
               /\ \A s \in Tenants : f[s] = ut[v][s] \/ (ut[v][s] = "active" /\ f[s] = "archived")
               /\ ut'[v] = f
        BY <1>0, <2>4 DEF Archive, StoresOK
      <3>2. NoMembership(v) /\ users[v].org = t
        BY <1>1, <1>a, <3>1 DEF FirstAt
      <3> QED  BY <2>1, <3>1, <3>2 DEF NoMembership
    <2> QED  BY <1>3, <2>2, <2>3, <2>4, MembershipMoves
  <1> QED  BY <1>2, <1>o, <1>3

-----------------------------------------------------------------------------
(* What every user's row, memberships and session agree on. *)

\* No move leaves a user whom the seed did not adopt with two active memberships.
LEMMA OneActiveStays ==
  ASSUME MemberInv, StoreMove, NEW v \in Users, v \notin adopted', NEW s \in Tenants, NEW t \in Tenants,
         ut'[v][s] = "active", ut'[v][t] = "active"
  PROVE  s = t
  <1>0. StoresOK /\ UserOK(v) /\ v \notin adopted
    BY DEF MemberInv, StoreMove, Kept
  <1>1. CASE ut'[v] = ut[v]
    BY <1>0, <1>1 DEF UserOK
  <1>2. CASE Switch(v)
    <2>1. PICK old \in Tenants, new \in Tenants :
            /\ ut[v][old] = "active" /\ ut[v][new] # "active"
            /\ ut' = [ut EXCEPT ![v][old] = "archived", ![v][new] = "active"]
      BY <1>2 DEF Switch
    <2>2. ASSUME NEW r \in Tenants, ut'[v][r] = "active" PROVE r = new
      <3>1. CASE r = old /\ r # new
        BY <1>0, <2>1, <2>2, <3>1 DEF StoresOK
      <3>2. CASE r # old /\ r # new
        <4>1. ut[v][r] = "active"
          BY <1>0, <2>1, <2>2, <3>2 DEF StoresOK
        <4> QED  BY <1>0, <2>1, <3>2, <4>1 DEF UserOK
      <3> QED  BY <3>1, <3>2
    <2> QED  BY <2>2
  <1>3. CASE Ensure(v)
    <2>1. CASE UNCHANGED ut
      BY <1>0, <2>1 DEF UserOK
    <2>2. CASE \E r \in Tenants : NoMembership(v) /\ ut' = [ut EXCEPT ![v][r] = "active"]
      BY <1>0, <2>2 DEF StoresOK, NoMembership
    <2> QED  BY <1>0, <1>3, <2>1, <2>2, EnsureIs
  <1>4. CASE Archive(v)
    <2>1. PICK f \in [Tenants -> {"none", "active", "archived"}] :
             /\ \A r \in Tenants : f[r] = ut[v][r] \/ (ut[v][r] = "active" /\ f[r] = "archived")
             /\ ut' = [ut EXCEPT ![v] = f]
      BY <1>4 DEF Archive
    <2>2. ut'[v] = f
      BY <1>0, <2>1 DEF StoresOK
    <2>3. ut[v][s] = "active" /\ ut[v][t] = "active"
      BY <2>1, <2>2
    <2> QED  BY <1>0, <2>3 DEF UserOK
  <1> QED  BY <1>1, <1>2, <1>3, <1>4, MembershipMoves

\* Only an ensure, a switch and the two archives write a membership, and only of a user with a row.
LEMMA NoRowNoMembership ==
  ASSUME MemberInv, StoreMove, NEW v \in Users, users'[v] = NoRow
  PROVE  NoMembership(v)'
  <1>1. users[v] = NoRow
    BY RowsStay
  <1>2. ut'[v] = ut[v]
    BY <1>1, MembershipMoves, EnsureIs DEF Switch, Archive
  <1>3. NoMembership(v)
    BY <1>1 DEF MemberInv, UserOK
  <1> QED  BY <1>2, <1>3 DEF NoMembership

\* Of the moves, PutRow alone gives a row where there is none, and its user has no
\* membership; a row put over another names a tenant that was the user's.
LEMMA FirstAtOrg ==
  ASSUME MemberInv, StoreMove, NEW v \in Users, users'[v] # NoRow
  PROVE  FirstAt(v, users[v].org)'
  <1>0. StoresOK /\ UserOK(v)
    BY DEF MemberInv
  <1>1. CASE users[v] = NoRow
    <2>1. ut'[v] = ut[v] /\ NoMembership(v)
      BY <1>0, <1>1, MembershipMoves, EnsureIs DEF Switch, Archive, UserOK
    <2> QED  BY <2>1 DEF FirstAt, NoMembership
  <1>2. CASE users[v] # NoRow /\ ~Switch(v) /\ ~Overwrite(v)
    <2>1. users'[v].org = users[v].org
      BY <1>2, OrgStays
    <2>2. users[v] \in Rows
      BY <1>0, <1>2, RowHasFields
    <2>3. PICK t \in Tenants : t = users[v].org
      BY <2>2 DEF Rows
    <2>4. FirstAt(v, t)
      BY <1>0, <1>2, <2>3 DEF UserOK
    <2>5. FirstAt(v, t)'
      BY <1>2, <2>4, FirstStays
    <2> QED  BY <2>1, <2>3, <2>5 DEF FirstAt
  <1>3. CASE Switch(v)
    <2>1. PICK old \in Tenants, t \in Tenants :
            /\ ut' = [ut EXCEPT ![v][old] = "archived", ![v][t] = "active"]
            /\ users' = [users EXCEPT ![v].org = t]
      BY <1>3 DEF Switch
    <2>2. users[v] \in Rows
      BY <1>0, <1>3, RowHasFields DEF Switch
    <2>3. users'[v].org = t
      BY <1>0, <2>1, <2>2 DEF StoresOK, Rows
    <2>4. ut'[v][t] = "active"
      BY <1>0, <2>1 DEF StoresOK
    <2> QED  BY <2>3, <2>4 DEF FirstAt
  <1>4. CASE Overwrite(v) /\ v \in adopted'
    BY <1>4 DEF FirstAt
  <1>5. CASE Overwrite(v) /\ v \notin adopted'
    <2>1. PICK p \in Procs, row \in Rows :
            /\ At(p, "backfill", "put") /\ req[p].u = v /\ row.org = req[p].row.org
            /\ users' = [users EXCEPT ![v] = row]
      BY <1>5 DEF Overwrite
    <2>2. PICK o \in Tenants : o = row.org
      BY DEF Rows
    <2>3. FirstAt(v, o)
      BY <2>1, <2>2 DEF MemberInv, ReqOK, At
    <2>4. FirstAt(v, o)'
      BY <1>5, <2>3, FirstStays DEF Overwrite
    <2>5. users'[v].org = o
      BY <1>0, <2>1, <2>2 DEF StoresOK
    <2> QED  BY <2>4, <2>5 DEF FirstAt
  <1> QED  BY <1>1, <1>2, <1>3, <1>4, <1>5

\* No move makes a token for a user outside the pool, or for one who is being made.
LEMMA TokensStay ==
  ASSUME MemberInv, StoreMove
  PROVE  /\ pool' \in SUBSET Users /\ token' \in [Users -> Nat \cup {None}]
         /\ \A v \in Users : token'[v] # None => v \in pool' \/ users'[v] # NoRow
         /\ \A v \in Users : v \in pool /\ users[v] = NoRow => v \in pool'
         /\ \A v \in Users : token[v] = None /\ token'[v] # None => v \in pool /\ ~BeingMade(v)
         /\ \A v \in Users : token[v] # None => token'[v] # None
  <1>0. StoresOK /\ \A v \in Users : UserOK(v)
    BY DEF MemberInv
  <1>1. \A v \in Users : users[v] # NoRow => users'[v] # NoRow
    BY RowsStay
  <1>2. CASE UNCHANGED <<pool, token>>
    BY <1>0, <1>1, <1>2 DEF StoresOK, UserOK
  <1>3. ASSUME NEW u \in Users, Enter(u) \/ Leave(u)
        PROVE  /\ pool' \in SUBSET Users /\ token' \in [Users -> Nat \cup {None}]
               /\ \A v \in Users : token'[v] # None => v \in pool' \/ users'[v] # NoRow
               /\ \A v \in Users : v \in pool /\ users[v] = NoRow => v \in pool'
               /\ \A v \in Users : token'[v] = token[v]
    BY <1>0, <1>1, <1>3 DEF Enter, Leave, StoresOK, UserOK
  <1>4. ASSUME NEW u \in Users, SignIn(u)
        PROVE  /\ pool' \in SUBSET Users /\ token' \in [Users -> Nat \cup {None}]
               /\ \A v \in Users : token'[v] # None => v \in pool' \/ users'[v] # NoRow
               /\ \A v \in Users : v \in pool => v \in pool'
               /\ \A v \in Users : token'[v] # token[v] => v \in pool /\ ~BeingMade(v)
               /\ \A v \in Users : token'[v] # token[v] => token'[v] # None
    BY <1>0, <1>1, <1>4, IdentityAssumption DEF SignIn, StoresOK, UserOK
  <1>5. UNCHANGED <<pool, token>> \/ \E u \in Users : Enter(u) \/ Leave(u) \/ SignIn(u)
    BY DEF StoreMove, Move, tables, PutRow, Overwrite, Rewrite, MarkDeleted, ChangeRole, Switch, Ensure, Archive
  <1> QED  BY <1>2, <1>3, <1>4, <1>5

\* gone grows only when a deletion runs to its end.
LEMMA GoneGrows ==
  ASSUME [Next]_vars
  PROVE  gone' = gone \/ \E p \in Procs : delete_user_archive(p)
  <1>1. CASE Administer
    BY <1>1 DEF Administer, revoke_my_api_key, revoke_any_api_key, create_own_tenant, create_tenant,
       create_trusted_account, update_trusted_account, delete_trusted_account, create_invite,
       delete_invite, mint_ui_ticket
  <1>2. ASSUME NEW p \in Procs, Begin(p) PROVE gone' = gone
    <2>1. ASSUME NEW by, NEW v, NEW role, NEW t, NEW owner, NEW scope, NEW e,
                 \/ backfill_read(p, v) \/ me_read(p, v) \/ set_user_role(p, by, v, role)
                 \/ assign_tenant(p, by, v, t, role) \/ archive_tenant(p, by, t)
                 \/ set_tenant_owner(p, by, t, owner)
                 \/ create_api_key_on_behalf(p, by, v, scope) \/ create_my_api_key(p, v, scope, e)
          PROVE  gone' = gone
      BY <2>1 DEF backfill_read, me_read, set_user_role, assign_tenant, archive_tenant,
         set_tenant_owner, create_api_key_on_behalf, create_my_api_key, new_key, stores
    <2>2. ASSUME NEW by, NEW v, NEW role, NEW t, NEW sig, NEW arn,
                 \/ create_user(p, by, v, role, t) \/ delete_user(p, by, v)
                 \/ verify_and_call_sts(p, sig, v, arn) \/ seed_bootstrap_admin(p)
          PROVE  gone' = gone
      BY <2>2 DEF create_user, delete_user, verify_and_call_sts, seed_bootstrap_admin
    <2> QED  BY <1>2, <2>1, <2>2, Zenon DEF Begin
  <1>3. ASSUME NEW p \in Procs, Continue(p), ~delete_user_archive(p) PROVE gone' = gone
    BY <1>3 DEF Continue, backfill_put, me_ensure, create_user_put, create_user_ensure,
         delete_user_mark, list_keys, revoke_keys, update_roles,
         set_user_role_sessions, switch_tenant, assign_tenant_signout, set_owner,
         archive_member, archive_flip, put_api_key, sso_new_user, sso_known_user, sso_put,
         sso_ensure, mark_consumed, sso_login, record_sso_login, abandon, stores
  <1> QED
    BY <1>1, <1>2, <1>3 DEF Next, Step, cognito_login, consume_ui_ticket, purge_nonce,
       seed_default_tenant, tick, vars, stores

\* Every user whose deletion was answered stays deleted, unless the row is written over.
LEMMA GoneAreDeleted ==
  ASSUME MemberInv, StoreMove, [Next]_vars
  PROVE  /\ gone' \in SUBSET Users
         /\ \A u \in gone' : Barred(u)'
  <1>1. \A u \in gone : u \in Users /\ Barred(u)
    BY DEF MemberInv, StoresOK, UserOK
  <1>2. CASE gone' = gone
    BY <1>1, <1>2, RowsStay
  <1>3. ASSUME NEW p \in Procs, delete_user_archive(p)
        PROVE  \A u \in gone' : u \in Users /\ Barred(u)'
    <2>1. req[p].u \in Users
      BY <1>3, ArchiveMoves
    <2>2. PICK u \in Users : u = req[p].u /\ Barred(u)
      BY <1>3, <2>1 DEF delete_user_archive, At, MemberInv, ReqOK
    <2>3. gone' = gone \cup {u}
      BY <1>3, <2>2 DEF delete_user_archive
    <2> QED  BY <1>1, <2>2, <2>3, RowsStay
  <1> QED  BY <1>2, <1>3, GoneGrows

\* Every step keeps a user's row, tombstone and memberships in agreement.
LEMMA UsersAgree ==
  ASSUME MemberInv, StoreMove, [Next]_vars, NEW u \in Users
  PROVE  UserOK(u)'
  <1>1. u \notin adopted' => \A s, t \in Tenants : ut'[u][s] = "active" /\ ut'[u][t] = "active" => s = t
    BY OneActiveStays
  <1> QED  BY <1>1, NoRowNoMembership, FirstAtOrg, TokensStay, GoneAreDeleted DEF UserOK

-----------------------------------------------------------------------------
(* What a request in flight relies on survives the moves of the others. *)

\* Only a put makes a row where there was none.
LEMMA NoRowStays ==
  ASSUME MemberInv, StoreMove, NEW u \in Users, users[u] = NoRow, ~PutRow(u)
  PROVE  users'[u] = NoRow
  <1>0. StoresOK
    BY DEF MemberInv
  <1>1. ASSUME NEW v \in Users, PutRow(v) \/ Overwrite(v) \/ Rewrite(v) \/ MarkDeleted(v) \/ ChangeRole(v) \/ Switch(v)
        PROVE  users'[u] = users[u]
    <2>1. v # u
      BY <1>1 DEF Overwrite, Rewrite, MarkDeleted, ChangeRole, Switch
    <2> QED  BY <1>0, <1>1, <2>1 DEF PutRow, Overwrite, Rewrite, MarkDeleted, ChangeRole, Switch, StoresOK
  <1>2. UNCHANGED users \/ \E v \in Users : PutRow(v) \/ Overwrite(v) \/ Rewrite(v) \/ MarkDeleted(v) \/ ChangeRole(v) \/ Switch(v)
    BY DEF StoreMove, Move, tables, Ensure, Archive, Enter, Leave, SignIn
  <1> QED  BY <1>1, <1>2

\* Whoever puts a row of u, over another or not, or ensures a membership for u is not the
\* one who is making u.
LEMMA MakersAlone ==
  ASSUME MemberInv, NEW q \in Procs, ~Acts(q), NEW u \in Users, u = req[q].u
  PROVE  /\ Makes(q) => ~PutRow(u)
         /\ Revives(q) => ~Ensure(u) /\ ~Overwrite(u)
  <1>1. ASSUME Makes(q), PutRow(u) PROVE FALSE
    <2>1. PICK p \in Procs : AtPut(p) /\ req[p].u = u /\ Acts(p)
      BY <1>1 DEF PutRow
    <2>2. p # q /\ Apart(p, q)
      BY <2>1 DEF MemberInv
    <2> QED  BY <1>1, <2>1, <2>2 DEF Apart, Makes
  <1>2. ASSUME Revives(q), Ensure(u) PROVE FALSE
    <2>1. PICK p \in Procs : (req[p].op = "me" \/ AtEnsure(p)) /\ req[p].u = u /\ Acts(p)
      BY <1>2 DEF Ensure
    <2>2. p # q /\ Apart(q, p)
      BY <2>1 DEF MemberInv
    <2> QED  BY <1>2, <2>1, <2>2 DEF Apart, Makes, ActsAs, Revives
  <1>3. ASSUME Revives(q), Overwrite(u) PROVE FALSE
    <2>1. PICK p \in Procs : /\ req[p].u = u
                             /\ At(p, "backfill", "put") \/ (At(p, "create", "put") /\ Acts(p))
      BY <1>3 DEF Overwrite
    <2>2. CASE At(p, "backfill", "put")
      <3>1. token[u] # None
        BY <2>1, <2>2 DEF MemberInv, ReqOK, At
      <3>2. token[u] = None
        BY <1>3 DEF MemberInv, ReqOK
      <3> QED  BY <3>1, <3>2
    <2>3. CASE At(p, "create", "put") /\ Acts(p)
      <3>1. p # q /\ Apart(p, q) /\ Makes(p) /\ Makes(q)
        BY <1>3, <2>3 DEF MemberInv, Makes, AtPut, At, Revives
      <3> QED  BY <2>1, <3>1 DEF Apart
    <2> QED  BY <2>1, <2>2, <2>3
  <1> QED  BY <1>1, <1>2, <1>3

\* Nobody else's move disturbs a user who is being made.
LEMMA MakersStay ==
  ASSUME MemberInv, StoreMove, NEW q \in Procs, Makes(q), ~Acts(q), NEW u \in Users, u = req[q].u
  PROVE  /\ AtPut(q) /\ users'[u] = NoRow => u \in pool'
         /\ AtPut(q) /\ Revives(q) => users'[u] = NoRow
         /\ Revives(q) => token'[u] = None
         /\ Revives(q) /\ AtEnsure(q) => NoMembership(u)' /\ users'[u].org = req[q].t
  <1>0. ReqOK(q) /\ StoresOK
    BY DEF MemberInv
  <1>1. ASSUME AtPut(q), users'[u] = NoRow PROVE u \in pool'
    <2>1. users[u] = NoRow
      BY <1>1, RowsStay
    <2>2. u \in pool
      BY <1>0, <1>1, <2>1 DEF ReqOK
    <2> QED  BY <2>1, <2>2, TokensStay
  <1>4. ASSUME AtPut(q), Revives(q) PROVE users'[u] = NoRow
    <2>1. users[u] = NoRow
      BY <1>0, <1>4 DEF ReqOK
    <2> QED  BY <2>1, NoRowStays, MakersAlone
  <1>2. ASSUME Revives(q) PROVE token'[u] = None
    <2>1. token[u] = None
      BY <1>0, <1>2 DEF ReqOK
    <2>2. BeingMade(u)
      BY <1>2 DEF BeingMade, Revives, Makes, AtPut, AtEnsure
    <2> QED  BY <2>1, <2>2, TokensStay
  <1>3. ASSUME Revives(q), AtEnsure(q) PROVE NoMembership(u)' /\ users'[u].org = req[q].t
    <2>1. NoMembership(u) /\ users[u].org = req[q].t /\ users[u] # NoRow
      BY <1>0, <1>3 DEF ReqOK, Known
    <2>2. ~Switch(u)
      BY <2>1 DEF Switch, NoMembership
    <2>3. users'[u].org = req[q].t
      BY <1>3, <2>1, <2>2, OrgStays, MakersAlone
    <2>4. CASE ut'[u] = ut[u]
      BY <2>1, <2>3, <2>4 DEF NoMembership
    <2>5. CASE Archive(u)
      <3>1. PICK f \in [Tenants -> {"none", "active", "archived"}] :
               /\ \A s \in Tenants : f[s] = ut[u][s] \/ (ut[u][s] = "active" /\ f[s] = "archived")
               /\ ut'[u] = f
        BY <1>0, <2>5 DEF Archive, StoresOK
      <3> QED  BY <2>1, <2>3, <3>1 DEF NoMembership
    <2> QED  BY <1>3, <2>2, <2>4, <2>5, MembershipMoves, MakersAlone
  <1> QED  BY <1>1, <1>2, <1>3, <1>4

\* What a request knows stays true while others act.
LEMMA Bystander ==
  ASSUME MemberInv, StoreMove, NEW q \in Procs, ~Acts(q)
  PROVE  ReqOK(q)'
  <1>0. ReqOK(q)
    BY DEF MemberInv
  <1>s. req'[q] = req[q]
    BY DEF Acts
  <1>u. Makes(q) \/ Known(q) => req[q].u \in Users
    BY <1>0 DEF ReqOK, Shape, Makes, Known, AtPut, AtEnsure, BackfillReqs, MeReqs, CreateReqs, DeleteReqs,
                KeyListReqs, RoleReqs, MoveReqs, GateReqs, SignUpReqs
  <1>1. Shape(req[q])'
    BY <1>0, <1>s DEF ReqOK, Shape, BackfillReqs, MeReqs, CreateReqs, DeleteReqs, KeyListReqs,
                      RoleReqs, MoveReqs, ArchiveReqs, GateReqs, SignUpReqs, Rows
  <1>2. /\ AtPut(q)' = AtPut(q) /\ AtEnsure(q)' = AtEnsure(q) /\ Makes(q)' = Makes(q)
        /\ Revives(q)' = Revives(q) /\ Known(q)' = Known(q)
    BY <1>s DEF AtPut, AtEnsure, Makes, Revives, Known
  <1>3. CASE ~Known(q) /\ ~Makes(q)
    BY <1>0, <1>1, <1>2, <1>3, <1>s DEF ReqOK, Makes, Revives, Known
  <1>4. CASE Known(q) \/ Makes(q)
    <2>1. PICK u \in Users : u = req[q].u
      BY <1>4, <1>u
    <2>2. Makes(q) => /\ AtPut(q) /\ users'[u] = NoRow => u \in pool'
                      /\ AtPut(q) /\ Revives(q) => users'[u] = NoRow
                      /\ Revives(q) => token'[u] = None
                      /\ Revives(q) /\ AtEnsure(q) => NoMembership(u)' /\ users'[u].org = req[q].t
      BY <2>1, MakersStay
    <2>3. Known(q) => users'[u] # NoRow
      BY <1>0, <2>1, RowsStay DEF ReqOK
    <2>4. req[q].op = "me" \/ AtEnsure(q) => FirstAt(u, req[q].t)'
      <3>1. SUFFICES ASSUME req[q].op = "me" \/ AtEnsure(q) PROVE FirstAt(u, req[q].t)'
        OBVIOUS
      <3>2. PICK t \in Tenants : t = req[q].t
        BY <1>0, <3>1 DEF ReqOK, Shape, AtEnsure, MeReqs, CreateReqs, GateReqs, SignUpReqs
      <3>3. FirstAt(u, t) /\ users[u] # NoRow
        BY <1>0, <2>1, <3>1, <3>2 DEF ReqOK, Known
      <3>4. FirstAt(u, t)'
        BY <3>3, FirstStays
      <3> QED  BY <1>s, <3>2, <3>4 DEF FirstAt
    <2>5. req[q].op = "delete" /\ req[q].at # "mark" => Barred(u)'
      BY <1>0, <2>1, RowsStay DEF ReqOK
    <2>8. req[q].op = "backfill" => token'[u] # None /\ FirstAt(u, req[q].row.org)'
      <3>1. SUFFICES ASSUME req[q].op = "backfill" PROVE token'[u] # None /\ FirstAt(u, req[q].row.org)'
        OBVIOUS
      <3>2. PICK o \in Tenants : o = req[q].row.org
        BY <1>0, <3>1 DEF ReqOK, Shape, BackfillReqs, Rows
      <3>3. FirstAt(u, o) /\ users[u] # NoRow /\ token[u] # None
        BY <1>0, <2>1, <3>1, <3>2 DEF ReqOK, Known
      <3>4. FirstAt(u, o)' /\ token'[u] # None
        BY <3>3, FirstStays, TokensStay
      <3> QED  BY <1>s, <3>2, <3>4 DEF FirstAt
    <2>9. req[q].op = "create" /\ ~req[q].revive => req[q].role = "admin"
      BY <1>0 DEF ReqOK
    <2>6. Revives(q) => Makes(q)
      BY DEF Revives
    <2>7. u = req'[q].u /\ req'[q].t = req[q].t /\ req'[q].op = req[q].op /\ req'[q].at = req[q].at
      BY <1>s, <2>1
    <2> QED  BY <1>s, <1>1, <1>2, <2>2, <2>3, <2>4, <2>5, <2>6, <2>7, <2>8, <2>9
             DEF ReqOK, Makes, NoMembership, FirstAt, Barred, is_user_deleted
  <1> QED  BY <1>3, <1>4

-----------------------------------------------------------------------------
(* The request that moves establishes anew what it relies on. *)

Settled(p) ==
  /\ ReqOK(p)'
  /\ \A q \in Procs : Apart(p, q)' /\ Apart(q, p)'

\* ... one that relies on nobody's row,
LEMMA QuietIsSettled ==
  ASSUME NEW p \in Procs, Shape(req'[p]), ~Known(p)', ~AtPut(p)'
  PROVE  Settled(p)
  <1>1. ~AtEnsure(p)' /\ ~ActsAs(p)' /\ req'[p].op \notin {"backfill", "me", "delete", "role"}
    BY DEF Known, ActsAs
  <1>2. ~Makes(p)' /\ ~Revives(p)'
    BY <1>1 DEF Makes, Revives
  <1>3. req'[p].op # "create"
    BY <1>1 DEF Shape, CreateReqs, AtPut, AtEnsure
  <1>4. ReqOK(p)'
    BY <1>1, <1>2, <1>3 DEF ReqOK
  <1>5. ASSUME NEW q \in Procs PROVE Apart(p, q)' /\ Apart(q, p)'
    BY <1>1, <1>2 DEF Apart
  <1> QED  BY <1>4, <1>5 DEF Settled

\* ... one that rewrites a row,
LEMMA WriterIsSettled ==
  ASSUME NEW p \in Procs, Shape(req'[p]), req'[p].op \in {"backfill", "delete", "role"},
         users'[req'[p].u] # NoRow,
         req'[p].op = "backfill" => token'[req'[p].u] # None /\ FirstAt(req[p].u, req[p].row.org)',
         req'[p].op = "delete" /\ req'[p].at # "mark" => Barred(req[p].u)'
  PROVE  Settled(p)
  <1>1. ~Makes(p)' /\ ~ActsAs(p)' /\ ~AtPut(p)' /\ ~AtEnsure(p)' /\ ~Revives(p)' /\ req'[p].op # "me"
    BY DEF Makes, AtPut, AtEnsure, ActsAs, Revives
  <1>2. Shape(req[p])'
    BY DEF Shape, BackfillReqs, MeReqs, CreateReqs, DeleteReqs,
         KeyListReqs, RoleReqs, MoveReqs, ArchiveReqs, GateReqs, SignUpReqs, Rows
  <1>3. ReqOK(p)'
    BY <1>1, <1>2 DEF ReqOK, Barred, FirstAt, NoMembership, is_user_deleted
  <1>4. ASSUME NEW q \in Procs PROVE Apart(p, q)' /\ Apart(q, p)'
    BY <1>1 DEF Apart
  <1> QED  BY <1>3, <1>4 DEF Settled

\* ... and one that acts as a user.
LEMMA ActorIsSettled ==
  ASSUME NEW p \in Procs, NEW u \in Users, Shape(req'[p]), ActsAs(p)', req'[p].u = u,
         users'[u] # NoRow, req'[p].op = "me" => FirstAt(u, req[p].t)',
         \A q \in Procs : q # p => req'[q] = req[q] /\ (Revives(q) => req[q].u # u)
  PROVE  Settled(p)
  <1>1. ~Makes(p)' /\ ~AtPut(p)' /\ ~AtEnsure(p)' /\ ~Revives(p)'
    BY DEF Makes, AtPut, AtEnsure, ActsAs, Revives
  <1>2. Shape(req[p])'
    BY DEF Shape, BackfillReqs, MeReqs, CreateReqs, DeleteReqs,
         KeyListReqs, RoleReqs, MoveReqs, ArchiveReqs, GateReqs, SignUpReqs, Rows
  <1>3. req'[p].op \notin {"delete", "create", "backfill"}
    BY DEF ActsAs
  <1>4. ReqOK(p)'
    BY <1>1, <1>2, <1>3 DEF ReqOK
  <1>5. ASSUME NEW q \in Procs PROVE Apart(p, q)' /\ Apart(q, p)'
    <2>1. CASE q = p
      BY <2>1 DEF Apart
    <2>2. CASE q # p
      <3>1. req'[q] = req[q] /\ (Revives(q)' => Revives(q))
        BY <2>2 DEF Revives, Makes, AtPut, AtEnsure
      <3> QED  BY <1>1, <2>2, <3>1 DEF Apart
    <2> QED  BY <2>1, <2>2
  <1> QED  BY <1>4, <1>5 DEF Settled

\* One that starts to make a user of whom there is no trace, or that the seed starts.
LEMMA MakerIsSettled ==
  ASSUME MemberInv, NEW p \in Procs, NEW u \in Users, Shape(req'[p]), AtPut(p)', req'[p].u = u,
         users' = users, u \in pool', token' = token,
         (users[u] = NoRow /\ u \notin pool) \/ \A q \in Procs : q # p => req[q] = Idle,
         Revives(p)' => users[u] = NoRow /\ u \notin pool,
         req'[p].op = "create" /\ ~req'[p].revive => req'[p].role = "admin",
         \A q \in Procs : q # p => req'[q] = req[q]
  PROVE  Settled(p)
  <1>1. ~AtEnsure(p)' /\ ~ActsAs(p)' /\ ~Known(p)'
    BY DEF AtPut, AtEnsure, ActsAs, Known
  <1>2. Shape(req[p])'
    BY DEF Shape, BackfillReqs, MeReqs, CreateReqs, DeleteReqs,
         KeyListReqs, RoleReqs, MoveReqs, ArchiveReqs, GateReqs, SignUpReqs, Rows
  <1>3. Revives(p)' => token'[u] = None
    BY DEF MemberInv, UserOK
  <1>4. ReqOK(p)'
    BY <1>1, <1>2, <1>3 DEF ReqOK, Known, AtPut, AtEnsure
  <1>5. ASSUME NEW q \in Procs, q # p, Makes(q)' \/ ActsAs(q)' PROVE req[q].u # u
    <2>1. (Makes(q) \/ ActsAs(q)) /\ req'[q] = req[q]
      BY <1>5 DEF Makes, AtPut, AtEnsure, ActsAs
    <2>2. req[q] # Idle
      BY <2>1 DEF Makes, AtPut, AtEnsure, ActsAs, Idle
    <2>3. ReqOK(q)
      BY DEF MemberInv
    <2>4. Known(q) => users[req[q].u] # NoRow
      BY <2>3 DEF ReqOK
    <2>5. AtPut(q) /\ users[req[q].u] = NoRow => req[q].u \in pool
      BY <2>3 DEF ReqOK
    <2> QED  BY <1>5, <2>1, <2>2, <2>4, <2>5 DEF Makes, ActsAs, Known
  <1>6. ASSUME NEW q \in Procs PROVE Apart(p, q)' /\ Apart(q, p)'
    <2>1. CASE q = p
      BY <2>1 DEF Apart
    <2>2. CASE q # p
      <3>1. req'[q] = req[q] /\ (Makes(q)' \/ ActsAs(q)' => req[q].u # u)
        BY <1>5, <2>2
      <3> QED  BY <1>1, <2>2, <3>1 DEF Apart, Revives
    <2> QED  BY <2>1, <2>2
  <1> QED  BY <1>4, <1>6 DEF Settled

\* A request that begins knows what its first step requires.
LEMMA BeginSettles ==
  ASSUME MemberInv, [Next]_vars, NEW p \in Procs, Begin(p)
  PROVE  Settled(p)
  <1>0. StoresOK /\ \A u \in Users : UserOK(u)
    BY DEF MemberInv
  <1>q. \A q \in Procs : q # p => req'[q] = req[q]
    BY <1>0, OneActs
  <1>r. \A u \in Users : users[u] # NoRow =>
           /\ users[u] \in Rows /\ users[u].roles \in SUBSET Roles /\ users[u].org \in Tenants
    BY <1>0, RowHasFields DEF Rows
  <1>1. ASSUME NEW u \in Users, backfill_read(p, u) PROVE Settled(p)
    <2>1. req'[p] = [op |-> "backfill", at |-> "put", u |-> u, row |-> users[u]] /\ UNCHANGED users
      BY <1>0, <1>1 DEF StoresOK, backfill_read, Start, stores
    <2>2. users[u] \in Rows /\ users[u].status = "active" /\ users[u] # NoRow
      BY <1>1, <1>r DEF backfill_read, jwt_admits, is_user_deleted, Rows
    <2>3. Shape(req'[p])
      BY <2>1, <2>2 DEF Shape, BackfillReqs
    <2>4. token'[u] # None
      BY <1>1, SessionsAct DEF backfill_read, stores
    <2>5. FirstAt(u, users[u].org)'
      <3>1. UNCHANGED <<users, ut>> /\ FirstAt(u, users[u].org)
        BY <1>0, <1>1, <2>2 DEF UserOK, backfill_read, stores
      <3>2. u \notin adopted' => u \notin adopted
        BY KeptAlways DEF Kept
      <3> QED  BY <3>1, <3>2 DEF FirstAt, NoMembership
    <2>6. FirstAt(req[p].u, req[p].row.org)'
      BY <2>1, <2>5 DEF FirstAt, NoMembership
    <2> QED  BY <2>1, <2>2, <2>3, <2>4, <2>6, WriterIsSettled
  <1>2. ASSUME NEW u \in Users, me_read(p, u) PROVE Settled(p)
    <2>1. req'[p] = [op |-> "me", at |-> "ensure", u |-> u, t |-> users[u].org] /\ UNCHANGED <<users, ut>>
      BY <1>0, <1>2 DEF StoresOK, me_read, Start, stores
    <2>2. users[u] # NoRow /\ token[u] # None
      BY <1>2, SessionsAct DEF me_read, Live
    <2>3. Shape(req'[p]) /\ ActsAs(p)'
      BY <1>r, <2>1, <2>2 DEF Shape, MeReqs, ActsAs
    <2>k. u \notin adopted' => u \notin adopted
      BY KeptAlways DEF Kept
    <2>4. FirstAt(u, req[p].t)'
      BY <1>0, <2>1, <2>2, <2>k DEF UserOK, FirstAt, NoMembership
    <2>5. ASSUME NEW q \in Procs, Revives(q) PROVE req[q].u # u
      BY <2>2, <2>5 DEF MemberInv, ReqOK
    <2> QED  BY <1>q, <2>1, <2>2, <2>3, <2>4, <2>5, ActorIsSettled
  <1>3. ASSUME NEW by \in Users, NEW u \in Users, delete_user(p, by, u) PROVE Settled(p)
    <2>1. /\ req'[p] = [op |-> "delete", at |-> "mark", u |-> u] /\ UNCHANGED users
          /\ users[u] # NoRow
      BY <1>0, <1>3 DEF StoresOK, delete_user, Start
    <2>2. Shape(req'[p])
      BY <2>1 DEF Shape, DeleteReqs
    <2> QED  BY <2>1, <2>2, WriterIsSettled
  <1>4. ASSUME NEW by \in Users, NEW u \in Users, NEW role \in Roles, set_user_role(p, by, u, role)
        PROVE  Settled(p)
    <2>1. /\ req'[p] = [op |-> "role", at |-> "write", u |-> u, role |-> role, seen |-> users[u].roles,
                        t |-> None]
          /\ UNCHANGED users /\ users[u] # NoRow
      BY <1>0, <1>4 DEF StoresOK, set_user_role, RoleChecks, Start, stores
    <2>2. Shape(req'[p])
      BY <1>r, <2>1 DEF Shape, RoleReqs
    <2> QED  BY <2>1, <2>2, WriterIsSettled
  <1>5. ASSUME NEW by \in Users, NEW u \in Users, NEW t \in Tenants, NEW role \in Roles,
               assign_tenant(p, by, u, t, role)
        PROVE  Settled(p)
    <2>1. /\ \/ req'[p] = [op |-> "role", at |-> "switch", u |-> u, role |-> role, seen |-> users[u].roles,
                        t |-> t, old |-> users[u].org]
             \/ req'[p] = [op |-> "role", at |-> "write", u |-> u, role |-> role, seen |-> users[u].roles,
                        t |-> t, old |-> users[u].org]
          /\ UNCHANGED users /\ users[u] # NoRow
      BY <1>0, <1>5 DEF StoresOK, assign_tenant, RoleChecks, Start, stores
    <2>2. Shape(req'[p])
      BY <1>r, <2>1 DEF Shape, MoveReqs
    <2> QED  BY <2>1, <2>2, WriterIsSettled
  <1>6. ASSUME NEW by \in Users, NEW u \in Users, NEW t \in Tenants, NEW role \in Roles,
               create_user(p, by, u, role, t)
        PROVE  Settled(p)
    <2>1. /\ req'[p] = [op |-> "create", at |-> "put", u |-> u, role |-> role, t |-> t, revive |-> TRUE]
          /\ users[u] = NoRow /\ u \notin pool /\ u \in pool' /\ UNCHANGED <<users, token>>
      BY <1>0, <1>6 DEF StoresOK, create_user, Start
    <2>2. Shape(req'[p]) /\ AtPut(p)'
      BY <2>1 DEF Shape, CreateReqs, AtPut
    <2> QED  BY <1>q, <2>1, <2>2, MakerIsSettled
  <1>7. CASE seed_bootstrap_admin(p)
    <2>1. PICK u \in Users :
            /\ u \in pool'
            /\ GoWith(p, [op |-> "create", at |-> "put", u |-> u, role |-> "admin", t |-> DEFAULT_ORG,
                          revive |-> FALSE])
      BY <1>7 DEF seed_bootstrap_admin
    <2>2. /\ req'[p] = [op |-> "create", at |-> "put", u |-> u, role |-> "admin", t |-> DEFAULT_ORG,
                        revive |-> FALSE]
          /\ UNCHANGED <<users, token>> /\ \A q \in Procs : req[q] = Idle
      BY <1>0, <1>7, <2>1 DEF StoresOK, seed_bootstrap_admin, GoWith
    <2>3. DEFAULT_ORG \in Tenants
      BY IdentityAssumption
    <2>4. Shape(req'[p]) /\ AtPut(p)' /\ ~Revives(p)'
      BY <2>2, <2>3 DEF Shape, CreateReqs, AtPut, Roles, Revives
    <2> QED  BY <1>q, <2>1, <2>2, <2>4, MakerIsSettled
  <1>8. ASSUME NEW by \in Users, NEW t \in Tenants, archive_tenant(p, by, t) PROVE Settled(p)
    <2>1. req'[p] = [op |-> "archive", at |-> "members", t |-> t, todo |-> {u \in Users : ut[u][t] = "active"}]
      BY <1>0, <1>8 DEF StoresOK, archive_tenant, Start
    <2>2. Shape(req'[p]) /\ ~Known(p)' /\ ~AtPut(p)'
      BY <2>1 DEF Shape, ArchiveReqs, Known, AtPut, AtEnsure
    <2> QED  BY <2>2, QuietIsSettled
  <1>9. ASSUME NEW by, NEW t, NEW owner, NEW u, NEW scope, NEW e,
               \/ set_tenant_owner(p, by, t, owner)
               \/ create_api_key_on_behalf(p, by, u, scope) \/ create_my_api_key(p, u, scope, e)
        PROVE  Settled(p)
    <2>1. req'[p].op \in {"owner", "key"}
      BY <1>0, <1>9 DEF StoresOK, set_tenant_owner, create_api_key_on_behalf, create_my_api_key, new_key, Start
    <2>2. Shape(req'[p]) /\ ~Known(p)' /\ ~AtPut(p)'
      BY <2>1 DEF Shape, Known, AtPut, AtEnsure
    <2> QED  BY <2>2, QuietIsSettled
  <1>10. ASSUME NEW sig, NEW u \in Users, NEW arn \in Principals, verify_and_call_sts(p, sig, u, arn)
         PROVE  Settled(p)
    <2>1. req'[p] = [op |-> "sso", at |-> "gate", u |-> u, arn |-> arn]
      BY <1>0, <1>10 DEF StoresOK, verify_and_call_sts, Start
    <2>2. Shape(req'[p]) /\ ~Known(p)' /\ ~AtPut(p)'
      BY <2>1 DEF Shape, GateReqs, Known, AtPut, AtEnsure
    <2> QED  BY <2>2, QuietIsSettled
  <1> QED
    BY <1>1, <1>2, <1>3, <1>4, <1>5, <1>6, <1>7, <1>8, <1>9, <1>10, Zenon DEF Begin

\* A request that ends relies on nothing any more.
LEMMA EndIsSettled ==
  ASSUME StoresOK, NEW p \in Procs, End(p)
  PROVE  Settled(p)
  <1>1. req'[p] = Idle
    BY DEF StoresOK, End
  <1>2. Shape(req'[p]) /\ ~Known(p)' /\ ~AtPut(p)'
    BY <1>1 DEF Idle, Shape, Known, AtPut, AtEnsure
  <1> QED  BY <1>2, QuietIsSettled

\* The row is put: what is left is the first membership, at the tenant of the row.
LEMMA PutIsSettled ==
  ASSUME MemberInv, StoreMove, Remember, NEW p \in Procs, create_user_put(p) \/ sso_put(p)
  PROVE  Settled(p)
  <1>0. StoresOK /\ ReqOK(p)
    BY DEF MemberInv
  <1>q. \A q \in Procs : q # p => req'[q] = req[q]
    BY <1>0, OneActs DEF Continue
  <1>1. AtPut(p) /\ req[p] \in CreateReqs \cup SignUpReqs /\ (req[p] \in SignUpReqs <=> req[p].op = "sso")
    BY <1>0 DEF ReqOK, Shape, create_user_put, sso_put, At, AtPut, GateReqs, CreateReqs, SignUpReqs
  <1>2. PICK u \in Users, t \in Tenants : u = req[p].u /\ t = req[p].t
    BY <1>1 DEF CreateReqs, SignUpReqs
  <1>3. req'[p] = [req[p] EXCEPT !.at = "ensure"]
    BY <1>0 DEF create_user_put, sso_put, Go, StoresOK
  <1>4. /\ req'[p].op = req[p].op /\ req'[p].at = "ensure" /\ req'[p].u = u /\ req'[p].t = t
        /\ req[p].op = "create" => req'[p].revive = req[p].revive
        /\ Shape(req'[p])
    BY <1>1, <1>2, <1>3 DEF Shape, CreateReqs, SignUpReqs, GateReqs, AtPut
  <1>5. AtEnsure(p)' /\ ~AtPut(p)' /\ ~ActsAs(p)' /\ Makes(p) /\ (Revives(p)' => Revives(p))
    BY <1>1, <1>4 DEF AtPut, AtEnsure, ActsAs, Makes, Revives
  <1>6. Revives(p) => users[u] = NoRow /\ NoMembership(u)
    BY <1>0, <1>1, <1>2 DEF ReqOK, MemberInv, UserOK
  <1>7. users'[u] \in Rows /\ users'[u].org = t /\ UNCHANGED <<token, ut>>
    <2>5. \E row \in Rows : row.org = t /\ users' = [users EXCEPT ![u] = row]
      <3>1. CASE create_user_put(p)
        <4>1. PICK role \in Roles : role = req[p].role
          BY <1>1, <3>1 DEF create_user_put, At, CreateReqs, SignUpReqs
        <4>2. put_user(u, {role}, t, None, None)
          BY <1>2, <3>1, <4>1 DEF create_user_put, put_user
        <4>3. \E row \in Rows : /\ row.status = "active" /\ row.roles = {role} /\ row.org = t
                                /\ users' = [users EXCEPT ![u] = row]
          BY <1>0, <4>2, PutRowIs
        <4> QED  BY <4>3
      <3>2. CASE sso_put(p)
        <4>1. PICK role \in Roles, arn \in Principals : role = req[p].role /\ arn = req[p].arn
          BY <1>1, <3>2 DEF sso_put, At, CreateReqs, SignUpReqs, Roles
        <4>2. put_user(u, {role}, t, "sso", arn)
          BY <1>2, <3>2, <4>1 DEF sso_put, put_user
        <4>3. \E row \in Rows : /\ row.status = "active" /\ row.roles = {role} /\ row.org = t
                                /\ users' = [users EXCEPT ![u] = row]
          BY <1>0, <4>2, PutRowIs
        <4> QED  BY <4>3
      <3> QED  BY <3>1, <3>2
    <2> QED  BY <1>0, <2>5 DEF StoresOK, create_user_put, sso_put
  <1>8. Revives(p) => token[u] = None
    BY <1>0, <1>2 DEF ReqOK
  <1>9. /\ users'[u] # NoRow
        /\ Revives(p)' => NoMembership(u)' /\ token'[u] = None
    BY <1>5, <1>6, <1>7, <1>8, RowsNeverEmpty DEF NoMembership
  <1>f. FirstAt(u, t)'
    <2>1. CASE users[u] = NoRow
      <3>1. NoMembership(u)
        BY <2>1 DEF MemberInv, UserOK
      <3> QED  BY <1>7, <3>1 DEF FirstAt, NoMembership
    <2>2. CASE users[u] # NoRow /\ users'[u] # users[u]
      <3>1. At(p, "create", "put")
        BY <1>1, <1>6, <2>2 DEF AtPut, Revives, Makes, At
      <3>2. PutOver(u)
        BY <1>1, <1>2, <1>4, <2>2, <3>1 DEF PutOver, PutBy, AtPut
      <3>3. u \in adopted'
        BY <3>2 DEF Remember
      <3> QED  BY <3>3 DEF FirstAt
    <2>3. CASE users[u] # NoRow /\ users'[u] = users[u]
      <3>1. FirstAt(u, t)
        BY <1>7, <2>3 DEF MemberInv, UserOK
      <3> QED  BY <2>3, <3>1, FirstStays
    <2> QED  BY <2>1, <2>2, <2>3
  <1>10. Shape(req[p])'
    BY <1>4 DEF Shape, BackfillReqs, MeReqs, CreateReqs, DeleteReqs,
         KeyListReqs, RoleReqs, MoveReqs, ArchiveReqs, GateReqs, SignUpReqs, Rows
  <1>11. req'[p].op \notin {"me", "delete"}
    BY <1>1, <1>4 DEF AtPut
  <1>12. req'[p].op = "create" /\ ~req'[p].revive => req'[p].role = "admin"
    <2>1. req[p].op = "create" => req'[p].role = req[p].role
      BY <1>1, <1>3 DEF CreateReqs, SignUpReqs
    <2> QED  BY <1>0, <1>4, <2>1 DEF ReqOK
  <1>14. req'[p].op # "backfill"
    BY <1>1, <1>4 DEF AtPut
  <1>15. ReqOK(p)'
    BY <1>4, <1>5, <1>7, <1>9, <1>f, <1>10, <1>11, <1>12, <1>14 DEF ReqOK, NoMembership, FirstAt
  <1>13. ASSUME NEW q \in Procs PROVE Apart(p, q)' /\ Apart(q, p)'
    <2>1. CASE q = p
      BY <2>1 DEF Apart
    <2>2. CASE q # p
      <3>1. /\ req'[q] = req[q]
            /\ Makes(q)' = Makes(q) /\ Revives(q)' = Revives(q) /\ ActsAs(q)' = ActsAs(q)
        BY <1>q, <2>2 DEF Makes, AtPut, AtEnsure, Revives, ActsAs
      <3>2. Apart(p, q) /\ Apart(q, p)
        BY DEF MemberInv
      <3> QED  BY <1>2, <1>4, <1>5, <2>2, <3>1, <3>2 DEF Apart
    <2> QED  BY <2>1, <2>2
  <1> QED  BY <1>15, <1>13 DEF Settled

\* The next step of a deletion, or of a change of role or tenant.
LEMMA WriterGoes ==
  ASSUME MemberInv, StoreMove, NEW p \in Procs,
         \/ delete_user_mark(p) \/ list_keys(p) \/ revoke_keys(p) \/ update_roles(p)
         \/ set_user_role_sessions(p) \/ switch_tenant(p) \/ assign_tenant_signout(p)
  PROVE  Settled(p)
  <1>0. StoresOK /\ ReqOK(p)
    BY DEF MemberInv
  <1>1. /\ req[p].op \in {"delete", "role"}
        /\ req[p] \in DeleteReqs \cup KeyListReqs \cup RoleReqs \cup MoveReqs
        /\ req[p].op = "delete" => req[p] \in DeleteReqs \cup KeyListReqs
        /\ req[p].op = "role" => req[p] \in RoleReqs \cup MoveReqs \cup KeyListReqs
    BY <1>0 DEF ReqOK, Shape, delete_user_mark, list_keys, revoke_keys, update_roles,
                set_user_role_sessions, switch_tenant, assign_tenant_signout, At
  <1>2. PICK u \in Users : u = req[p].u
    BY <1>1 DEF DeleteReqs, KeyListReqs, RoleReqs, MoveReqs
  <1>3. users'[u] # NoRow
    BY <1>0, <1>1, <1>2, RowsStay DEF ReqOK, Known
  <1>4. req[p].op = "delete" => Barred(u)'
    <2>1. CASE delete_user_mark(p)
      <3>1. MarkDeleted(req[p].u)
        BY <2>1, RowMoves
      <3>2. MarkDeleted(u)
        BY <1>2, <3>1 DEF MarkDeleted
      <3> QED  BY <1>0, <3>2, RowsNeverEmpty DEF MarkDeleted, Barred, is_user_deleted, StoresOK
    <2>2. CASE ~delete_user_mark(p) /\ req[p].op = "delete"
      <3>1. req[p].at # "mark"
        BY <2>2 DEF list_keys, revoke_keys, update_roles,
                set_user_role_sessions, switch_tenant, assign_tenant_signout, At
      <3>2. Barred(u)
        BY <1>0, <1>2, <2>2, <3>1 DEF ReqOK
      <3> QED  BY <3>2, RowsStay
    <2> QED  BY <2>1, <2>2
  <1>5. ASSUME NEW r, req'[p] = r, r.u = u, r.op = req[p].op, Shape(r) PROVE Settled(p)
    <2>1. users'[req'[p].u] # NoRow
      BY <1>3, <1>5
    <2>2. req'[p].op = "delete" => Barred(req[p].u)'
      BY <1>4, <1>5 DEF Barred, is_user_deleted
    <2> QED  BY <1>1, <1>5, <2>1, <2>2, WriterIsSettled
  <1>6. CASE End(p)
    BY <1>0, <1>6, EndIsSettled
  <1>7. CASE list_keys(p)
    <2> DEFINE r == [op |-> req[p].op, at |-> "revoke", u |-> u, todo |-> unrevoked(u)]
    <2>1. req'[p] = r
      BY <1>0, <1>2, <1>7 DEF list_keys, GoWith, StoresOK, unrevoked
    <2>2. r \in KeyListReqs
      BY <1>1 DEF KeyListReqs, unrevoked
    <2>3. Shape(r)
      BY <1>1, <2>2 DEF Shape
    <2>4. r.u = u /\ r.op = req[p].op
      OBVIOUS
    <2> HIDE DEF r
    <2> QED  BY <1>5, <2>1, <2>3, <2>4
  <1>8. ASSUME ~End(p), ~list_keys(p) PROVE Settled(p)
    <2>1. PICK at : Go(p, at) /\ \/ at = "list" /\ delete_user_mark(p)
                                 \/ at = "archive" /\ revoke_keys(p) /\ req[p].op = "delete"
                                 \/ at = "sessions" /\ update_roles(p)
                                 \/ at = "switch" /\ set_user_role_sessions(p) /\ req[p].t # None
                                 \/ at = "signout" /\ switch_tenant(p)
                                 \/ at = "list" /\ assign_tenant_signout(p)
      BY <1>8 DEF delete_user_mark, revoke_keys, update_roles, set_user_role_sessions, switch_tenant,
                  assign_tenant_signout
    <2> DEFINE r == [req[p] EXCEPT !.at = at]
    <2>2. req'[p] = r
      BY <1>0, <2>1 DEF Go, StoresOK
    <2>3. r.u = u /\ r.op = req[p].op
      BY <1>1, <1>2 DEF DeleteReqs, KeyListReqs, RoleReqs, MoveReqs
    <2>4. Shape(r)
      <3>1. CASE at = "list" /\ delete_user_mark(p)
        <4>1. req[p] \in DeleteReqs
          BY <1>1, <3>1 DEF delete_user_mark, At, KeyListReqs
        <4>2. r \in DeleteReqs
          BY <3>1, <4>1 DEF DeleteReqs
        <4> QED  BY <4>2 DEF Shape, DeleteReqs
      <3>2. CASE at = "archive" /\ revoke_keys(p) /\ req[p].op = "delete"
        <4>1. req[p] \in KeyListReqs
          BY <1>1, <3>2 DEF revoke_keys, DeleteReqs
        <4>2. r \in KeyListReqs
          BY <3>2, <4>1 DEF KeyListReqs
        <4> QED  BY <4>2 DEF Shape, KeyListReqs
      <3>3. CASE at = "sessions" /\ update_roles(p)
        <4>1. req[p] \in RoleReqs \cup MoveReqs
          BY <1>1, <3>3 DEF update_roles, At, KeyListReqs
        <4>2. r \in RoleReqs \cup MoveReqs
          BY <3>3, <4>1 DEF RoleReqs, MoveReqs
        <4> QED  BY <4>2 DEF Shape, RoleReqs, MoveReqs
      <3>4. CASE at = "switch" /\ set_user_role_sessions(p) /\ req[p].t # None
        <4>1. req[p] \in MoveReqs
          BY <1>1, <3>4 DEF set_user_role_sessions, At, KeyListReqs, RoleReqs
        <4>2. r \in MoveReqs
          BY <3>4, <4>1 DEF MoveReqs
        <4> QED  BY <4>2 DEF Shape, MoveReqs
      <3>5. CASE at \in {"signout", "list"} /\ (switch_tenant(p) \/ assign_tenant_signout(p))
        <4>1. req[p] \in MoveReqs
          BY <1>1, <3>5 DEF switch_tenant, assign_tenant_signout, At, KeyListReqs, RoleReqs
        <4>2. r \in MoveReqs
          BY <3>5, <4>1 DEF MoveReqs
        <4> QED  BY <4>2 DEF Shape, MoveReqs
      <3> QED  BY <2>1, <3>1, <3>2, <3>3, <3>4, <3>5
    <2> HIDE DEF r
    <2> QED  BY <1>5, <2>2, <2>3, <2>4
  <1> QED  BY <1>6, <1>7, <1>8

\* The next step of an exchange that acts as a user with a row.
LEMMA ExchangeGoes ==
  ASSUME ~Overlaps, MemberInv, StoreMove, NEW p \in Procs,
         sso_known_user(p) \/ sso_ensure(p) \/ mark_consumed(p) \/ sso_login(p)
  PROVE  Settled(p)
  <1>0. StoresOK /\ ReqOK(p)
    BY DEF MemberInv
  <1>1. CASE End(p)
    BY <1>0, <1>1, EndIsSettled
  <1>2. ASSUME ~End(p) PROVE Settled(p)
    <2>1. /\ req[p].op = "sso" /\ req[p] \in GateReqs \cup SignUpReqs
          /\ req[p] \in GateReqs => req[p].at \in {"gate", "login", "record"}
      BY <1>0 DEF ReqOK, Shape, sso_known_user, sso_ensure, mark_consumed, sso_login, At, GateReqs
    <2>2. PICK u \in Users : u = req[p].u
      BY <2>1 DEF GateReqs, SignUpReqs
    <2>3. PICK at : Go(p, at) /\ \/ at = "consume" /\ req[p].at = "ensure" /\ sso_ensure(p)
                                 \/ at = "login" /\ req[p].at = "gate" /\ sso_known_user(p)
                                 \/ at = "login" /\ req[p].at = "consume" /\ mark_consumed(p)
                                 \/ at = "record" /\ req[p].at = "login" /\ sso_login(p)
      BY <1>2 DEF sso_known_user, sso_ensure, mark_consumed, sso_login, At
    <2> DEFINE r == [req[p] EXCEPT !.at = at]
    <2>4. req'[p] = r
      BY <1>0, <2>3 DEF Go, StoresOK
    <2>5. r \in GateReqs \cup SignUpReqs /\ r.u = u /\ r.op = "sso" /\ r.at = at
      BY <2>1, <2>2, <2>3 DEF GateReqs, SignUpReqs
    <2> HIDE DEF r
    <2>6. Shape(req'[p]) /\ ActsAs(p)'
      BY <2>3, <2>4, <2>5 DEF Shape, ActsAs
    <2>7. users[u] # NoRow
      BY <1>0, <2>1, <2>2, <2>3 DEF ReqOK, Known, AtEnsure, sso_known_user
    <2>8. users'[u] # NoRow
      BY <2>7, RowsStay
    <2>9. ASSUME NEW q \in Procs, q # p, Revives(q) PROVE req[q].u # u
      <3>1. CASE sso_known_user(p)
        <4>1. ~BeingMade(u)
          BY <2>2, <3>1 DEF sso_known_user, BeingMade
        <4> QED  BY <2>9, <4>1 DEF BeingMade, Revives, Makes, AtPut, AtEnsure
      <3>2. CASE req[p].at \in {"ensure", "consume", "login"}
        <4>1. Makes(p) \/ ActsAs(p)
          BY <2>1, <3>2 DEF Makes, AtEnsure, ActsAs
        <4>2. Apart(q, p)
          BY DEF MemberInv
        <4> QED  BY <2>2, <2>9, <4>1, <4>2 DEF Apart, Revives
      <3> QED  BY <2>3, <3>1, <3>2
    <2>10. \A q \in Procs : q # p => req'[q] = req[q]
      BY <1>0, OneActs DEF Continue
    <2> QED  BY <2>4, <2>5, <2>6, <2>8, <2>9, <2>10, ActorIsSettled
  <1> QED  BY <1>1, <1>2

\* A request that takes a step knows what the next one requires.
LEMMA ContinueSettles ==
  ASSUME ~Overlaps, MemberInv, StoreMove, Remember, NEW p \in Procs, Continue(p)
  PROVE  Settled(p)
  <1>0. StoresOK /\ ReqOK(p)
    BY DEF MemberInv
  <1>1. CASE \/ backfill_put(p) \/ me_ensure(p) \/ create_user_ensure(p) \/ delete_user_archive(p)
             \/ set_owner(p) \/ archive_flip(p) \/ (\E k \in Keys : put_api_key(p, k))
             \/ record_sso_login(p) \/ abandon(p)
    <2>1. End(p)
      BY <1>1 DEF backfill_put, me_ensure, create_user_ensure, delete_user_archive, set_owner,
                  archive_flip, put_api_key, record_sso_login, abandon
    <2> QED  BY <1>0, <2>1, EndIsSettled
  <1>2. CASE archive_member(p)
    <2>1. CASE End(p)
      BY <1>0, <2>1, EndIsSettled
    <2>2. CASE ~End(p)
      <3>1. PICK u : GoWith(p, [req[p] EXCEPT !.todo = @ \ {u}])
        BY <1>2, <2>2 DEF archive_member
      <3> DEFINE r == [req[p] EXCEPT !.todo = @ \ {u}]
      <3>2. req'[p] = r
        BY <1>0, <3>1 DEF GoWith, StoresOK
      <3>3. req[p] \in ArchiveReqs
        BY <1>0, <1>2 DEF ReqOK, Shape, archive_member, At
      <3>4. r \in ArchiveReqs
        BY <3>3 DEF ArchiveReqs
      <3> HIDE DEF r
      <3>5. Shape(req'[p]) /\ ~Known(p)' /\ ~AtPut(p)'
        BY <3>2, <3>4 DEF Shape, ArchiveReqs, Known, AtPut, AtEnsure
      <3> QED  BY <3>5, QuietIsSettled
    <2> QED  BY <2>1, <2>2
  <1>3. ASSUME NEW role \in Roles, NEW t \in Tenants, sso_new_user(p, role, t) PROVE Settled(p)
    <2>1. PICK u \in Users, arn \in Principals : u = req[p].u /\ arn = req[p].arn
      BY <1>0, <1>3 DEF ReqOK, Shape, sso_new_user, At, GateReqs, SignUpReqs
    <2>2. role \in {"user", "team_lead"}
      BY <1>3 DEF sso_new_user, invited_roles
    <2>3. /\ req'[p] = [op |-> "sso", at |-> "put", u |-> u, arn |-> arn, role |-> role, t |-> t]
          /\ users[u] = NoRow /\ u \notin pool /\ u \in pool' /\ UNCHANGED <<users, token>>
      BY <1>0, <1>3, <2>1 DEF StoresOK, sso_new_user, GoWith
    <2>4. Shape(req'[p]) /\ AtPut(p)'
      BY <2>2, <2>3 DEF Shape, SignUpReqs, AtPut
    <2>5. \A q \in Procs : q # p => req'[q] = req[q]
      BY <1>0, OneActs
    <2> QED  BY <2>3, <2>4, <2>5, MakerIsSettled
  <1> QED
    BY <1>1, <1>2, <1>3, PutIsSettled, WriterGoes, ExchangeGoes DEF Continue

-----------------------------------------------------------------------------

\* A step that moves a request is the beginning or a step of one.
LEMMA NextActs ==
  ASSUME [Next]_vars
  PROVE  UNCHANGED req \/ \E p \in Procs : Begin(p) \/ Continue(p)
  BY DEF Next, Step, Administer, revoke_my_api_key, revoke_any_api_key, create_own_tenant, create_tenant,
     create_trusted_account, update_trusted_account, delete_trusted_account, create_invite,
     delete_invite, mint_ui_ticket, Once, cognito_login, consume_ui_ticket, purge_nonce,
     seed_default_tenant, tick, vars

\* The clock stays a natural number.
LEMMA ClockTicks ==
  ASSUME StoresOK, [Next]_vars
  PROVE  clock' \in Nat
  <1>1. ASSUME NEW p \in Procs, Begin(p) PROVE clock' = clock
    <2>1. ASSUME NEW by, NEW v, NEW role, NEW t, NEW owner, NEW scope, NEW e,
                 \/ backfill_read(p, v) \/ me_read(p, v) \/ set_user_role(p, by, v, role)
                 \/ assign_tenant(p, by, v, t, role) \/ archive_tenant(p, by, t)
                 \/ set_tenant_owner(p, by, t, owner)
                 \/ create_api_key_on_behalf(p, by, v, scope) \/ create_my_api_key(p, v, scope, e)
          PROVE  clock' = clock
      BY <2>1 DEF backfill_read, me_read, set_user_role, assign_tenant, archive_tenant,
         set_tenant_owner, create_api_key_on_behalf, create_my_api_key, new_key, Start
    <2>2. ASSUME NEW by, NEW v, NEW role, NEW t, NEW sig, NEW arn,
                 \/ create_user(p, by, v, role, t) \/ delete_user(p, by, v)
                 \/ verify_and_call_sts(p, sig, v, arn) \/ seed_bootstrap_admin(p)
          PROVE  clock' = clock
      BY <2>2 DEF create_user, delete_user, verify_and_call_sts, seed_bootstrap_admin, Start, GoWith
    <2> QED  BY <1>1, <2>1, <2>2, Zenon DEF Begin
  <1>2. ASSUME NEW p \in Procs, Continue(p) PROVE clock' = clock
    BY <1>2 DEF Continue, backfill_put, me_ensure, create_user_put, create_user_ensure,
         delete_user_mark, list_keys, revoke_keys, delete_user_archive, update_roles,
         set_user_role_sessions, switch_tenant, assign_tenant_signout, set_owner,
         archive_member, archive_flip, put_api_key, sso_new_user, sso_known_user, sso_put,
         sso_ensure, mark_consumed, sso_login, record_sso_login, abandon, Go, GoWith, End
  <1>3. CASE tick
    BY <1>3 DEF tick, StoresOK
  <1>4. CASE ~tick /\ ~\E p \in Procs : Begin(p) \/ Continue(p)
    BY <1>4 DEF Next, Step, Administer, revoke_my_api_key, revoke_any_api_key, create_own_tenant, create_tenant,
       create_trusted_account, update_trusted_account, delete_trusted_account, create_invite,
       delete_invite, mint_ui_ticket, Once, cognito_login, consume_ui_ticket, purge_nonce,
       seed_default_tenant, vars, StoresOK
  <1> QED  BY <1>1, <1>2, <1>3, <1>4 DEF StoresOK

\* The invariant of rows and memberships is inductive.
LEMMA MemberInvStep ==
  ASSUME ~Overlaps, MemberInv, [Next]_vars
  PROVE  MemberInv'
  <1>1. StoreMove /\ StoresOK
    BY StoreStep DEF MemberInv
  <1>2. \A u \in Users : UserOK(u)'
    BY <1>1, UsersAgree
  <1>3. req' = [p \in Procs |-> req'[p]]
    BY <1>1, NextActs, OneActs DEF StoresOK
  <1>4. ut' \in [Users -> [Tenants -> {"none", "active", "archived"}]]
    <2>1. \E u \in Users : TRUE
      BY IdentityAssumption
    <2> QED  BY <1>1, <2>1, MembershipMoves
  <1>5. StoresOK'
    BY <1>1, <1>3, <1>4, RowsStay, TokensStay, GoneAreDeleted, ClockTicks DEF StoresOK
  <1>6. CASE UNCHANGED req
    <2>1. \A q \in Procs : ~Acts(q)
      BY <1>6 DEF Acts
    <2>2. \A q \in Procs : ReqOK(q)'
      BY <1>1, <2>1, Bystander
    <2>3. \A p, q \in Procs : Apart(p, q)'
      BY <1>6 DEF MemberInv, Apart, Makes, AtPut, AtEnsure, Revives, ActsAs
    <2> QED  BY <1>2, <1>5, <2>2, <2>3 DEF MemberInv
  <1>7. ASSUME ~UNCHANGED req, NEW a \in Procs, Begin(a) \/ Continue(a) PROVE MemberInv'
    <2>r. Remember
      BY <1>7 DEF Next, vars
    <2>1. Settled(a)
      BY <1>1, <1>7, <2>r, BeginSettles, ContinueSettles
    <2>2. \A q \in Procs : q # a => ~Acts(q)
      BY <1>1, <1>7, OneActs DEF Acts
    <2>3. \A q \in Procs : ReqOK(q)'
      BY <1>1, <2>1, <2>2, Bystander DEF Settled
    <2>4. ASSUME NEW p \in Procs, NEW q \in Procs PROVE Apart(p, q)'
      <3>1. CASE p = a \/ q = a
        BY <2>1, <3>1 DEF Settled
      <3>2. CASE p # a /\ q # a
        BY <2>2, <3>2 DEF Acts, MemberInv, Apart, Makes, AtPut, AtEnsure, Revives, ActsAs
      <3> QED  BY <3>1, <3>2
    <2> QED  BY <1>2, <1>5, <2>3, <2>4 DEF MemberInv
  <1> QED  BY <1>6, <1>7, NextActs

-----------------------------------------------------------------------------
(* There is an administrator whom no request in flight is about to take away. *)

\* The first step of a request writes no row.
LEMMA BeginWritesNoRow ==
  ASSUME NEW p \in Procs, Begin(p)
  PROVE  UNCHANGED users
  <1>1. ASSUME NEW by, NEW v, NEW role, NEW t, NEW owner, NEW scope, NEW e,
               \/ backfill_read(p, v) \/ me_read(p, v) \/ set_user_role(p, by, v, role)
               \/ assign_tenant(p, by, v, t, role) \/ archive_tenant(p, by, t)
               \/ set_tenant_owner(p, by, t, owner)
               \/ create_api_key_on_behalf(p, by, v, scope) \/ create_my_api_key(p, v, scope, e)
        PROVE  UNCHANGED users
    BY <1>1 DEF backfill_read, me_read, set_user_role, assign_tenant, archive_tenant,
       set_tenant_owner, create_api_key_on_behalf, create_my_api_key, new_key, stores
  <1>2. ASSUME NEW by, NEW v, NEW role, NEW t, NEW sig, NEW arn,
               \/ create_user(p, by, v, role, t) \/ delete_user(p, by, v)
               \/ verify_and_call_sts(p, sig, v, arn) \/ seed_bootstrap_admin(p)
        PROVE  UNCHANGED users
    BY <1>2 DEF create_user, delete_user, verify_and_call_sts, seed_bootstrap_admin
  <1> QED  BY <1>1, <1>2, Zenon DEF Begin

\* A request that begins to threaten an administrator has counted another.
LEMMA NewThreat ==
  ASSUME MemberInv, NEW p \in Procs, Begin(p), NEW a \in Admins, Threatens(p, a)'
  PROVE  Cardinality(Admins) > 1
  <1>0. StoresOK
    BY DEF MemberInv
  <1>a. a \in Users /\ "admin" \in users[a].roles
    BY DEF Admins
  <1>c. ASSUME ~(count_active_admins <= 1) PROVE Cardinality(Admins) > 1
    <2>1. IsFiniteSet(Admins)
      BY IdentityAssumption, FS_Subset DEF Admins
    <2>2. Cardinality(Admins) \in Nat /\ count_active_admins = Cardinality(Admins)
      BY <2>1, FS_CardinalityType DEF Admins, count_active_admins
    <2> QED  BY <1>c, <2>2
  <1>1. ASSUME NEW by, NEW u, delete_user(p, by, u) PROVE ~(count_active_admins <= 1)
    <2>1. req'[p] = [op |-> "delete", at |-> "mark", u |-> u]
      BY <1>0, <1>1 DEF StoresOK, delete_user, Start
    <2>2. u = a
      BY <2>1 DEF Threatens, At
    <2> QED  BY <1>1, <1>a, <2>2 DEF delete_user
  <1>2. ASSUME NEW by, NEW u, NEW role, NEW t, set_user_role(p, by, u, role) \/ assign_tenant(p, by, u, t, role)
        PROVE  ~(count_active_admins <= 1)
    <2>1. req'[p].op = "role" /\ req'[p].u = u /\ req'[p].role = role /\ req'[p].seen = users[u].roles
      BY <1>0, <1>2 DEF StoresOK, set_user_role, assign_tenant, Start
    <2>2. u = a /\ role # "admin"
      BY <2>1 DEF Threatens, At
    <2> QED  BY <1>2, <1>a, <2>2 DEF set_user_role, assign_tenant, RoleChecks
  <1>3. ASSUME NEW u, backfill_read(p, u) PROVE FALSE
    <2>1. req'[p] = [op |-> "backfill", at |-> "put", u |-> u, row |-> users[u]]
      BY <1>0, <1>3 DEF StoresOK, backfill_read, Start
    <2> QED  BY <1>a, <2>1 DEF Threatens, At
  <1>4. ASSUME NEW by, NEW v, NEW role, NEW t, NEW owner, NEW scope, NEW e, NEW sig, NEW arn,
               \/ me_read(p, v) \/ archive_tenant(p, by, t)
               \/ set_tenant_owner(p, by, t, owner) \/ create_user(p, by, v, role, t)
               \/ create_api_key_on_behalf(p, by, v, scope) \/ create_my_api_key(p, v, scope, e)
               \/ verify_and_call_sts(p, sig, v, arn)
        PROVE  FALSE
    <2>1. req'[p].op \notin {"delete", "role", "backfill"}
      BY <1>0, <1>4 DEF StoresOK, me_read, archive_tenant, set_tenant_owner, create_user,
         create_api_key_on_behalf, create_my_api_key, new_key, verify_and_call_sts, Start
    <2> QED  BY <2>1 DEF Threatens, At
  <1>5. ASSUME seed_bootstrap_admin(p) PROVE FALSE
    <2>1. PICK u : GoWith(p, [op |-> "create", at |-> "put", u |-> u, role |-> "admin",
                              t |-> DEFAULT_ORG, revive |-> FALSE])
      BY <1>5 DEF seed_bootstrap_admin
    <2>2. req'[p].op = "create"
      BY <1>0, <2>1 DEF StoresOK, GoWith
    <2> QED  BY <2>2 DEF Threatens, At
  <1>6. ~(count_active_admins <= 1)
    BY <1>1, <1>2, <1>3, <1>4, <1>5, Zenon DEF Begin
  <1> QED  BY <1>6, <1>c

\* A request past its first step threatens nobody anew.
LEMMA NoLateThreat ==
  ASSUME MemberInv, NEW p \in Procs, Continue(p), NEW a
  PROVE  ~Threatens(p, a)'
  <1>0. StoresOK /\ ReqOK(p)
    BY DEF MemberInv
  <1>1. CASE End(p)
    <2>1. req'[p] = Idle
      BY <1>0, <1>1 DEF End, StoresOK
    <2> QED  BY <2>1 DEF Threatens, Idle, At
  <1>2. ASSUME NEW at \in {"ensure", "list", "archive", "sessions", "switch", "signout", "login", "consume", "record"},
               Go(p, at), req[p].op \in {"delete", "role"}
        PROVE  ~Threatens(p, a)'
    <2>1. req'[p] = [req[p] EXCEPT !.at = at]
      BY <1>0, <1>2 DEF Go, StoresOK
    <2>2. req'[p].at = at
      BY <1>0, <1>2, <2>1 DEF ReqOK, Shape, DeleteReqs, KeyListReqs, RoleReqs, MoveReqs
    <2> QED  BY <1>2, <2>2 DEF Threatens, At
  <1>3. ASSUME NEW at \in {"ensure", "list", "archive", "sessions", "switch", "signout", "login", "consume", "record"},
               Go(p, at), req[p].op \in {"create", "sso"}
        PROVE  ~Threatens(p, a)'
    <2>1. req'[p] = [req[p] EXCEPT !.at = at]
      BY <1>0, <1>3 DEF Go, StoresOK
    <2>2. req'[p].op = req[p].op
      BY <1>0, <1>3, <2>1 DEF ReqOK, Shape, CreateReqs, GateReqs, SignUpReqs
    <2> QED  BY <1>3, <2>2 DEF Threatens, At
  <1>4. CASE list_keys(p)
    <2>1. req'[p].at = "revoke"
      BY <1>0, <1>4 DEF list_keys, GoWith, StoresOK
    <2> QED  BY <2>1 DEF Threatens, At
  <1>5. ASSUME archive_member(p), ~End(p) PROVE ~Threatens(p, a)'
    <2>1. PICK u : req' = [req EXCEPT ![p] = [req[p] EXCEPT !.todo = @ \ {u}]]
      BY <1>5 DEF archive_member, GoWith
    <2>2. req'[p] = [req[p] EXCEPT !.todo = @ \ {u}]
      BY <1>0, <2>1 DEF StoresOK
    <2>3. req'[p].op = "archive"
      BY <1>0, <1>5, <2>2 DEF ReqOK, Shape, archive_member, At, ArchiveReqs
    <2> QED  BY <2>3 DEF Threatens, At
  <1>6. ASSUME NEW role, NEW t, sso_new_user(p, role, t) PROVE ~Threatens(p, a)'
    <2>1. req'[p].op = "sso"
      BY <1>0, <1>6 DEF sso_new_user, GoWith, StoresOK
    <2> QED  BY <2>1 DEF Threatens, At
  <1> QED
    BY <1>1, <1>2, <1>3, <1>4, <1>5, <1>6
       DEF Continue, backfill_put, me_ensure, create_user_put, create_user_ensure,
           delete_user_mark, revoke_keys, delete_user_archive, update_roles,
           set_user_role_sessions, switch_tenant, assign_tenant_signout, set_owner,
           archive_flip, put_api_key, sso_known_user, sso_put,
           sso_ensure, mark_consumed, sso_login, record_sso_login, abandon, At

\* A move leaves an administrator whom nobody threatens what it is.
LEMMA AdminStays ==
  ASSUME MemberInv, StoreMove, NEW a \in Admins, \A p \in Procs : ~Threatens(p, a)
  PROVE  a \in Admins'
  <1>0. StoresOK /\ a \in Users /\ Live(a) /\ users[a].roles = {"admin"}
    BY AdminsRole DEF MemberInv, Admins
  <1>1. users[a] \in Rows /\ users[a] # NoRow /\ users[a].status = "active"
    BY <1>0, RowHasFields DEF Live, Rows
  <1>2. users'[a] # NoRow
    BY <1>0, <1>1, RowsStay
  <1>3. ASSUME NEW row \in Rows, users' = [users EXCEPT ![a] = row], row.status = "active", row.roles = {"admin"}
        PROVE  a \in Admins'
    <2>1. users'[a] = row
      BY <1>0, <1>3 DEF StoresOK
    <2>2. "active" # "deleted"
      OBVIOUS
    <2> QED  BY <1>0, <1>2, <1>3, <2>1, <2>2 DEF Admins, Live
  <1>4. ASSUME NEW u \in Users, u # a,
               PutRow(u) \/ Overwrite(u) \/ Rewrite(u) \/ MarkDeleted(u) \/ ChangeRole(u) \/ Switch(u)
        PROVE  users'[a] = users[a]
    BY <1>0, <1>4 DEF PutRow, Overwrite, Rewrite, MarkDeleted, ChangeRole, Switch, StoresOK
  <1>5. CASE Rewrite(a)
    <2>1. PICK row \in Rows : /\ RowLike(row, users[a]) /\ row.status = users[a].status
                              /\ users' = [users EXCEPT ![a] = row]
      BY <1>5 DEF Rewrite
    <2> QED  BY <1>0, <1>1, <1>3, <2>1 DEF RowLike
  <1>6. CASE Switch(a)
    <2>1. PICK t \in Tenants : users' = [users EXCEPT ![a].org = t]
      BY <1>6 DEF Switch
    <2> DEFINE row == [users[a] EXCEPT !.org = t]
    <2>2. row \in Rows /\ row.status = "active" /\ row.roles = {"admin"}
      BY <1>0, <1>1 DEF Rows
    <2>3. users' = [users EXCEPT ![a] = row]
      BY <1>0, <2>1 DEF StoresOK
    <2> QED  BY <1>3, <2>2, <2>3
  <1>7. CASE ChangeRole(a)
    <2>1. PICK p \in Procs : /\ At(p, "role", "write") /\ req[p].u = a /\ users[a].roles = req[p].seen
                             /\ users' = [users EXCEPT ![a].roles = {req[p].role}]
      BY <1>7 DEF ChangeRole
    <2>2. req[p].role = "admin"
      BY <1>0, <2>1 DEF Threatens
    <2> DEFINE row == [users[a] EXCEPT !.roles = {req[p].role}]
    <2>3. row \in Rows /\ row.status = "active" /\ row.roles = {"admin"}
      BY <1>1, <2>2 DEF Rows, Roles
    <2>4. users' = [users EXCEPT ![a] = row]
      BY <1>0, <2>1 DEF StoresOK
    <2> QED  BY <1>3, <2>3, <2>4
  <1>8. CASE Overwrite(a)
    <2>1. PICK p \in Procs, row \in Rows :
            /\ req[p].u = a /\ row.status = "active" /\ users' = [users EXCEPT ![a] = row]
            /\ \/ At(p, "backfill", "put") /\ row.roles = req[p].row.roles
               \/ At(p, "create", "put") /\ row.roles = {req[p].role}
      BY <1>8 DEF Overwrite
    <2>2. CASE At(p, "backfill", "put") /\ row.roles = req[p].row.roles
      <3>1. "admin" \in row.roles
        BY <2>1, <2>2 DEF Threatens
      <3>2. row.roles = {"admin"}
        BY <3>1 DEF Rows
      <3> QED  BY <1>3, <2>1, <3>2
    <2>3. CASE At(p, "create", "put") /\ row.roles = {req[p].role}
      <3>1. req[p].role = "admin"
        BY <1>1, <2>1, <2>3 DEF MemberInv, ReqOK, AtPut, Revives, Makes, At
      <3> QED  BY <1>3, <2>1, <2>3, <3>1
    <2> QED  BY <2>1, <2>2, <2>3
  <1>9. ~PutRow(a) /\ ~MarkDeleted(a)
    BY <1>1 DEF PutRow, MarkDeleted, Threatens
  <1>10. \/ UNCHANGED users
         \/ \E u \in Users : \/ PutRow(u) \/ Overwrite(u) \/ Rewrite(u) \/ MarkDeleted(u)
                             \/ ChangeRole(u) \/ Switch(u)
    BY DEF StoreMove, Move, tables, Ensure, Archive, Enter, Leave, SignIn
  <1>11. users'[a] = users[a] => a \in Admins'
    BY <1>0 DEF Admins, Live
  <1> QED  BY <1>4, <1>5, <1>6, <1>7, <1>8, <1>9, <1>10, <1>11

\* If one administrator is threatened by nobody, then after any step one still is, or
\* requests were taking away all of several.
LEMMA AdminStep ==
  ASSUME ~Overlaps, MemberInv, SomeoneSafe, [Next]_vars
  PROVE  SomeoneSafe' \/ cornered'
  <1>0. StoresOK /\ StoreMove
    BY StoreStep DEF MemberInv
  <1>1. PICK a \in Admins : \A p \in Procs : ~Threatens(p, a)
    BY DEF SomeoneSafe
  <1>2. a \in Admins'
    BY <1>0, <1>1, AdminStays
  <1>3. CASE \A p \in Procs : ~Threatens(p, a)'
    BY <1>2, <1>3 DEF SomeoneSafe
  <1>4. ASSUME NEW p \in Procs, Threatens(p, a)' PROVE SomeoneSafe' \/ cornered'
    <2>1. req'[p] # req[p]
      BY <1>1, <1>4 DEF Threatens, At
    <2>2. PICK q \in Procs : Begin(q) \/ Continue(q)
      BY <2>1, NextActs
    <2>3. q = p
      BY <1>0, <2>1, <2>2, OneActs
    <2>4. Begin(p)
      BY <1>4, <2>2, <2>3, NoLateThreat
    <2>5. UNCHANGED users
      BY <2>4, BeginWritesNoRow
    <2>6. Admins' = Admins
      BY <2>5 DEF Admins, Live
    <2>7. Cardinality(Admins') > 1
      BY <1>1, <1>4, <2>4, <2>6, NewThreat
    <2>8. cornered' = (~SomeoneSafe' /\ (cornered \/ Cardinality(Admins') > 1))
      BY <2>1 DEF Next, Remember, vars
    <2> QED  BY <2>7, <2>8
  <1> QED  BY <1>3, <1>4

\* It is remembered until someone is safe again.
LEMMA CorneredStays ==
  ASSUME cornered, [Next]_vars
  PROVE  SomeoneSafe' \/ cornered'
  <1>1. CASE UNCHANGED vars
    BY <1>1 DEF vars, history
  <1>2. CASE Remember
    BY <1>2 DEF Remember
  <1> QED  BY <1>1, <1>2 DEF Next

\* In an empty system nobody is admitted, so only the seed, a sign-in and the clock move.
LEMMA EmptyStep ==
  ASSUME ~Overlaps, MemberInv, Empty, [Next]_vars
  PROVE  AdminInv'
  <1>0. StoresOK /\ StoreMove /\ \A p \in Procs : ReqOK(p)
    BY StoreStep DEF MemberInv
  <1>1. \A u \in Users : users[u] = NoRow
    BY DEF Empty
  <1>2. \A u \in Users : ~jwt_admits(u) /\ \A needed : ~user_has_permission(u, needed)
    <2>1. \A u \in Users : ~jwt_admits(u)
      BY <1>1 DEF jwt_admits
    <2>2. \A u \in Users, k \in Keys : key_admits(k) => keys[k].user # u
      BY <1>1 DEF key_admits
    <2> QED  BY <2>1, <2>2 DEF user_has_permission
  <1>3. ~Administer
    BY <1>2 DEF Administer, revoke_my_api_key, revoke_any_api_key, create_own_tenant, create_tenant,
       create_trusted_account, update_trusted_account, delete_trusted_account, create_invite,
       delete_invite, mint_ui_ticket
  <1>4. ASSUME NEW p \in Procs, Begin(p)
        PROVE  /\ req'[p].op \in {"create", "sso"} /\ UNCHANGED <<users, account>>
               /\ req'[p].op = "create" => req'[p].at = "put" /\ req'[p].role = "admin"
               /\ req'[p].op = "sso" => req'[p].at = "gate"
    <2>1. \/ seed_bootstrap_admin(p)
          \/ \E sig \in Signatures, u \in Users, arn \in Principals : verify_and_call_sts(p, sig, u, arn)
      <3>1. ASSUME NEW by \in Users, NEW v \in Users, NEW role, NEW t, NEW owner, NEW scope, NEW e,
                   \/ backfill_read(p, v) \/ me_read(p, v) \/ set_user_role(p, by, v, role)
                   \/ delete_user(p, by, v) \/ create_user(p, by, v, role, t)
                   \/ assign_tenant(p, by, v, t, role) \/ archive_tenant(p, by, t)
                   \/ set_tenant_owner(p, by, t, owner)
                   \/ create_api_key_on_behalf(p, by, v, scope) \/ create_my_api_key(p, v, scope, e)
            PROVE  FALSE
        BY <1>2, <3>1 DEF backfill_read, me_read, set_user_role, delete_user, create_user, assign_tenant,
           archive_tenant, set_tenant_owner, create_api_key_on_behalf, create_my_api_key, new_key
      <3> QED  BY <1>4, <3>1, Zenon DEF Begin
    <2>2. CASE seed_bootstrap_admin(p)
      <3>1. PICK u \in Users :
              /\ GoWith(p, [op |-> "create", at |-> "put", u |-> u, role |-> "admin",
                            t |-> DEFAULT_ORG, revive |-> FALSE])
              /\ UNCHANGED <<users, account>>
        BY <2>2 DEF seed_bootstrap_admin
      <3>2. req'[p] = [op |-> "create", at |-> "put", u |-> u, role |-> "admin",
                       t |-> DEFAULT_ORG, revive |-> FALSE]
        BY <1>0, <3>1 DEF GoWith, StoresOK
      <3> QED  BY <3>1, <3>2
    <2>3. ASSUME NEW sig \in Signatures, NEW u \in Users, NEW arn \in Principals,
                 verify_and_call_sts(p, sig, u, arn)
          PROVE  req'[p].op = "sso" /\ req'[p].at = "gate" /\ UNCHANGED <<users, account>>
      BY <1>0, <2>3 DEF verify_and_call_sts, Start, StoresOK
    <2> QED  BY <2>1, <2>2, <2>3
  <1>5. ASSUME NEW p \in Procs, Continue(p)
        PROVE  \/ create_user_put(p)
               \/ req'[p] = Idle /\ UNCHANGED <<users, account>>
    <2>1. /\ req[p].op \in {"idle", "create", "sso"}
          /\ req[p].op = "create" => req[p].at = "put"
          /\ req[p].op = "sso" => req[p].at = "gate"
      BY DEF Empty
    <2>2. create_user_put(p) \/ abandon(p)
      <3>1. \A role, t : ~sso_new_user(p, role, t)
        BY DEF sso_new_user, validate_sso_identity, Empty
      <3>2. ~sso_known_user(p)
        BY DEF sso_known_user, validate_sso_identity, Empty
      <3>3. ~\E k \in Keys : put_api_key(p, k)
        BY <2>1 DEF put_api_key, At
      <3> QED
        BY <1>5, <2>1, <3>1, <3>2, <3>3
           DEF Continue, backfill_put, me_ensure, create_user_ensure,
               delete_user_mark, list_keys, revoke_keys, delete_user_archive, update_roles,
               set_user_role_sessions, switch_tenant, assign_tenant_signout, set_owner,
               archive_member, archive_flip, sso_put,
               sso_ensure, mark_consumed, sso_login, record_sso_login, At
    <2> QED  BY <1>0, <2>2 DEF abandon, End, StoresOK, stores
  <1>6. ASSUME UNCHANGED <<users, account>>,
               \A p \in Procs : \/ req'[p] = req[p] \/ req'[p] = Idle
                                \/ /\ req'[p].op \in {"create", "sso"}
                                   /\ req'[p].op = "create" => req'[p].at = "put" /\ req'[p].role = "admin"
                                   /\ req'[p].op = "sso" => req'[p].at = "gate"
        PROVE  Empty'
    BY <1>6 DEF Empty, Idle
  <1>7. ASSUME NEW p \in Procs, create_user_put(p), Remember PROVE AdminInv'
    <2>1. req[p].u \in Users /\ PutRow(req[p].u)
      BY <1>1, <1>7, PutMoves
    <2>2. PICK u \in Users : u = req[p].u /\ PutRow(u)
      BY <2>1
    <2>3. PICK q \in Procs, row \in Rows :
            /\ Acts(q) /\ AtPut(q) /\ row.status = "active" /\ row.roles = {req[q].role}
            /\ users' = [users EXCEPT ![u] = row]
      BY <2>2 DEF PutRow
    <2>4. q = p
      BY <1>0, <1>7, <2>3, OneActs DEF Continue, Acts
    <2>5. req[p].role = "admin"
      BY <1>7 DEF create_user_put, At, Empty
    <2>6. users'[u] = row /\ row # NoRow
      BY <1>0, <2>3, RowsNeverEmpty DEF StoresOK
    <2>7. u \in Admins'
      BY <2>3, <2>4, <2>5, <2>6 DEF Admins, Live
    <2>8. ASSUME NEW r \in Procs PROVE ~Threatens(r, u)'
      <3>1. CASE r = p
        BY <1>7, <3>1, NoLateThreat DEF Continue
      <3>2. CASE r # p
        <4>1. req'[r] = req[r]
          BY <1>0, <1>7, <3>2, OneActs DEF Continue
        <4> QED  BY <4>1 DEF Threatens, Empty, At
      <3> QED  BY <3>1, <3>2
    <2> QED  BY <2>7, <2>8 DEF AdminInv, SomeoneSafe
  <1>8. CASE \E p \in Procs : Begin(p) \/ Continue(p)
    <2>1. PICK p \in Procs : Begin(p) \/ Continue(p)
      BY <1>8
    <2>2. \A q \in Procs : q # p => req'[q] = req[q]
      BY <1>0, <2>1, OneActs
    <2>3. CASE create_user_put(p)
      <3>1. req' # req
        BY <1>0, <2>3 DEF create_user_put, Go, At, StoresOK, ReqOK, Shape, CreateReqs
      <3> QED  BY <1>7, <2>3, <3>1 DEF Next, vars
    <2>4. CASE ~create_user_put(p)
      <3>1. Empty'
        BY <1>4, <1>5, <1>6, <2>1, <2>2, <2>4
      <3> QED  BY <3>1 DEF AdminInv
    <2> QED  BY <2>3, <2>4
  <1>9. CASE ~\E p \in Procs : Begin(p) \/ Continue(p)
    <2>1. UNCHANGED <<users, account, req>>
      BY <1>3, <1>9 DEF Next, Step, cognito_login, consume_ui_ticket, purge_nonce, seed_default_tenant, tick, Once,
         vars, stores
    <2>2. Empty'
      BY <1>6, <2>1
    <2> QED  BY <2>2 DEF AdminInv
  <1> QED  BY <1>8, <1>9

\* So the invariant of the administrators is inductive.
LEMMA AdminInvStep ==
  ASSUME ~Overlaps, MemberInv, AdminInv, [Next]_vars
  PROVE  AdminInv'
  BY EmptyStep, AdminStep, CorneredStays DEF AdminInv

\* The first state satisfies both.
LEMMA InvStarts ==
  ASSUME Init
  PROVE  MemberInv /\ AdminInv
  <1>1. PICK s \in Starts :
       /\ users = [u \in Users |->
            CASE u = Root /\ s.root -> Row({"admin"}, DEFAULT_ORG, "cognito", None)
              [] u \in Legacy \ {Root} /\ s.role # "none" -> LegacyRow(s)
              [] OTHER -> NoRow]
       /\ account = s.policy
    BY DEF Init
  <1>2. s.role = "none" \/ s.role \in Roles
    BY <1>1 DEF Starts, Roles
  <1>3. s.role # "none" => LegacyRow(s) \in Rows
    <2>1. \E t \in Tenants : t # DEFAULT_ORG
      BY IdentityAssumption
    <2>2. (CHOOSE t \in Tenants : t # DEFAULT_ORG) \in Tenants /\ DEFAULT_ORG \in Tenants
      BY <2>1, IdentityAssumption
    <2> DEFINE other == CHOOSE t \in Tenants : t # DEFAULT_ORG
    <2> HIDE DEF other
    <2>3. other \in Tenants
      BY <2>2 DEF other
    <2>4. s.role # "none" => /\ [Row({s.role}, DEFAULT_ORG, "cognito", None) EXCEPT !.email = FALSE] \in Rows
                             /\ [Row({s.role}, other, "sso", None) EXCEPT !.email = FALSE] \in Rows
      BY <1>2, <2>2, <2>3 DEF Row, Rows
    <2> QED  BY <2>4 DEF LegacyRow, other
  <1>4. Row({"admin"}, DEFAULT_ORG, "cognito", None) \in Rows
    BY IdentityAssumption DEF Row, Rows, Roles
  <1>5. users \in [Users -> Rows \cup {NoRow}]
    BY <1>1, <1>3, <1>4
  <1>6. /\ pool = {u \in Users : users[u] # NoRow}
        /\ ut = [u \in Users |-> [t \in Tenants |->
                IF users[u] # NoRow /\ users[u].org = t THEN "active" ELSE "none"]]
        /\ token = [u \in Users |-> IF u \in pool THEN 0 ELSE None]
        /\ gone = {} /\ clock = 0 /\ late = {} /\ adopted = {}
        /\ req = [p \in Procs |-> Idle]
    BY DEF Init
  <1>7. StoresOK
    BY <1>5, <1>6 DEF StoresOK
  <1>8. ASSUME NEW u \in Users PROVE UserOK(u)
    <2>1. \A t \in Tenants : ut[u][t] = IF users[u] # NoRow /\ users[u].org = t THEN "active" ELSE "none"
      BY <1>6
    <2>2. \A s1, t \in Tenants : ut[u][s1] = "active" /\ ut[u][t] = "active" => s1 = t
      BY <2>1
    <2>3. users[u] = NoRow => NoMembership(u)
      BY <2>1 DEF NoMembership
    <2>4. users[u] # NoRow => FirstAt(u, users[u].org)
      <3>1. users[u] # NoRow => users[u].org \in Tenants
        BY <1>7, RowHasFields DEF Rows
      <3> QED  BY <2>1, <3>1 DEF FirstAt
    <2>5. token[u] # None => users[u] # NoRow
      BY <1>6
    <2> QED  BY <1>6, <2>2, <2>3, <2>4, <2>5 DEF UserOK
  <1>9. ASSUME NEW p \in Procs PROVE req[p] = Idle /\ ReqOK(p)
    BY <1>6 DEF ReqOK, Idle, Shape, AtPut, AtEnsure, Makes, Revives, Known
  <1>10. \A p, q \in Procs : Apart(p, q)
    BY <1>9 DEF Apart, Makes, AtPut, AtEnsure, ActsAs, Revives, Idle
  <1>11. AdminInv
    <2>1. CASE s.root
      <3> DEFINE first == Row({"admin"}, DEFAULT_ORG, "cognito", None)
      <3>0. first.status = "active" /\ first.roles = {"admin"}
        BY DEF Row
      <3> HIDE DEF first
      <3>r. Root \in Users
        BY IdentityAssumption
      <3>1. users[Root] = first
        <4>1. s.root = TRUE /\ Root = Root
          BY <2>1 DEF Starts
        <4>2. users[Root] = CASE Root = Root /\ s.root -> first
                              [] Root \in Legacy \ {Root} /\ s.role # "none" -> LegacyRow(s)
                              [] OTHER -> NoRow
          BY <1>1, <3>r, Zenon DEF first
        <4> QED  BY <4>1, <4>2
      <3>2. Root \in Admins
        <4>1. first \in Rows
          BY <1>4 DEF first
        <4> QED  BY <3>0, <3>1, <3>r, <4>1, RowsNeverEmpty DEF Admins, Live
      <3>3. \A p \in Procs : ~Threatens(p, Root)
        BY <1>9 DEF Threatens, Idle, At
      <3> QED  BY <3>2, <3>3 DEF AdminInv, SomeoneSafe
    <2>2. CASE ~s.root
      <3>1. s.role = "none" /\ s.policy = "none"
        BY <2>2 DEF Starts
      <3>2. \A u \in Users : users[u] = NoRow
        BY <1>1, <2>2, <3>1
      <3> QED  BY <1>1, <1>9, <3>1, <3>2 DEF AdminInv, Empty, Idle
    <2> QED  BY <2>1, <2>2
  <1> QED  BY <1>7, <1>8, <1>9, <1>10, <1>11 DEF MemberInv

\* Without the overlaps both hold for good.
LEMMA InvAlways ==
  ASSUME ~Overlaps
  PROVE  Spec => [](MemberInv /\ AdminInv)
  <1>1. Init => MemberInv /\ AdminInv
    BY InvStarts
  <1>2. (MemberInv /\ AdminInv) /\ [Next]_vars => (MemberInv /\ AdminInv)'
    BY MemberInvStep, AdminInvStep
  <1> QED  BY <1>1, <1>2, PTL DEF Spec

\* Once the deletion of a user has run to its end, no session and no API key of the user is
\* accepted, whatever was being made or signed in meanwhile, unless a backfill that had read
\* the row before puts it back, or the seed makes the user anew (delete_user_endpoint,
\* put_user's callers, get_current_user, _authenticate_api_key).
THEOREM DeletedStayRefused ==
  ASSUME ~Overlaps
  PROVE  Spec => []DeletedAreRefused
  <1>1. MemberInv => DeletedAreRefused
    <2>1. SUFFICES ASSUME MemberInv, NEW u \in gone \ (late \union adopted)
                   PROVE  ~jwt_admits(u) /\ \A k \in Keys : keys[k].user = u => ~key_admits(k)
      BY DEF DeletedAreRefused
    <2>2. is_user_deleted(u)
      BY <2>1 DEF MemberInv, StoresOK, UserOK, Barred
    <2> QED  BY <2>2 DEF jwt_admits, key_admits
  <1> QED  BY <1>1, InvAlways, PTL

\* A user is an active member of at most one tenant, however the requests that make the
\* user, move it, archive its tenants and put its row back late are interleaved (ensure,
\* switch_tenant, delete_user_endpoint, archive_tenant, get_current_user), unless the seed
\* wrote over its row.
THEOREM MembershipsStaySingle ==
  ASSUME ~Overlaps
  PROVE  Spec => []OneMembership
  <1>1. MemberInv => OneMembership
    <2>1. SUFFICES ASSUME MemberInv, NEW u \in Users \ adopted
                   PROVE  Cardinality({t \in Tenants : ut[u][t] = "active"}) <= 1
      BY DEF OneMembership
    <2> DEFINE S == {t \in Tenants : ut[u][t] = "active"}
    <2>2. \A s, t \in S : s = t
      BY <2>1 DEF MemberInv, UserOK
    <2>3. CASE S = {}
      BY <2>3, FS_EmptySet
    <2>4. CASE S # {}
      <3>1. PICK e : S = {e}
        BY <2>2, <2>4
      <3>2. Cardinality({e}) = 1
        BY FS_Singleton
      <3> QED  BY <3>1, <3>2
    <2> QED  BY <2>3, <2>4
  <1> QED  BY <1>1, InvAlways, PTL

\* The last administrator goes only when requests under way were, at one moment, taking
\* every one of several away: whatever else is interleaved, one deletion, change of role or
\* late backfill never takes the last one, and neither do several of which one was counting
\* on an administrator nobody was taking (_count_active_admins, delete_user_endpoint,
\* _set_user_role, get_current_user).
THEOREM LastAdminStays ==
  ASSUME ~Overlaps
  PROVE  Spec => AnAdminRemains
  <1>1. MemberInv /\ AdminInv /\ [Next]_vars => [Admins # {} /\ Admins' = {} => cornered]_vars
    <2>1. SUFFICES ASSUME MemberInv, AdminInv, [Next]_vars, Admins # {}, Admins' = {} PROVE cornered
      OBVIOUS
    <2>2. ~Empty
      BY <2>1 DEF Admins, Empty, Live
    <2>3. ~SomeoneSafe
      <3>1. SUFFICES ASSUME SomeoneSafe PROVE FALSE
        OBVIOUS
      <3>2. StoreMove
        BY <2>1, StoreStep
      <3>3. PICK a \in Admins : \A p \in Procs : ~Threatens(p, a)
        BY <3>1 DEF SomeoneSafe
      <3>4. a \in Admins'
        BY <2>1, <3>2, <3>3, AdminStays
      <3> QED  BY <2>1, <3>4
    <2> QED  BY <2>1, <2>2, <2>3 DEF AdminInv
  <1> QED  BY <1>1, InvAlways, PTL DEF Spec, AnAdminRemains

-----------------------------------------------------------------------------
(* Tickets and signed requests. *)

\* A signature that was honoured has a nonce for as long as its date is in range.
UseInv ==
  /\ clock \in Nat
  /\ handed \in [Tickets \cup Signatures -> Nat]
  /\ nonces \in [Signatures -> Nat \cup {None}]
  /\ ticket \in [Tickets -> {"unminted", "live", "deleted"}]
  /\ \A x \in Tickets : handed[x] <= 1 /\ (ticket[x] # "deleted" => handed[x] = 0)
  /\ \A s \in Signatures :
       /\ handed[s] <= 1
       /\ \/ handed[s] = 0
          \/ clock > SignedAt + SKEW
          \/ nonces[s] # None /\ nonces[s] + SKEW >= SignedAt + NONCE_TTL

\* Every step keeps a used nonce refused for as long as its date is accepted, and a used ticket deleted.
LEMMA UseInvStep ==
  ASSUME UseInv, [Next]_vars
  PROVE  UseInv'
  <1> USE IdentityAssumption, NonceAssumption
  <1>n. None \notin Nat /\ SignedAt \in Nat /\ SKEW \in Nat /\ NONCE_TTL \in Nat /\ Tickets \cap Signatures = {}
    OBVIOUS
  <1>1. CASE UNCHANGED <<clock, handed, nonces, ticket>>
    BY <1>1 DEF UseInv
  <1>2. CASE tick
    BY <1>2, <1>n DEF UseInv, tick, stores
  <1>3. ASSUME NEW x \in Tickets, consume_ui_ticket(x) PROVE UseInv'
    BY <1>3, <1>n DEF UseInv, consume_ui_ticket, Once
  <1>4. ASSUME NEW by, NEW x \in Tickets, mint_ui_ticket(by, x) PROVE UseInv'
    BY <1>4, <1>n DEF UseInv, mint_ui_ticket, Once
  <1>5. ASSUME NEW s \in Signatures, purge_nonce(s) PROVE UseInv'
    <2>1. /\ nonces[s] # None /\ nonces[s] < clock /\ nonces' = [nonces EXCEPT ![s] = None]
          /\ UNCHANGED <<clock, handed, ticket>>
      BY <1>5 DEF purge_nonce
    <2>2. nonces[s] \in Nat /\ nonces' \in [Signatures -> Nat \cup {None}]
      BY <2>1 DEF UseInv
    <2>3. handed[s] = 0 \/ clock > SignedAt + SKEW
      <3>1. nonces[s] + SKEW >= SignedAt + NONCE_TTL => clock > SignedAt + SKEW
        BY <1>n, <2>1, <2>2 DEF UseInv
      <3> QED  BY <3>1 DEF UseInv
    <2>4. \A x \in Signatures : x # s => nonces'[x] = nonces[x]
      BY <2>1 DEF UseInv
    <2>5. ASSUME NEW x \in Signatures
          PROVE  /\ handed'[x] <= 1
                 /\ \/ handed'[x] = 0
                    \/ clock' > SignedAt + SKEW
                    \/ nonces'[x] # None /\ nonces'[x] + SKEW >= SignedAt + NONCE_TTL
      <3>1. CASE x = s
        <4>1. handed[s] <= 1
          BY DEF UseInv
        <4> QED  BY <2>1, <2>3, <3>1, <4>1
      <3>2. CASE x # s
        BY <2>1, <2>4, <3>2 DEF UseInv
      <3> QED  BY <3>1, <3>2
    <2> QED  BY <2>1, <2>2, <2>5 DEF UseInv
  <1>6. ASSUME NEW p, NEW s \in Signatures, NEW u, NEW arn, verify_and_call_sts(p, s, u, arn) PROVE UseInv'
    BY <1>6, <1>n DEF UseInv, verify_and_call_sts, consume_nonce, date_in_range, Start
  <1>7. ASSUME NEW p \in Procs, Begin(p)
        PROVE  \/ UNCHANGED <<clock, handed, nonces, ticket>>
               \/ \E s \in Signatures, u \in Users, arn \in Principals : verify_and_call_sts(p, s, u, arn)
    <2>1. ASSUME NEW by, NEW v, NEW role, NEW t, NEW owner, NEW scope, NEW e,
                 \/ backfill_read(p, v) \/ me_read(p, v) \/ set_user_role(p, by, v, role)
                 \/ assign_tenant(p, by, v, t, role) \/ archive_tenant(p, by, t)
                 \/ set_tenant_owner(p, by, t, owner)
                 \/ create_api_key_on_behalf(p, by, v, scope) \/ create_my_api_key(p, v, scope, e)
          PROVE  UNCHANGED <<clock, handed, nonces, ticket>>
      BY <2>1 DEF backfill_read, me_read, set_user_role, assign_tenant, archive_tenant,
         set_tenant_owner, create_api_key_on_behalf, create_my_api_key, new_key, stores, Start
    <2>2. ASSUME NEW by, NEW v, NEW role, NEW t,
                 create_user(p, by, v, role, t) \/ delete_user(p, by, v) \/ seed_bootstrap_admin(p)
          PROVE  UNCHANGED <<clock, handed, nonces, ticket>>
      BY <2>2 DEF create_user, delete_user, seed_bootstrap_admin, Start, GoWith
    <2> QED  BY <1>7, <2>1, <2>2, Zenon DEF Begin
  <1>8. ASSUME NEW p \in Procs, Continue(p) PROVE UNCHANGED <<clock, handed, nonces, ticket>>
    BY <1>8 DEF Continue, backfill_put, me_ensure, create_user_put, create_user_ensure,
         delete_user_mark, list_keys, revoke_keys, delete_user_archive, update_roles,
         set_user_role_sessions, switch_tenant, assign_tenant_signout, set_owner,
         archive_member, archive_flip, put_api_key, sso_new_user, sso_known_user, sso_put,
         sso_ensure, mark_consumed, sso_login, record_sso_login, abandon, Go, GoWith, End, stores
  <1>9. ASSUME Administer
        PROVE  \/ UNCHANGED <<clock, handed, nonces, ticket>>
               \/ \E by \in Users, x \in Tickets : mint_ui_ticket(by, x)
    BY <1>9 DEF Administer, revoke_my_api_key, revoke_any_api_key, create_own_tenant, create_tenant,
       create_trusted_account, update_trusted_account, delete_trusted_account, create_invite,
       delete_invite, Once
  <1>10. ASSUME \/ \E u \in Users : cognito_login(u)
                \/ seed_default_tenant
                \/ UNCHANGED vars
         PROVE  UNCHANGED <<clock, handed, nonces, ticket>>
    BY <1>10 DEF cognito_login, seed_default_tenant, vars, stores
  <1> QED
    BY <1>1, <1>2, <1>3, <1>4, <1>5, <1>6, <1>7, <1>8, <1>9, <1>10 DEF Next, Step

\* A UI ticket hands its tokens out once, and a signed STS request is honoured once however
\* late it is shown again and whenever the table drops its nonce: the nonce lives for twice
\* the tolerance of the date (ui_tickets.consume, SsoNonces.consume, verify_and_call_sts).
THEOREM NothingIsUsedTwice == Spec => []SingleUse
  <1>1. Init => UseInv
    <2>1. SUFFICES ASSUME Init PROVE UseInv
      OBVIOUS
    <2>2. /\ ticket = [x \in Tickets |-> "unminted"]
          /\ handed = [x \in Tickets \cup Signatures |-> 0]
          /\ nonces = [s \in Signatures |-> None]
          /\ clock = 0
      BY <2>1 DEF Init
    <2>3. /\ handed \in [Tickets \cup Signatures -> Nat]
          /\ \A x \in Tickets \cup Signatures : handed[x] = 0
      BY <2>2
    <2>4. nonces \in [Signatures -> Nat \cup {None}] /\ ticket \in [Tickets -> {"unminted", "live", "deleted"}]
      BY <2>2
    <2>5. 0 \in Nat /\ 0 <= 1
      OBVIOUS
    <2>6. \A x \in Tickets : handed[x] <= 1 /\ (ticket[x] # "deleted" => handed[x] = 0)
      BY <2>3, <2>5
    <2>7. \A s \in Signatures : handed[s] <= 1 /\ handed[s] = 0
      BY <2>3, <2>5
    <2>8. clock \in Nat
      BY <2>2
    <2> QED  BY <2>3, <2>4, <2>6, <2>7, <2>8 DEF UseInv
  <1>2. UseInv /\ [Next]_vars => UseInv'
    BY UseInvStep
  <1>3. UseInv => SingleUse
    BY DEF UseInv, SingleUse
  <1> QED  BY <1>1, <1>2, <1>3, PTL DEF Spec

=============================================================================
