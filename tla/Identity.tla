------------------------------ MODULE Identity ------------------------------
(***************************************************************************)
(* Who may act: the users table and its tombstones and session watermarks, *)
(* API keys, the SSO exchange, UI tickets, and the administrator's         *)
(* operations on users, tenants and memberships (mvp/deps.py, authz.py,    *)
(* admin_users.py, admin_tenants.py, team_lead.py, me.py, sso_*.py,        *)
(* ui_ticket.py, *_api_keys.py, bootstrap/seed.py and their repositories). *)
(*                                                                         *)
(* A request is a process in req: its handler runs one store access (or    *)
(* one group of reads with nothing written in between) per step, and may   *)
(* fail or die between any two steps.  A user id is a Cognito sub; an      *)
(* e-mail belongs to one sub.  put_user and ensure are one step each: they *)
(* read a row and put it back with nothing the properties tell apart       *)
(* between the two.                                                        *)
(***************************************************************************)
EXTENDS Naturals, FiniteSets

CONSTANTS Users,          \* Cognito subs
          Root,           \* the bootstrap administrator
          Legacy,         \* users whose row was written without an e-mail
          Tenants, DEFAULT_ORG, ADMIN_OWNED,
          Keys,           \* API key hashes
          Tickets,        \* UI tickets
          Signatures,     \* signed STS requests, each one nonce
          Principals,     \* AWS principals an SSO session can show
          SignedAt, SKEW, NONCE_TTL,  \* X-Amz-Date, its tolerance, the nonce's life
          Procs,          \* concurrent requests
          MAX_ACTIVE_KEYS_PER_USER,
          MaxOps, MaxClock,   \* bounds: requests started, clock
          Overlaps,       \* TRUE: operations the README names may overlap
          NoRow, NoKey, None

Roles == {"admin", "team_lead", "user"}

\* What a profile row and an API key row hold.
Rows == [status : {"active", "deleted"}, roles : {{role} : role \in Roles}, org : Tenants,
         after : Nat, method : {"cognito", "sso"}, arn : Principals \cup {None}, email : BOOLEAN]
KeyRows == [user : Users, scope : {"admin", "user"}, created : Nat, revoked : BOOLEAN,
            ephemeral : BOOLEAN, expires : Nat]

ASSUME IdentityAssumption ==
  /\ IsFiniteSet(Users) /\ Root \in Users /\ DEFAULT_ORG \in Tenants /\ Tenants # {DEFAULT_ORG}
  /\ {SignedAt, SKEW, NONCE_TTL, MaxOps, MaxClock} \subseteq Nat /\ Overlaps \in BOOLEAN
  /\ Tickets \cap Signatures = {} /\ ADMIN_OWNED \notin Users
  /\ NoRow \notin Rows /\ NoKey \notin KeyRows /\ None \notin Nat \cup Tenants \cup Principals

\* A nonce outlives the request it stands for: a request signed as late as the
\* tolerance allows is good for twice the tolerance.
ASSUME NonceAssumption == NONCE_TTL >= 2 * SKEW

VARIABLES users,    \* sub -> profile row, or NoRow
          pool,     \* subs Cognito knows (external)
          token,    \* sub -> issue time of its newest access token, or None
          ut,       \* sub -> tenant -> membership status
          tenants,  \* tenant -> status and owner
          keys,     \* key hash -> row, or NoKey
          ticket,   \* ticket -> "unminted", "live" or "deleted"
          handed,   \* ticket or signature -> times it was honoured
          nonces,   \* signature -> expiry of its stored nonce, or None
          account,  \* the trusted AWS account: "none", "invite_only" or "auto_provision"
          invite,   \* sub -> "none", "open" or "consumed"
          gone,     \* subs whose deletion has run to its end
          clock, ops, req,
          \* History, which no step reads (Remember):
          late,     \* subs whose row a backfill put over a newer one, until they are deleted anew
          adopted,  \* subs whose row the bootstrap seed wrote over
          cornered  \* requests were taking every one of several administrators away, and still none is safe
stores == <<users, pool, token, ut, tenants, keys, ticket, handed, nonces, account, invite, gone>>
history == <<late, adopted, cornered>>
vars == <<stores, clock, ops, req, history>>

Row(roles, org, method, arn) ==
  [status |-> "active", roles |-> roles, org |-> org, after |-> 0,
   method |-> method, arn |-> arn, email |-> TRUE]
Idle == [op |-> "idle"]
Live(u) == users[u] # NoRow /\ users[u].status # "deleted"

---------------------------------------------------------------------------
(* Authentication and permission                                          *)

\* is_user_deleted, is_token_revoked: a token older than the watermark is dead.
is_user_deleted(u) == users[u] # NoRow /\ users[u].status = "deleted"
is_token_revoked(u, iat) == users[u] # NoRow /\ iat < users[u].after

\* get_current_user with a Cognito token, for a sub that has a row.
jwt_admits(u) == /\ token[u] # None
                 /\ users[u] # NoRow
                 /\ ~is_user_deleted(u)
                 /\ ~is_token_revoked(u, token[u])
                 /\ users[u].roles # {}

\* _authenticate_api_key: the key's row, then its owner's.
key_admits(k) == /\ keys[k] # NoKey
                 /\ ~keys[k].revoked
                 /\ clock < keys[k].expires
                 /\ users[keys[k].user] # NoRow
                 /\ ~is_user_deleted(keys[k].user)
                 /\ ~is_token_revoked(keys[k].user, keys[k].created)

\* A permission is named by the least role that holds it; an administrator
\* holds a lead's, and everybody a user's.
grants(held, needed) == \/ held = needed
                        \/ needed = "user"
                        \/ needed = "team_lead" /\ held = "admin"
has_permission(roles, needed) == \E role \in roles : grants(role, needed)

\* user_has_permission: an API key needs the scope and its owner the role.
user_has_permission(u, needed) ==
  \/ jwt_admits(u) /\ has_permission(users[u].roles, needed)
  \/ \E k \in Keys : /\ key_admits(k) /\ keys[k].user = u
                     /\ grants(keys[k].scope, needed)
                     /\ has_permission(users[u].roles, needed)

\* Mutant: a tombstone counts.
count_active_adminsM == Cardinality({u \in Users : users[u] # NoRow /\ "admin" \in users[u].roles})
\* admin_users._count_active_admins: tombstones do not count.
count_active_admins == Cardinality({u \in Users : Live(u) /\ "admin" \in users[u].roles})
tenants_owned_by(u) == {t \in Tenants : tenants[t].owner = u /\ tenants[t].status = "active"}

\* TenantsRepository.get hides an archived tenant.
tenant_exists(t) == tenants[t].status = "active"

---------------------------------------------------------------------------
(* Requests                                                                *)

Start(p, r) == /\ req[p] = Idle /\ ops < MaxOps
               /\ ops' = ops + 1
               /\ req' = [req EXCEPT ![p] = r]
               /\ UNCHANGED clock
Go(p, at) == req' = [req EXCEPT ![p].at = at] /\ UNCHANGED <<clock, ops>>
GoWith(p, r) == req' = [req EXCEPT ![p] = r] /\ UNCHANGED <<clock, ops>>
End(p) == req' = [req EXCEPT ![p] = Idle] /\ UNCHANGED <<clock, ops>>
At(p, op, at) == req[p].op = op /\ req[p].at = at
\* A request of one write, started and answered in one step.
Once == ops < MaxOps /\ ops' = ops + 1 /\ UNCHANGED <<clock, req>>

\* u is being created: its row or its membership is still to be put.
BeingMade(u) ==
  \E p \in Procs : /\ req[p].op \in {"create", "sso"} /\ req[p].at \in {"put", "ensure"}
                   /\ req[p].u = u
                   /\ req[p].op = "create" => req[p].revive

---------------------------------------------------------------------------
(* The users table                                                         *)

\* put_user writes a whole row: it carries the SSO binding over from the row
\* it replaces, and neither the tombstone nor the watermark.
put_user(u, roles, org, method, arn) ==
  LET old == users[u] IN
  users' = [users EXCEPT ![u] =
    Row(roles, org,
        IF method # None THEN method ELSE IF old # NoRow THEN old.method ELSE "cognito",
        IF arn # None THEN arn ELSE IF old # NoRow THEN old.arn ELSE None)]
\* Mutant: the watermark moves and the tombstone is not written.
mark_deletedM(u) == users' = IF users[u] = NoRow THEN users ELSE [users EXCEPT ![u].after = clock]
mark_deleted(u) ==
  users' = IF users[u] = NoRow THEN users
           ELSE [users EXCEPT ![u].status = "deleted", ![u].after = clock]
revoke_all_sessions(u) ==
  users' = IF users[u] = NoRow THEN users ELSE [users EXCEPT ![u].after = clock]

\* Mutant: an archived membership comes back whoever asks.
ensureM(u, t, allow_resurrection) ==
  ut' = IF ut[u][t] # "active" THEN [ut EXCEPT ![u][t] = "active"] ELSE ut
\* UserTenantsRepository.ensure: an archived membership comes back only where
\* the caller asks for it.  Its second guard looks the tenant up with get,
\* which hides an archived one, so it refuses nothing.
ensure(u, t, allow_resurrection) ==
  ut' = IF ut[u][t] = "none" \/ (ut[u][t] = "archived" /\ allow_resurrection)
        THEN [ut EXCEPT ![u][t] = "active"] ELSE ut

\* revoke_all_for_user lists the keys that are not revoked, then revokes each.
unrevoked(u) == {k \in Keys : keys[k] # NoKey /\ keys[k].user = u /\ ~keys[k].revoked}
revoke_each(ks) == keys' = [k \in Keys |-> IF k \in ks THEN [keys[k] EXCEPT !.revoked = TRUE] ELSE keys[k]]

---------------------------------------------------------------------------
(* Signing in: Cognito (external), the backfill of get_current_user, me    *)

\* A user signs in when it has no session that would be accepted, and not before
\* the answer of create_user, which is what the password comes with.
cognito_login(u) ==
  /\ u \in pool /\ (Overlaps \/ ~BeingMade(u))
  /\ token[u] # None => is_token_revoked(u, token[u]) /\ token[u] # clock
  /\ token' = [token EXCEPT ![u] = clock]
  /\ UNCHANGED <<users, pool, ut, tenants, keys, ticket, handed, nonces, account, invite, gone, clock, ops, req>>

\* get_current_user reads a row without an e-mail and means to put it back with
\* one: it puts the tenant and the roles it read, whatever the row has become.
backfill_read(p, u) ==
  /\ users[u] # NoRow /\ ~users[u].email /\ jwt_admits(u)
  /\ Start(p, [op |-> "backfill", at |-> "put", u |-> u, row |-> users[u]])
  /\ UNCHANGED stores
backfill_put(p) ==
  LET r == req[p] IN
  /\ At(p, "backfill", "put")
  /\ put_user(r.u, r.row.roles, r.row.org, None, None)
  /\ End(p)
  /\ UNCHANGED <<pool, token, ut, tenants, keys, ticket, handed, nonces, account, invite, gone>>

\* me, and the deprecated credit endpoint: the caller's row was read at
\* authentication, and the membership of the tenant it named is ensured after.
me_read(p, u) ==
  /\ jwt_admits(u)
  /\ Start(p, [op |-> "me", at |-> "ensure", u |-> u, t |-> users[u].org])
  /\ UNCHANGED stores
me_ensure(p) ==
  /\ At(p, "me", "ensure")
  /\ ensure(req[p].u, req[p].t, FALSE)
  /\ End(p)
  /\ UNCHANGED <<users, pool, token, tenants, keys, ticket, handed, nonces, account, invite, gone>>

---------------------------------------------------------------------------
(* admin_users.py                                                          *)

\* create_user: the tenant and Cognito, then the profile, then the membership.
create_user(p, by, u, role, t) ==
  /\ user_has_permission(by, "admin")
  /\ tenant_exists(t) /\ u \notin pool /\ users[u] = NoRow
  /\ Start(p, [op |-> "create", at |-> "put", u |-> u, role |-> role, t |-> t, revive |-> TRUE])
  /\ pool' = pool \union {u}
  /\ UNCHANGED <<users, token, ut, tenants, keys, ticket, handed, nonces, account, invite, gone>>
create_user_put(p) ==
  LET r == req[p] IN
  /\ At(p, "create", "put")
  /\ put_user(r.u, {r.role}, r.t, None, None)
  /\ Go(p, "ensure")
  /\ UNCHANGED <<pool, token, ut, tenants, keys, ticket, handed, nonces, account, invite, gone>>
create_user_ensure(p) ==
  /\ At(p, "create", "ensure")
  /\ ensure(req[p].u, req[p].t, req[p].revive)
  /\ End(p)
  /\ UNCHANGED <<users, pool, token, tenants, keys, ticket, handed, nonces, account, invite, gone>>

\* delete_user_endpoint: the checks and Cognito, the tombstone, the keys, the
\* memberships.  A tombstone can be deleted again.  Nothing holds the count of
\* the administrators between the check and the tombstone.
delete_user(p, by, u) ==
  /\ user_has_permission(by, "admin")
  /\ users[u] # NoRow
  /\ ~("admin" \in users[u].roles /\ count_active_admins <= 1)
  /\ u # by
  /\ Start(p, [op |-> "delete", at |-> "mark", u |-> u])
  /\ pool' = IF users[u].email THEN pool \ {u} ELSE pool
  /\ UNCHANGED <<users, token, ut, tenants, keys, ticket, handed, nonces, account, invite, gone>>
delete_user_mark(p) ==
  /\ At(p, "delete", "mark")
  /\ mark_deleted(req[p].u)
  /\ Go(p, "list")
  /\ UNCHANGED <<pool, token, ut, tenants, keys, ticket, handed, nonces, account, invite, gone>>
\* revoke_all_for_user, for a deletion or a change of tenant: a failure to
\* revoke is logged and the handler goes on.
list_keys(p) ==
  /\ req[p].op \in {"delete", "role"} /\ req[p].at = "list"
  /\ GoWith(p, [op |-> req[p].op, at |-> "revoke", u |-> req[p].u, todo |-> unrevoked(req[p].u)])
  /\ UNCHANGED stores
revoke_keys(p) ==
  /\ req[p].op \in {"delete", "role"} /\ req[p].at = "revoke"
  /\ \E done \in {{}, req[p].todo} : revoke_each(done)
  /\ IF req[p].op = "delete" THEN Go(p, "archive") ELSE End(p)
  /\ UNCHANGED <<users, pool, token, ut, tenants, ticket, handed, nonces, account, invite, gone>>
delete_user_archive(p) ==
  LET u == req[p].u IN
  /\ At(p, "delete", "archive")
  /\ ut' = [ut EXCEPT ![u] = [t \in Tenants |-> IF @[t] = "active" THEN "archived" ELSE @[t]]]
  /\ gone' = gone \union {u}
  /\ End(p)
  /\ UNCHANGED <<users, pool, token, tenants, keys, ticket, handed, nonces, account, invite>>

\* _set_user_role reads, counts and writes with the roles it read as the
\* condition; the count is of no write.  What follows is nothing, or the rest
\* of assign_tenant.
RoleChecks(u, role) ==
  /\ users[u] # NoRow
  /\ ~("admin" \in users[u].roles /\ role # "admin" /\ count_active_admins <= 1)
  /\ ~("team_lead" \in users[u].roles /\ role # "team_lead" /\ tenants_owned_by(u) # {})
set_user_role(p, by, u, role) ==
  /\ jwt_admits(by) /\ has_permission(users[by].roles, "admin")
  /\ RoleChecks(u, role) /\ users[u].roles # {role}
  /\ Start(p, [op |-> "role", at |-> "write", u |-> u, role |-> role, seen |-> users[u].roles, t |-> None])
  /\ UNCHANGED stores
\* assign_tenant: the same role write first, unless the role does not change.
assign_tenant(p, by, u, t, role) ==
  /\ user_has_permission(by, "admin")
  /\ users[u] # NoRow /\ users[u].org # t /\ tenant_exists(t)
  /\ RoleChecks(u, role)
  /\ Start(p, [op |-> "role", at |-> IF users[u].roles = {role} THEN "switch" ELSE "write",
               u |-> u, role |-> role, seen |-> users[u].roles, t |-> t, old |-> users[u].org])
  /\ UNCHANGED stores
update_roles(p) ==
  LET r == req[p] IN
  /\ At(p, "role", "write")
  /\ \/ /\ users[r.u].roles = r.seen
        /\ users' = [users EXCEPT ![r.u].roles = {r.role}]
        /\ Go(p, "sessions")
     \/ /\ users[r.u].roles # r.seen
        /\ End(p) /\ UNCHANGED users
  /\ UNCHANGED <<pool, token, ut, tenants, keys, ticket, handed, nonces, account, invite, gone>>
set_user_role_sessions(p) ==
  LET r == req[p] IN
  /\ At(p, "role", "sessions")
  /\ revoke_all_sessions(r.u)
  /\ IF r.t = None THEN End(p) ELSE Go(p, "switch")
  /\ UNCHANGED <<pool, token, ut, tenants, keys, ticket, handed, nonces, account, invite, gone>>
\* switch_tenant: one transaction over the two memberships and the profile.
switch_tenant(p) ==
  LET r == req[p] IN
  /\ At(p, "role", "switch")
  /\ \/ /\ ut[r.u][r.old] = "active" /\ ut[r.u][r.t] # "active"
        /\ ut' = [ut EXCEPT ![r.u][r.old] = "archived", ![r.u][r.t] = "active"]
        /\ users' = [users EXCEPT ![r.u].org = r.t]
        /\ Go(p, "signout")
     \/ /\ ~(ut[r.u][r.old] = "active" /\ ut[r.u][r.t] # "active")
        /\ End(p) /\ UNCHANGED <<users, ut>>
  /\ UNCHANGED <<pool, token, tenants, keys, ticket, handed, nonces, account, invite, gone>>
assign_tenant_signout(p) ==
  /\ At(p, "role", "signout")
  /\ revoke_all_sessions(req[p].u)
  /\ Go(p, "list")
  /\ UNCHANGED <<pool, token, ut, tenants, keys, ticket, handed, nonces, account, invite, gone>>

---------------------------------------------------------------------------
(* admin_tenants.py and team_lead.py                                       *)

verify_team_lead(u) == u # ADMIN_OWNED => users[u] # NoRow /\ "team_lead" \in users[u].roles

put_tenant(t, owner) ==
  /\ tenants[t].status = "none"
  /\ tenants' = [tenants EXCEPT ![t] = [status |-> "active", owner |-> owner]]
\* create_tenant, by an administrator for a lead, and by a lead for itself.
create_tenant(by, t, owner) ==
  /\ user_has_permission(by, "admin") /\ verify_team_lead(owner)
  /\ put_tenant(t, owner)
  /\ Once
  /\ UNCHANGED <<users, pool, token, ut, keys, ticket, handed, nonces, account, invite, gone>>
create_own_tenant(by, t) ==
  /\ user_has_permission(by, "team_lead")
  /\ put_tenant(t, by)
  /\ Once
  /\ UNCHANGED <<users, pool, token, ut, keys, ticket, handed, nonces, account, invite, gone>>

\* set_tenant_owner verifies the lead, then writes; the write only needs the row.
set_tenant_owner(p, by, t, owner) ==
  /\ user_has_permission(by, "admin")
  /\ verify_team_lead(owner) /\ tenant_exists(t)
  /\ Start(p, [op |-> "owner", at |-> "write", t |-> t, owner |-> owner])
  /\ UNCHANGED stores
set_owner(p) ==
  /\ At(p, "owner", "write")
  /\ tenants' = [tenants EXCEPT ![req[p].t].owner = req[p].owner]
  /\ End(p)
  /\ UNCHANGED <<users, pool, token, ut, keys, ticket, handed, nonces, account, invite, gone>>

\* archive_tenant: the members the scan saw, one by one, then the tenant.  A
\* member that is no longer active fails its condition and ends the request.
archive_tenant(p, by, t) ==
  /\ user_has_permission(by, "admin")
  /\ t # DEFAULT_ORG /\ tenant_exists(t)
  /\ Start(p, [op |-> "archive", at |-> "members", t |-> t,
               todo |-> {u \in Users : ut[u][t] = "active"}])
  /\ UNCHANGED stores
archive_member(p) ==
  LET r == req[p] IN
  /\ At(p, "archive", "members") /\ r.todo # {}
  /\ \E u \in r.todo :
       IF ut[u][r.t] = "active"
       THEN /\ ut' = [ut EXCEPT ![u][r.t] = "archived"]
            /\ GoWith(p, [r EXCEPT !.todo = @ \ {u}])
       ELSE End(p) /\ UNCHANGED ut
  /\ UNCHANGED <<users, pool, token, tenants, keys, ticket, handed, nonces, account, invite, gone>>
archive_flip(p) ==
  LET r == req[p] IN
  /\ At(p, "archive", "members") /\ r.todo = {}
  /\ tenants' = [tenants EXCEPT ![r.t].status = "archived"]
  /\ End(p)
  /\ UNCHANGED <<users, pool, token, ut, keys, ticket, handed, nonces, account, invite, gone>>

---------------------------------------------------------------------------
(* API keys: me_api_keys.py, admin_api_keys.py, dynamo/api_keys.py         *)

Never == MaxClock + 1
count_active(u) ==
  Cardinality({k \in Keys : /\ keys[k] # NoKey /\ keys[k].user = u /\ ~keys[k].revoked
                            /\ ~keys[k].ephemeral /\ clock < keys[k].expires})
\* Self-service, by a session and never by a key, or by an administrator on a
\* user's behalf; the scope is checked against the target's roles, and the
\* count before the put.
new_key(p, u, scope, ephemeral) ==
  /\ has_permission(users[u].roles, scope)
  /\ ephemeral \/ count_active(u) < MAX_ACTIVE_KEYS_PER_USER
  /\ Start(p, [op |-> "key", at |-> "put", u |-> u, scope |-> scope, ephemeral |-> ephemeral])
  /\ UNCHANGED stores
create_my_api_key(p, u, scope, ephemeral) ==
  /\ jwt_admits(u)
  /\ new_key(p, u, scope, ephemeral)
create_api_key_on_behalf(p, by, u, scope) ==
  /\ jwt_admits(by) /\ has_permission(users[by].roles, "admin")
  /\ users[u] # NoRow
  /\ new_key(p, u, scope, FALSE)
put_api_key(p, k) ==
  LET r == req[p] IN
  /\ At(p, "key", "put") /\ keys[k] = NoKey
  /\ keys' = [keys EXCEPT ![k] =
       [user |-> r.u, scope |-> r.scope, created |-> clock, revoked |-> FALSE,
        ephemeral |-> r.ephemeral, expires |-> IF r.ephemeral THEN clock + 1 ELSE Never]]
  /\ End(p)
  /\ UNCHANGED <<users, pool, token, ut, tenants, ticket, handed, nonces, account, invite, gone>>
revoke_my_api_key(by, k) ==
  /\ keys[k] # NoKey /\ keys[k].user = by /\ user_has_permission(by, "user")
  /\ revoke_each({k})
  /\ Once
  /\ UNCHANGED <<users, pool, token, ut, tenants, ticket, handed, nonces, account, invite, gone>>
revoke_any_api_key(by, k) ==
  /\ keys[k] # NoKey /\ ~keys[k].revoked /\ user_has_permission(by, "admin")
  /\ revoke_each({k})
  /\ Once
  /\ UNCHANGED <<users, pool, token, ut, tenants, ticket, handed, nonces, account, invite, gone>>

---------------------------------------------------------------------------
(* UI tickets                                                              *)

mint_ui_ticket(u, x) ==
  /\ jwt_admits(u) /\ ticket[x] = "unminted"
  /\ ticket' = [ticket EXCEPT ![x] = "live"]
  /\ Once
  /\ UNCHANGED <<users, pool, token, ut, tenants, keys, handed, nonces, account, invite, gone>>
\* consume deletes the row on condition that it exists and hands back what it
\* held, unless it had expired by then.
consume_ui_ticket(x) ==
  /\ ticket[x] = "live"
  /\ ticket' = [ticket EXCEPT ![x] = "deleted"]
  /\ \E expired \in BOOLEAN : handed' = IF expired THEN handed ELSE [handed EXCEPT ![x] = @ + 1]
  /\ Once
  /\ UNCHANGED <<users, pool, token, ut, tenants, keys, nonces, account, invite, gone>>

---------------------------------------------------------------------------
(* SSO: sso_sts.py, sso_gate.py, sso_exchange.py and their tables          *)

date_in_range == clock <= SignedAt + SKEW /\ SignedAt <= clock + SKEW
\* Mutant: the nonce is kept for the tolerance, half of the time the request is valid.
consume_nonceM(sig) ==
  /\ nonces[sig] = None
  /\ nonces' = [nonces EXCEPT ![sig] = clock + SKEW]
  /\ handed' = [handed EXCEPT ![sig] = @ + 1]
consume_nonce(sig) ==
  /\ nonces[sig] = None
  /\ nonces' = [nonces EXCEPT ![sig] = clock + NONCE_TTL]
  /\ handed' = [handed EXCEPT ![sig] = @ + 1]
\* verify_and_call_sts: the date is in range and the nonce is new; the nonce is
\* kept for NONCE_TTL and the table's TTL removes it some time after that.
verify_and_call_sts(p, sig, u, arn) ==
  /\ date_in_range
  /\ consume_nonce(sig)
  /\ Start(p, [op |-> "sso", at |-> "gate", u |-> u, arn |-> arn])
  /\ UNCHANGED <<users, pool, token, ut, tenants, keys, ticket, account, invite, gone>>
purge_nonce(sig) ==
  /\ nonces[sig] # None /\ nonces[sig] < clock
  /\ nonces' = [nonces EXCEPT ![sig] = None]
  /\ UNCHANGED <<users, pool, token, ut, tenants, keys, ticket, handed, account, invite, gone, clock, ops, req>>

\* validate_sso_identity: a trusted account, and an invite or auto-provisioning.
\* An invite says the role; auto-provisioning makes plain users.
validate_sso_identity(u) == account # "none" /\ (invite[u] # "none" \/ account = "auto_provision")
invited_roles(u) == IF invite[u] # "none" THEN {"user", "team_lead"} ELSE {"user"}
principal_matches(u, arn) == users[u].arn \in {None, arn}

\* sso_exchange after the gate: a new user is made in Cognito first; an
\* existing one must be an SSO user bound to this principal; it was made by an
\* exchange that is over, unless Overlaps.
sso_new_user(p, role, t) ==
  LET r == req[p] IN
  /\ At(p, "sso", "gate") /\ validate_sso_identity(r.u) /\ tenant_exists(t)
  /\ users[r.u] = NoRow /\ r.u \notin pool /\ role \in invited_roles(r.u)
  /\ pool' = pool \union {r.u}
  /\ GoWith(p, [op |-> "sso", at |-> "put", u |-> r.u, arn |-> r.arn, role |-> role, t |-> t])
  /\ UNCHANGED <<users, token, ut, tenants, keys, ticket, handed, nonces, account, invite, gone>>
sso_known_user(p) ==
  LET r == req[p] IN
  /\ At(p, "sso", "gate") /\ validate_sso_identity(r.u)
  /\ users[r.u] # NoRow /\ users[r.u].method = "sso" /\ principal_matches(r.u, r.arn)
  /\ Overlaps \/ ~BeingMade(r.u)
  /\ Go(p, "login")
  /\ UNCHANGED stores
sso_put(p) ==
  LET r == req[p] IN
  /\ At(p, "sso", "put")
  /\ put_user(r.u, {r.role}, r.t, "sso", r.arn)
  /\ Go(p, "ensure")
  /\ UNCHANGED <<pool, token, ut, tenants, keys, ticket, handed, nonces, account, invite, gone>>
sso_ensure(p) ==
  /\ At(p, "sso", "ensure")
  /\ ensure(req[p].u, req[p].t, TRUE)
  /\ Go(p, "consume")
  /\ UNCHANGED <<users, pool, token, tenants, keys, ticket, handed, nonces, account, invite, gone>>
mark_consumed(p) ==
  LET u == req[p].u IN
  /\ At(p, "sso", "consume")
  /\ invite' = IF invite[u] = "open" THEN [invite EXCEPT ![u] = "consumed"] ELSE invite
  /\ Go(p, "login")
  /\ UNCHANGED <<users, pool, token, ut, tenants, keys, ticket, handed, nonces, account, gone>>
\* A one-time password, a sign-in with it and its rotation; Cognito must know the sub.
sso_login(p) ==
  LET u == req[p].u IN
  /\ At(p, "sso", "login")
  /\ IF u \in pool THEN token' = [token EXCEPT ![u] = clock] /\ Go(p, "record")
                   ELSE End(p) /\ UNCHANGED token
  /\ UNCHANGED <<users, pool, ut, tenants, keys, ticket, handed, nonces, account, invite, gone>>
record_sso_login(p) ==
  LET r == req[p] IN
  /\ At(p, "sso", "record")
  /\ users' = [users EXCEPT ![r.u].arn = r.arn]
  /\ End(p)
  /\ UNCHANGED <<pool, token, ut, tenants, keys, ticket, handed, nonces, account, invite, gone>>

\* admin_trusted_accounts.py, admin_sso_invites.py
create_trusted_account(by, policy) ==
  /\ user_has_permission(by, "admin") /\ account = "none"
  /\ account' = policy
  /\ Once
  /\ UNCHANGED <<users, pool, token, ut, tenants, keys, ticket, handed, nonces, invite, gone>>
update_trusted_account(by, policy) ==
  /\ user_has_permission(by, "admin") /\ account \notin {"none", policy}
  /\ account' = policy
  /\ Once
  /\ UNCHANGED <<users, pool, token, ut, tenants, keys, ticket, handed, nonces, invite, gone>>
delete_trusted_account(by) ==
  /\ user_has_permission(by, "admin") /\ account # "none"
  /\ account' = "none"
  /\ Once
  /\ UNCHANGED <<users, pool, token, ut, tenants, keys, ticket, handed, nonces, invite, gone>>
create_invite(by, u) ==
  /\ user_has_permission(by, "admin") /\ account # "none" /\ invite[u] = "none"
  /\ invite' = [invite EXCEPT ![u] = "open"]
  /\ Once
  /\ UNCHANGED <<users, pool, token, ut, tenants, keys, ticket, handed, nonces, account, gone>>
delete_invite(by, u) ==
  /\ user_has_permission(by, "admin") /\ invite[u] # "none"
  /\ invite' = [invite EXCEPT ![u] = "none"]
  /\ Once
  /\ UNCHANGED <<users, pool, token, ut, tenants, keys, ticket, handed, nonces, account, gone>>

---------------------------------------------------------------------------
(* Start-up, failure and time                                              *)

seed_default_tenant ==
  /\ put_tenant(DEFAULT_ORG, ADMIN_OWNED)
  /\ UNCHANGED <<users, pool, token, ut, keys, ticket, handed, nonces, account, invite, gone, clock, ops, req>>
\* seed_bootstrap_admin runs when no row, deleted or not, holds the role, in
\* the worker that starts first.  It makes the bootstrap user in Cognito or
\* adopts the one that is there, whose row it then writes over; where Cognito
\* has lost a user who had a row, it gets a sub without one.
seed_bootstrap_admin(p) ==
  /\ \A q \in Procs : req[q] = Idle
  /\ ~\E u \in Users : users[u] # NoRow /\ "admin" \in users[u].roles
  /\ \E u \in Users :
       /\ IF Root \in pool \/ users[Root] = NoRow THEN u = Root ELSE users[u] = NoRow
       /\ pool' = pool \union {u}
       /\ GoWith(p, [op |-> "create", at |-> "put", u |-> u, role |-> "admin", t |-> DEFAULT_ORG, revive |-> FALSE])
  /\ UNCHANGED <<users, token, ut, tenants, keys, ticket, handed, nonces, account, invite, gone>>

\* A call to Cognito, STS or the store fails, the gate refuses, or the worker dies.
abandon(p) == req[p] # Idle /\ End(p) /\ UNCHANGED stores
tick == /\ clock < MaxClock /\ clock' = clock + 1
        /\ UNCHANGED <<stores, ops, req>>

\* An empty system before its first start, or one with its administrator and
\* perhaps one more user, whose row an older release wrote: a second
\* administrator, or a lead who signs in with SSO and belongs to a second tenant.
LegacyRow(s) ==
  [(IF s.policy = "none" THEN Row({s.role}, DEFAULT_ORG, "cognito", None)
    ELSE Row({s.role}, CHOOSE t \in Tenants : t # DEFAULT_ORG, "sso", None)) EXCEPT !.email = FALSE]
Starts == {[root |-> FALSE, role |-> "none", policy |-> "none"],
           [root |-> TRUE, role |-> "admin", policy |-> "none"],
           [root |-> TRUE, role |-> "team_lead", policy |-> "invite_only"],
           [root |-> TRUE, role |-> "none", policy |-> "auto_provision"]}
Init ==
  /\ \E s \in Starts :
       /\ users = [u \in Users |->
            CASE u = Root /\ s.root -> Row({"admin"}, DEFAULT_ORG, "cognito", None)
              [] u \in Legacy \ {Root} /\ s.role # "none" -> LegacyRow(s)
              [] OTHER -> NoRow]
       /\ pool = {u \in Users : users[u] # NoRow}
       /\ ut = [u \in Users |-> [t \in Tenants |->
                IF users[u] # NoRow /\ users[u].org = t THEN "active" ELSE "none"]]
       /\ tenants = [t \in Tenants |->
            [status |-> IF s.root /\ (t = DEFAULT_ORG \/ s.policy # "none") THEN "active" ELSE "none", owner |-> ADMIN_OWNED]]
       /\ account = s.policy
  /\ token = [u \in Users |-> IF u \in pool THEN 0 ELSE None]
  /\ keys = [k \in Keys |-> NoKey]
  /\ ticket = [x \in Tickets |-> "unminted"]
  /\ handed = [x \in Tickets \union Signatures |-> 0]
  /\ nonces = [s \in Signatures |-> None]
  /\ invite = [u \in Users |-> "none"]
  /\ gone = {} /\ clock = 0 /\ ops = 0
  /\ req = [p \in Procs |-> Idle]
  /\ late = {} /\ adopted = {} /\ cornered = FALSE

Administer ==
  \E by \in Users :
    \/ \E k \in Keys : revoke_my_api_key(by, k) \/ revoke_any_api_key(by, k)
    \/ \E t \in Tenants : create_own_tenant(by, t) \/ \E owner \in Users \union {ADMIN_OWNED} : create_tenant(by, t, owner)
    \/ \E policy \in {"invite_only", "auto_provision"} :
         create_trusted_account(by, policy) \/ update_trusted_account(by, policy)
    \/ delete_trusted_account(by)
    \/ \E u \in Users : create_invite(by, u) \/ delete_invite(by, u)
    \/ \E x \in Tickets : mint_ui_ticket(by, x)
Begin(p) ==
  \/ \E u \in Users : backfill_read(p, u) \/ me_read(p, u)
  \/ \E by, u \in Users :
       \/ delete_user(p, by, u)
       \/ \E role \in Roles : set_user_role(p, by, u, role)
       \/ \E role \in Roles, t \in Tenants : create_user(p, by, u, role, t) \/ assign_tenant(p, by, u, t, role)
       \/ \E scope \in {"admin", "user"} :
            create_api_key_on_behalf(p, by, u, scope) \/ \E e \in BOOLEAN : by = u /\ create_my_api_key(p, u, scope, e)
  \/ \E by \in Users, t \in Tenants :
       \/ archive_tenant(p, by, t)
       \/ \E owner \in Users \union {ADMIN_OWNED} : set_tenant_owner(p, by, t, owner)
  \/ \E sig \in Signatures, u \in Users, arn \in Principals : verify_and_call_sts(p, sig, u, arn)
  \/ seed_bootstrap_admin(p)
Continue(p) ==
  \/ backfill_put(p) \/ me_ensure(p) \/ create_user_put(p) \/ create_user_ensure(p)
  \/ delete_user_mark(p) \/ list_keys(p) \/ revoke_keys(p) \/ delete_user_archive(p)
  \/ update_roles(p) \/ set_user_role_sessions(p) \/ switch_tenant(p) \/ assign_tenant_signout(p)
  \/ set_owner(p) \/ archive_member(p) \/ archive_flip(p)
  \/ \E k \in Keys : put_api_key(p, k)
  \/ \E role \in Roles, t \in Tenants : sso_new_user(p, role, t)
  \/ sso_known_user(p) \/ sso_put(p) \/ sso_ensure(p) \/ mark_consumed(p)
  \/ sso_login(p) \/ record_sso_login(p) \/ abandon(p)
Step ==
  \/ Administer
  \/ \E p \in Procs : Begin(p) \/ Continue(p)
  \/ \E u \in Users : cognito_login(u)
  \/ \E x \in Tickets : consume_ui_ticket(x)
  \/ \E s \in Signatures : purge_nonce(s)
  \/ seed_default_tenant
  \/ tick

---------------------------------------------------------------------------
(* History                                                                 *)

\* A step in which the request of p, a backfill or a creation, puts the row of u.
PutBy(p, op, u) == /\ At(p, op, "put") /\ req[p].u = u
                   /\ req'[p] # req[p] /\ users'[u] # users[u]
PutLate(u) == \E p \in Procs : PutBy(p, "backfill", u) /\ req[p].row # users[u]
PutOver(u) == users[u] # NoRow /\ \E p \in Procs : PutBy(p, "create", u)

\* The administrators, and the requests about to take one away: a deletion
\* before its tombstone, a change of role before its write, and a backfill
\* that read the row before it held the role.
Admins == {u \in Users : Live(u) /\ "admin" \in users[u].roles}
Threatens(p, u) ==
  \/ At(p, "delete", "mark") /\ req[p].u = u
  \/ At(p, "role", "write") /\ req[p].u = u /\ "admin" \in req[p].seen /\ req[p].role # "admin"
  \/ At(p, "backfill", "put") /\ req[p].u = u /\ "admin" \notin req[p].row.roles
SomeoneSafe == \E u \in Admins : \A p \in Procs : ~Threatens(p, u)

Remember ==
  /\ late' = {u \in Users : (u \in late \/ PutLate(u)) /\ ~is_user_deleted(u)'}
  /\ adopted' = adopted \union {u \in Users : PutOver(u)}
  /\ cornered' = (~SomeoneSafe' /\ (cornered \/ Cardinality(Admins') > 1))

Next == Step /\ Remember
Spec == Init /\ [][Next]_vars

---------------------------------------------------------------------------
(* Properties                                                              *)

\* Once a deletion has run to its end, no session and no API key of that user
\* is accepted, whichever keys were being made or sign-ins were under way
\* while it ran (delete_user_endpoint, get_current_user, _authenticate_api_key);
\* but a backfill that had read the row before may put it back, and the seed
\* may make its user anew.
DeletedAreRefused ==
  \A u \in gone \ (late \union adopted) :
    /\ ~jwt_admits(u)
    /\ \A k \in Keys : keys[k] # NoKey /\ keys[k].user = u => ~key_admits(k)

\* A user is an active member of at most one tenant: a move archives one
\* membership and makes the other in one transaction, and a late request that
\* still names the old tenant, or a backfill that puts it back into the row,
\* does not bring it back (switch_tenant, ensure).  The seed alone makes a
\* member of the default tenant of a user who may belong to another.
OneMembership == \A u \in Users \ adopted : Cardinality({t \in Tenants : ut[u][t] = "active"}) <= 1

\* The last administrator goes only when, at one moment, requests under way
\* were taking every one of several administrators away: one deletion or
\* change of role never takes the last one, nor do several that were not all
\* counting on each other (_count_active_admins, delete_user_endpoint,
\* _set_user_role, which accepts the race of two counts).
AnAdminRemains == [][Admins # {} /\ Admins' = {} => cornered]_vars

\* A UI ticket hands its tokens out once and a signed STS request is honoured
\* once, however late it is shown again (ui_tickets.consume, SsoNonces.consume).
SingleUse == \A x \in DOMAIN handed : handed[x] <= 1

\* What is said without regard to such races, and does not hold: that a
\* tombstone is final (delete_user_endpoint's comment: a backfill cannot rebuild
\* the row), and that an administrator is always left.
TombstonesAreFinal == [][\A u \in Users : is_user_deleted(u) => is_user_deleted(u)']_vars
LastAdminIsKept == [][Admins # {} => Admins' # {}]_vars
=============================================================================
