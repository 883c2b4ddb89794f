------------------------------ MODULE AclService ------------------------------
(***************************************************************************)
(* Access control of one resource (features/acl, migrations/004): the acls *)
(* table, the function that computes a user's effective permissions, and   *)
(* the permissions cache in front of it.                                   *)
(*                                                                         *)
(* A permission check is several statements: look in the cache; on a miss  *)
(* compute, with one snapshot for each part (the user's rows, the team's,  *)
(* the public ones); save the result.  Meanwhile other requests change the *)
(* table.  A change is one statement: its trigger, which empties the cache *)
(* of the resource, commits with it.  (A check that runs between trigger   *)
(* and commit leaves what one that computes before and saves after does.)  *)
(*                                                                         *)
(* Every query names one resource, so one is modelled; its id is not shown.*)
(* Time is counted in ticks, which are long compared with a request: they  *)
(* pass while no request is being served.  Times are kept as ticks left,   *)
(* so that no clock has to be bounded.                                     *)
(***************************************************************************)
EXTENDS Naturals

CONSTANTS
    Users,
    Owner,          \* owner_id of the resource
    Members,        \* rows of team_members; no code of the server writes them
    Grantees,       \* who may be granted something: users, Team, Public
    Team, Public,
    Roles,          \* the permission sets clients ask for
    Kinds,          \* the kinds of requests that arrive
    Requests,       \* requests served at a time
    CacheTTL,       \* the hour a cache entry lives, in ticks
    MaxLife,        \* bound: longest time to expires_at of a row, in ticks
    Lives           \* the times to expires_at that clients ask for

ASSUME UsersAssumption ==
    /\ Owner \in Users /\ Members \subseteq Users
    /\ Team \notin Users /\ Public \notin Users /\ Team # Public
    /\ Grantees \subseteq Users \cup {Team, Public}
ASSUME KindsAssumption ==
    Kinds \subseteq {"access", "list", "grant", "share", "revoke", "sync"}
ASSUME TimeAssumption == CacheTTL \in Nat \ {0} /\ MaxLife \in Nat

VARIABLES
    live,       \* the resource exists: deleted_at IS NULL
    rows,       \* acls
    cache,      \* resource_permissions_cache, per user
    req,        \* the requests being served
    age         \* history: ticks since a user effectively held a permission

vars == <<live, rows, cache, req, age>>

-----------------------------------------------------------------------------
(* Permissions: a bitmask is the set of its bits (pkg/acl/permissions.go). *)

Permissions == {"READ", "WRITE", "DELETE", "SHARE", "ADMIN"}

RoleViewer     == {"READ"}
RoleEditor     == {"READ", "WRITE"}
RoleOwner      == {"READ", "WRITE", "DELETE", "SHARE"}
RoleFullAccess == Permissions

ASSUME RolesAssumption == Roles \subseteq SUBSET Permissions

Has(p, perm) == perm \subseteq p

Never == MaxLife + 1    \* expires_at is NULL

ASSUME LivesAssumption == Lives \subseteq 0..Never

ACL == [to : Grantees, perms : SUBSET Permissions, left : 0..Never]

\* BIT_OR of the rows of one grantee that have not expired.
Granted(rs, g) == UNION {a.perms : a \in {b \in rs : b.to = g /\ b.left > 0}}

GrantedToTeams(rs, u) == IF u \in Members THEN Granted(rs, Team) ELSE {}

\* calculate_effective_permissions, if it ran on one snapshot.
Effective(rs, u) ==
    Granted(rs, u) \cup GrantedToTeams(rs, u) \cup Granted(rs, Public)

-----------------------------------------------------------------------------
\* clean is history: no row the entry depends on changed or expired since the
\* first statement that computed it.
Entry == [perms : SUBSET Permissions, left : 0..CacheTTL, clean : BOOLEAN]

NoEntry == [perms |-> {}, left |-> 0, clean |-> TRUE]

Request == [pc : {"idle", "owner", "cache", "user", "team", "public", "save",
                  "decide", "serve", "write"},
            kind : Kinds \cup {"create", "access"}, user : Users, need : SUBSET Permissions,
            perms : SUBSET Permissions, clean : BOOLEAN]

Start(k, u, p) ==
    [pc |-> IF k = "access" THEN "owner" ELSE "cache", kind |-> k, user |-> u,
     need |-> p, perms |-> {}, clean |-> TRUE]

Idle == [Start("access", Owner, {}) EXCEPT !.pc = "idle"]

TypeOK ==
    /\ live \in BOOLEAN
    /\ rows \subseteq ACL
    /\ cache \in [Users -> Entry]
    /\ req \in [Requests -> Request]
    /\ age \in [Users -> [Permissions -> 0..CacheTTL]]

\* The request that created the task is about to share it.
Init ==
    /\ live = TRUE
    /\ rows = {}
    /\ cache = [u \in Users |-> NoEntry]
    /\ \E r \in Requests : req = [q \in Requests |->
          IF q = r THEN [Start("create", Owner, {}) EXCEPT !.pc = "write"] ELSE Idle]
    /\ age = [u \in Users |-> [p \in Permissions |-> CacheTTL]]

-----------------------------------------------------------------------------
(* Helpers *)

Set(r, q) == req' = [req EXCEPT ![r] = q]

End(r) == Set(r, Idle)

\* Faulty variant of Owns: "deleted_at IS NULL" is missing.
OwnsDeleted(u) == u = Owner

Owns(u) == live /\ u = Owner

\* The request has read some rows and not yet saved what it computed.
Computing(q) == q.pc \in {"team", "public", "save"}

\* The requests, after a change of the table while some compute.
Overtaken ==
    [s \in Requests |-> [req[s] EXCEPT !.clean = @ /\ ~Computing(req[s])]]

\* The table becomes rs and the trigger empties the cache.
ChangeRows(rs) ==
    /\ rows' = rs
    /\ cache' = [u \in Users |-> NoEntry]
    /\ age' = [u \in Users |-> [p \in Permissions |->
                  IF p \in Effective(rs, u) THEN 0 ELSE age[u][p]]]
    /\ UNCHANGED live

\* INSERT ... ON CONFLICT DO UPDATE: the unique constraint does not see two
\* NULL grantee_ids as equal, so that a public row never conflicts.
Upsert(rs, a) ==
    {a} \cup (IF a.to = Public THEN rs ELSE {b \in rs : b.to # a.to})

-----------------------------------------------------------------------------
(* Checking a permission *)

\* A request passed authentication and begins.
Arrive(r, k, p) ==
    /\ req[r].pc = "idle" /\ k \in Kinds
    /\ \E u \in Users : Set(r, Start(k, u, p))
    /\ UNCHANGED <<live, rows, cache, age>>

\* The routes behind the middleware: the update and the delete of the task.
AccessTask(r) == \E p \in {"WRITE", "DELETE"} : Arrive(r, "access", {p})

\* GET /acl/{id}, POST /acl, POST /share and DELETE /acl/{id}, with what the
\* service asks for first.
GetACLRoute(r) == Arrive(r, "list", {"READ"})
GrantRoute(r)  == Arrive(r, "grant", {"SHARE"})
ShareRoute(r)  == Arrive(r, "share", {"SHARE"})
RevokeRoute(r) == Arrive(r, "revoke", {"ADMIN"})

\* POST /tasks/sync, one UPDATE or DELETE of the request: any user who is logged
\* in gets to what the middleware guards on the other routes; nothing is checked.
SyncTasks(r) ==
    /\ req[r].pc = "idle" /\ "sync" \in Kinds
    /\ \E u \in Users, p \in {"WRITE", "DELETE"} :
          Set(r, [Start("sync", u, {p}) EXCEPT !.pc = "serve"])
    /\ UNCHANGED <<live, rows, cache, age>>

\* Service.CheckPermission, called by the middleware: the owner first.  The
\* query fails when the task is deleted.
CheckOwner(r) ==
    /\ req[r].pc = "owner"
    /\ IF live
       THEN Set(r, [req[r] EXCEPT !.pc = IF Owns(req[r].user) THEN "serve" ELSE "cache"])
       ELSE End(r)
    /\ UNCHANGED <<live, rows, cache, age>>

\* Faulty variant of Fresh: "AND expires_at > NOW()" is missing.
FreshForever(u) == cache[u].perms # {}

\* getCachedPermissions finds an entry.  (A query that fails is a miss.)
Fresh(u) == cache[u].left > 0

ReadCache(r) ==
    /\ req[r].pc = "cache"
    /\ \/ /\ Fresh(req[r].user)
          /\ Set(r, [req[r] EXCEPT !.pc = "decide", !.perms = cache[req[r].user].perms])
       \/ Set(r, [req[r] EXCEPT !.pc = "user"])
    /\ UNCHANGED <<live, rows, cache, age>>

\* calculate_effective_permissions, one snapshot for each part.
ReadUserRows(r) ==
    /\ req[r].pc = "user"
    /\ Set(r, [req[r] EXCEPT !.pc = "team", !.perms = Granted(rows, req[r].user),
                             !.clean = TRUE])
    /\ UNCHANGED <<live, rows, cache, age>>

ReadTeamRows(r) ==
    /\ req[r].pc = "team"
    /\ Set(r, [req[r] EXCEPT !.pc = "public",
                             !.perms = @ \cup GrantedToTeams(rows, req[r].user)])
    /\ UNCHANGED <<live, rows, cache, age>>

ReadPublicRows(r) ==
    /\ req[r].pc = "public"
    /\ Set(r, [req[r] EXCEPT !.pc = "save", !.perms = @ \cup Granted(rows, Public)])
    /\ UNCHANGED <<live, rows, cache, age>>

\* The entry is inserted or replaced; an error is not looked at.
CachePermissions(r) ==
    /\ req[r].pc = "save"
    /\ \/ cache' = [cache EXCEPT ![req[r].user] =
                       [perms |-> req[r].perms, left |-> CacheTTL, clean |-> req[r].clean]]
       \/ UNCHANGED cache
    /\ Set(r, [req[r] EXCEPT !.pc = "decide", !.clean = TRUE])
    /\ UNCHANGED <<live, rows, age>>

\* A query of the check fails: the request ends with an error, except in the
\* second check of RevokeAccess, which takes it for a no.
CheckFails(r) ==
    /\ req[r].pc \in {"owner", "user", "team", "public"}
    /\ Set(r, IF req[r].kind = "revoke" /\ req[r].need = {"SHARE"}
              THEN [req[r] EXCEPT !.pc = "decide", !.perms = {}, !.clean = TRUE]
              ELSE Idle)
    /\ UNCHANGED <<live, rows, cache, age>>

-----------------------------------------------------------------------------
(* Deciding *)

\* The middleware lets the request through or answers 403.
DecideAccess(r) ==
    /\ req[r].pc = "decide" /\ req[r].kind = "access"
    /\ IF Has(req[r].perms, req[r].need)
       THEN Set(r, [req[r] EXCEPT !.pc = "serve", !.perms = {}])
       ELSE End(r)
    /\ UNCHANGED <<live, rows, cache, age>>

\* GrantAccess, Share and GetResourceACL ask for the owner after the check.
Decide(r) ==
    /\ req[r].pc = "decide" /\ req[r].kind \in {"grant", "share", "list"}
    /\ IF Has(req[r].perms, req[r].need) \/ Owns(req[r].user)
       THEN Set(r, [req[r] EXCEPT !.pc = IF req[r].kind = "list" THEN "serve" ELSE "write",
                                  !.perms = {}])
       ELSE End(r)
    /\ UNCHANGED <<live, rows, cache, age>>

\* RevokeAccess: a second check, for SHARE, if the one for ADMIN said no.
DecideRevoke(r) ==
    /\ req[r].pc = "decide" /\ req[r].kind = "revoke"
    /\ IF Has(req[r].perms, req[r].need) THEN Set(r, [req[r] EXCEPT !.pc = "write", !.perms = {}])
       ELSE IF req[r].need = {"ADMIN"} THEN Set(r, Start("revoke", req[r].user, {"SHARE"}))
       ELSE IF Owns(req[r].user) THEN Set(r, [req[r] EXCEPT !.pc = "write", !.perms = {}])
       ELSE End(r)
    /\ UNCHANGED <<live, rows, cache, age>>

\* The handler behind the check runs and answers.
Serve(r) ==
    /\ req[r].pc = "serve"
    /\ End(r)
    /\ UNCHANGED <<live, rows, cache, age>>

-----------------------------------------------------------------------------
(* Changing the table *)

\* CreateTask shares the new task, read-only, with the users it names.
GrantTaskAccess(r, u) ==
    /\ req[r].pc = "write" /\ req[r].kind = "create"
    /\ u \in Users \ {Owner}
    /\ ChangeRows(Upsert(rows, [to |-> u, perms |-> RoleViewer, left |-> Never]))
    /\ req' = Overtaken

\* Repository.GrantACL for POST /acl.
GrantACL(r, g) ==
    /\ req[r].pc = "write" /\ req[r].kind = "grant"
    /\ \E p \in Roles, l \in Lives :
          ChangeRows(Upsert(rows, [to |-> g, perms |-> p, left |-> l]))
    /\ req' = [Overtaken EXCEPT ![r] = Idle]

\* Share: one statement for each target; the one after a public target is a
\* nil pointer panic, which ends the request.
ShareTarget(r, g) ==
    /\ req[r].pc = "write" /\ req[r].kind = "share"
    /\ \E p \in Roles, l \in Lives :
          ChangeRows(Upsert(rows, [to |-> g, perms |-> p, left |-> l]))
    /\ req' = IF g = Public THEN [Overtaken EXCEPT ![r] = Idle] ELSE Overtaken

\* Faulty variant of RevokeACL: the trigger does not fire on DELETE.
RevokeACLSilently(r) ==
    /\ req[r].pc = "write" /\ req[r].kind = "revoke"
    /\ \E g \in Grantees : rows' = {b \in rows : b.to # g}
    /\ End(r)
    /\ UNCHANGED <<live, cache, age>>

\* Repository.RevokeACL: the trigger fires for each row that goes.
RevokeACL(r) ==
    /\ req[r].pc = "write" /\ req[r].kind = "revoke"
    /\ \E a \in rows : ChangeRows({b \in rows : b.to # a.to})
    /\ req' = [Overtaken EXCEPT ![r] = Idle]

\* The request ends with no (further) change: the last target of a share or a
\* create is done, the role does not parse, a statement fails, no row matches.
StopWriting(r) ==
    /\ req[r].pc = "write"
    /\ End(r)
    /\ UNCHANGED <<live, rows, cache, age>>

\* Repository.Delete of the task service, for a request that got to it through
\* the middleware or in a sync: the rows of acls and of the cache stay.
DeleteTask(r) ==
    /\ req[r].pc = "serve" /\ req[r].need = {"DELETE"}
    /\ live
    /\ live' = FALSE
    /\ UNCHANGED <<rows, cache, req, age>>

-----------------------------------------------------------------------------
(* Time *)

Elapsed(rs) == {[a EXCEPT !.left = IF @ \in {0, Never} THEN @ ELSE @ - 1] : a \in rs}

Tick ==
    /\ \A r \in Requests : req[r].pc = "idle"
    /\ rows' = Elapsed(rows)
    /\ cache' = [u \in Users |->
          [cache[u] EXCEPT !.left = IF @ = 0 THEN 0 ELSE @ - 1,
                           !.clean = @ /\ Effective(Elapsed(rows), u) = Effective(rows, u)]]
    /\ age' = [u \in Users |-> [p \in Permissions |->
          IF p \in Effective(rows, u) THEN 0
          ELSE IF age[u][p] = CacheTTL THEN CacheTTL ELSE age[u][p] + 1]]
    /\ UNCHANGED <<live, req>>

\* cleanup_expired_acls, run by an external job.
Cleanup ==
    /\ \E a \in rows : a.left = 0
    /\ ChangeRows({a \in rows : a.left > 0})
    /\ req' = Overtaken

Route(r) ==
    \/ AccessTask(r) \/ SyncTasks(r)
    \/ GetACLRoute(r) \/ GrantRoute(r) \/ ShareRoute(r) \/ RevokeRoute(r)

\* From the first statement of the check to the decision.
Check(r) ==
    \/ CheckOwner(r) \/ ReadCache(r)
    \/ ReadUserRows(r) \/ ReadTeamRows(r) \/ ReadPublicRows(r) \/ CachePermissions(r)
    \/ CheckFails(r) \/ DecideAccess(r) \/ Decide(r) \/ DecideRevoke(r)

Write(r) ==
    \/ \E g \in Grantees : GrantTaskAccess(r, g) \/ GrantACL(r, g) \/ ShareTarget(r, g)
    \/ RevokeACL(r) \/ StopWriting(r)

Step(r) == Route(r) \/ Check(r) \/ Serve(r) \/ DeleteTask(r) \/ Write(r)

Next == (\E r \in Requests : Step(r)) \/ Tick \/ Cleanup

Spec == Init /\ [][Next]_vars

-----------------------------------------------------------------------------
(* Properties *)

\* A cache entry in force is what the function would compute now, for members
\* of the team and readers of a public row too, unless a row changed while the
\* entry was being computed or expired since (migrations/004:79-139).
CacheIsCurrent ==
    \A u \in Users : cache[u].left > 0 /\ cache[u].clean =>
        cache[u].perms = Effective(rows, u)

\* What request r may rest on: the permissions its user effectively held less
\* than one cache lifetime ago.
HeldLately(r, p) == age[req[r].user][p] < CacheTTL

\* On the routes that check, nobody but the owner is let through, or changes the
\* table, unless he held the permission within the last hour: whatever races with
\* the check, being wrong is bounded by the lifetime of a cache entry.
DecisionsJustified ==
    \A r \in Requests : req[r].user # Owner =>
        /\ req[r].pc = "serve" /\ req[r].kind # "sync" =>
              \A p \in req[r].need : HeldLately(r, p)
        /\ req[r].pc = "write" => HeldLately(r, "SHARE") \/ HeldLately(r, "ADMIN")

\* Whoever gets to the update or the delete of a task was checked for it ("A
\* permissão já foi validada pelo middleware RequireOwnerOrShared",
\* tasks/service.go:112-114, repository.go:165-167, 192-194).
PermissionValidated ==
    \A r \in Requests :
        req[r].pc = "serve" /\ req[r].need \in {{"WRITE"}, {"DELETE"}} =>
            req[r].user = Owner \/ \A p \in req[r].need : HeldLately(r, p)

\* The requests let through to a handler, and those that may change the table.
ServingOf(f) == {[req |-> r, user |-> f[r].user, need |-> f[r].need,
                  checked |-> f[r].kind # "sync"] :
                    r \in {s \in Requests : f[s].pc = "serve"}}
WritingOf(f) == {[req |-> r, user |-> f[r].user] :
                    r \in {s \in Requests : f[s].pc = "write"}}

\* Seen from outside, whatever the cache and overlapping changes do, there are
\* permissions and requests let through on those held lately, by the owner of a
\* task that is not deleted, or, marked as such, unchecked in a sync; and only a
\* request let through to the delete deletes (the doc of Rights says it all).
Held == [u \in Users |-> Effective(rows, u)]
Serving == ServingOf(req)
Writing == WritingOf(req)

Access == INSTANCE Rights WITH
             Lifetime <- CacheTTL, alive <- live, held <- Held,
             serving <- Serving, writing <- Writing
EnforcesRights == Access!Spec

\* A change of acls invalidates the cache of all the users it affects
\* (migrations/004:128): no entry gives what no row gives, rows that expired
\* included.
ChangeInvalidates ==
    \A u \in Users : cache[u].left > 0 =>
        cache[u].perms \subseteq UNION {a.perms : a \in rows}

\* GrantACL grants or updates (repository.go:20): a grantee has one row.
OneRowPerGrantee == \A a, b \in rows : a.to = b.to => a = b
=============================================================================
