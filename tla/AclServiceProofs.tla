--------------------------- MODULE AclServiceProofs ---------------------------
(***************************************************************************)
(* Proofs about AclService for any users, teams, roles, lifetimes and      *)
(* requests at a time: types, what a clean cache entry holds, how long a   *)
(* permission that was lost can still be used, and the promise of Rights.  *)
(***************************************************************************)
EXTENDS AclService, TLAPS

\* What a request that nothing has overtaken read so far.
Computed(q) ==
    q.clean =>
       /\ q.pc = "team" => q.perms = Granted(rows, q.user)
       /\ q.pc = "public" => q.perms = Granted(rows, q.user) \cup GrantedToTeams(rows, q.user)
       /\ q.pc = "save" => q.perms = Effective(rows, q.user)

\* The permissions it has in memory were held when it began to look.
Recent(q) ==
    /\ Computing(q) => \A p \in q.perms : age[q.user][p] = 0
    /\ q.pc = "decide" => \A p \in q.perms : age[q.user][p] < CacheTTL

\* What it was let through on, if it was checked.
Justified(q) ==
    q.user # Owner =>
       /\ q.pc = "serve" /\ q.kind # "sync" => \A p \in q.need : age[q.user][p] < CacheTTL
       /\ q.pc = "write" => age[q.user]["SHARE"] < CacheTTL \/ age[q.user]["ADMIN"] < CacheTTL

\* What each kind of request asks for.
Asks(q) ==
    /\ q.kind \in {"grant", "share"} => q.need = {"SHARE"}
    /\ q.kind = "revoke" => q.need \in {{"ADMIN"}, {"SHARE"}}
    /\ q.kind = "create" => q.user = Owner
    /\ q.pc = "owner" => q.kind = "access"
    /\ q.pc \notin {"idle", "write"} => \E p \in Permissions : q.need = {p}

Sound(q) == Computed(q) /\ Recent(q) /\ Justified(q) /\ Asks(q)

\* A permission in force has age 0, and one in the cache has been lost for no
\* longer than the entry has lived.
AgesCount ==
    \A u \in Users :
       /\ \A p \in Effective(rows, u) : age[u][p] = 0
       /\ cache[u].left > 0 => \A p \in cache[u].perms : age[u][p] + cache[u].left <= CacheTTL

IInv == /\ TypeOK /\ CacheIsCurrent /\ AgesCount
        /\ \A r \in Requests : Sound(req[r])

-----------------------------------------------------------------------------
(* Records *)

LEMMA StartFacts ==
    ASSUME NEW k \in Kinds \cup {"create", "access"}, NEW u \in Users, NEW p \in SUBSET Permissions
    PROVE  /\ Start(k, u, p) \in Request
           /\ Start(k, u, p).pc \in {"owner", "cache"}
           /\ Start(k, u, p).pc = "owner" => k = "access"
           /\ Start(k, u, p).kind = k /\ Start(k, u, p).user = u /\ Start(k, u, p).need = p
           /\ Start(k, u, p).perms = {} /\ Start(k, u, p).clean
  BY DEF Start, Request

LEMMA IdleFacts ==
    /\ Idle \in Request /\ Idle.pc = "idle" /\ Idle.kind = "access" /\ Sound(Idle)
  <1>1. PICK s \in Request : s = Start("access", Owner, {})
    BY StartFacts, UsersAssumption
  <1>2. s.kind = "access"
    BY <1>1 DEF Start
  <1>3. Idle = [s EXCEPT !.pc = "idle"]
    BY <1>1 DEF Idle
  <1>4. Idle \in Request /\ Idle.pc = "idle" /\ Idle.kind = "access"
    BY <1>2, <1>3 DEF Request
  <1> QED BY <1>4 DEF Sound, Computed, Recent, Justified, Asks, Computing

LEMMA SetFacts ==
    ASSUME TypeOK, NEW r \in Requests, NEW q \in Request, req' = [req EXCEPT ![r] = q]
    PROVE  /\ req' \in [Requests -> Request]
           /\ req'[r] = q
           /\ \A s \in Requests \ {r} : req'[s] = req[s]
  BY DEF TypeOK

-----------------------------------------------------------------------------
(* Permissions *)

LEMMA EffectiveType ==
    ASSUME NEW rs \in SUBSET ACL, NEW u
    PROVE  /\ Granted(rs, u) \subseteq Permissions
           /\ Effective(rs, u) \subseteq Permissions
  BY DEF Effective, Granted, GrantedToTeams, ACL

LEMMA ElapsedFacts ==
    ASSUME NEW rs \in SUBSET ACL
    PROVE  /\ Elapsed(rs) \subseteq ACL
           /\ \A u : Effective(Elapsed(rs), u) \subseteq Effective(rs, u)
  <1>1. ASSUME NEW b \in Elapsed(rs)
        PROVE  \E a \in rs : /\ b.to = a.to /\ b.perms = a.perms /\ (b.left > 0 => a.left > 0)
                             /\ b \in ACL
    <2>1. PICK a \in rs : b = [a EXCEPT !.left = IF @ \in {0, Never} THEN @ ELSE @ - 1]
      BY DEF Elapsed
    <2>2. a \in ACL /\ a.left \in 0..Never /\ Never \in Nat
      BY TimeAssumption DEF ACL, Never
    <2>3. PICK l \in 0..Never : l = (IF a.left \in {0, Never} THEN a.left ELSE a.left - 1)
      BY <2>2
    <2>4. b = [a EXCEPT !.left = l]
      BY <2>1, <2>3
    <2>5. b \in ACL /\ b.to = a.to /\ b.perms = a.perms /\ b.left = l
      BY <2>2, <2>4 DEF ACL
    <2> QED BY <2>2, <2>3, <2>5
  <1>2. \A g : Granted(Elapsed(rs), g) \subseteq Granted(rs, g)
    BY <1>1 DEF Granted
  <1> QED BY <1>1, <1>2 DEF Effective, GrantedToTeams

-----------------------------------------------------------------------------
(* What the steps do to the invariant *)

\* A request is sound as long as rows and ages are what they were.
LEMMA StaysSound ==
    ASSUME NEW q, Sound(q), UNCHANGED <<rows, age>>
    PROVE  Sound(q)'
  BY DEF Sound, Computed, Recent, Justified, Asks, Effective, Granted, GrantedToTeams, Computing

\* One request becomes q.
LEMMA RequestStep ==
    ASSUME IInv, NEW r \in Requests, NEW q \in Request, req' = [req EXCEPT ![r] = q],
           UNCHANGED <<live, rows, cache, age>>, Sound(q)
    PROVE  IInv'
  <1>1. /\ req' \in [Requests -> Request] /\ req'[r] = q
        /\ \A s \in Requests \ {r} : req'[s] = req[s]
    BY SetFacts DEF IInv
  <1>2. TypeOK'
    BY <1>1 DEF IInv, TypeOK
  <1>3. CacheIsCurrent' /\ AgesCount'
    BY DEF IInv, CacheIsCurrent, AgesCount, Effective, Granted, GrantedToTeams
  <1>4. ASSUME NEW s \in Requests PROVE Sound(req[s])'
    <2>1. PICK c : c = req'[s] /\ Sound(c)
      BY <1>1 DEF IInv
    <2> QED BY <2>1, StaysSound
  <1> QED BY <1>2, <1>3, <1>4 DEF IInv

LEMMA EndStep ==
    ASSUME IInv, NEW r \in Requests, End(r), UNCHANGED <<live, rows, cache, age>>
    PROVE  IInv'
  BY IdleFacts, RequestStep DEF End, Set

LEMMA DeleteStep == ASSUME IInv, NEW r \in Requests, DeleteTask(r) PROVE IInv'
  <1>1. TypeOK'
    BY DEF IInv, TypeOK, DeleteTask
  <1>2. CacheIsCurrent' /\ AgesCount'
    BY DEF IInv, DeleteTask, CacheIsCurrent, AgesCount, Effective, Granted, GrantedToTeams
  <1>3. ASSUME NEW s \in Requests PROVE Sound(req[s])'
    <2>1. PICK c : c = req[s] /\ Sound(c)
      BY DEF IInv
    <2>2. c = req'[s] /\ Sound(c)'
      BY <2>1, StaysSound DEF DeleteTask
    <2> QED BY <2>2
  <1> QED BY <1>1, <1>2, <1>3 DEF IInv

\* Whoever computes is overtaken by a change.
LEMMA OvertakenFacts ==
    ASSUME TypeOK
    PROVE  /\ Overtaken \in [Requests -> Request]
           /\ \A s \in Requests :
                 /\ Overtaken[s].pc = req[s].pc /\ Overtaken[s].kind = req[s].kind
                 /\ Overtaken[s].user = req[s].user /\ Overtaken[s].need = req[s].need
                 /\ Overtaken[s].perms = req[s].perms
                 /\ Computing(req[s]) => ~Overtaken[s].clean
  <1>1. ASSUME NEW s \in Requests, NEW b \in BOOLEAN
        PROVE  [req[s] EXCEPT !.clean = b] \in Request
    BY DEF TypeOK, Request
  <1>2. ASSUME NEW s \in Requests
        PROVE  (req[s].clean /\ ~Computing(req[s])) \in BOOLEAN
    OBVIOUS
  <1>3. Overtaken \in [Requests -> Request]
    BY <1>1, <1>2 DEF Overtaken
  <1>4. ASSUME NEW s \in Requests
        PROVE  /\ Overtaken[s].pc = req[s].pc /\ Overtaken[s].kind = req[s].kind
               /\ Overtaken[s].user = req[s].user /\ Overtaken[s].need = req[s].need
               /\ Overtaken[s].perms = req[s].perms
               /\ Computing(req[s]) => ~Overtaken[s].clean
    BY DEF Overtaken, TypeOK, Request
  <1> QED BY <1>3, <1>4

\* The requests after a change: overtaken, and the one that made it may be done.
AfterChange ==
    /\ req' \in [Requests -> Request]
    /\ \A s \in Requests : req'[s] = Overtaken[s] \/ req'[s] = Idle

LEMMA ChangeStep ==
    ASSUME IInv, NEW rs \in SUBSET ACL, ChangeRows(rs), AfterChange
    PROVE  IInv'
  <1>1. /\ rows' = rs /\ UNCHANGED live
        /\ \A u \in Users : cache'[u] = NoEntry
        /\ \A u \in Users, p \in Permissions :
              age'[u][p] = IF p \in Effective(rs, u) THEN 0 ELSE age[u][p]
    BY DEF ChangeRows
  <1>2. NoEntry \in Entry /\ NoEntry.left = 0
    BY TimeAssumption DEF NoEntry, Entry
  <1>3. TypeOK'
    <2>1. cache' \in [Users -> Entry]
      BY <1>2 DEF ChangeRows
    <2>2. age' \in [Users -> [Permissions -> 0..CacheTTL]]
      BY TimeAssumption DEF ChangeRows, IInv, TypeOK
    <2> QED BY <1>1, <2>1, <2>2 DEF IInv, TypeOK, AfterChange
  <1>4. CacheIsCurrent'
    BY <1>1, <1>2 DEF CacheIsCurrent
  <1>5. \A u \in Users : Effective(rs, u) \subseteq Permissions
    BY EffectiveType
  <1>6. AgesCount'
    <2>1. \A u \in Users : Effective(rows, u)' = Effective(rs, u)
      BY <1>1 DEF Effective, Granted, GrantedToTeams
    <2> QED BY <1>1, <1>2, <1>5, <2>1 DEF AgesCount
  <1>7. ASSUME NEW u \in Users, NEW p \in Permissions
        PROVE  age'[u][p] <= age[u][p] /\ age[u][p] \in Nat /\ age'[u][p] \in Nat
    <2>1. age[u][p] \in 0..CacheTTL
      BY DEF IInv, TypeOK
    <2>2. age[u][p] \in Nat
      BY <2>1, TimeAssumption
    <2> QED BY <1>1, <2>2
  <1>8. ASSUME NEW s \in Requests PROVE Sound(req[s])'
    <2>1. CASE req'[s] = Idle
      <3>1. PICK c : c = req'[s] /\ c.pc = "idle" /\ c.kind = "access"
        BY <2>1, IdleFacts
      <3>2. Sound(c)'
        BY <3>1 DEF Sound, Computed, Recent, Justified, Asks, Computing
      <3> QED BY <3>1, <3>2
    <2>2. CASE req'[s] = Overtaken[s]
      <3>1. PICK p, c : p = req[s] /\ c = req'[s]
        OBVIOUS
      <3>2. /\ c.pc = p.pc /\ c.kind = p.kind /\ c.user = p.user /\ c.need = p.need
            /\ c.perms = p.perms /\ (Computing(p) => ~c.clean)
        BY <2>2, <3>1, OvertakenFacts DEF IInv
      <3>3. Sound(p) /\ p \in Request
        BY <3>1 DEF IInv, TypeOK
      <3>4. p.user \in Users /\ p.need \subseteq Permissions /\ p.perms \subseteq Permissions
        BY <3>3 DEF Request
      <3>5. Computed(c)'
        BY <3>2 DEF Computed, Computing
      <3>6. Recent(c)'
        <4>1. ASSUME NEW b \in p.perms, Computing(p) PROVE age'[c.user][b] = 0
          BY <1>7, <3>2, <3>3, <3>4, <4>1 DEF Sound, Recent
        <4>2. ASSUME NEW b \in p.perms, p.pc = "decide" PROVE age'[c.user][b] < CacheTTL
          BY <1>7, <3>2, <3>3, <3>4, <4>2, TimeAssumption DEF Sound, Recent
        <4> QED BY <3>2, <4>1, <4>2 DEF Recent, Computing
      <3>7. Justified(c)'
        <4>1. ASSUME NEW b \in p.need, p.pc = "serve", p.kind # "sync", p.user # Owner
              PROVE  age'[c.user][b] < CacheTTL
          BY <1>7, <3>2, <3>3, <3>4, <4>1, TimeAssumption DEF Sound, Justified
        <4>2. ASSUME p.pc = "write", p.user # Owner
              PROVE  age'[c.user]["SHARE"] < CacheTTL \/ age'[c.user]["ADMIN"] < CacheTTL
          <5>1. "SHARE" \in Permissions /\ "ADMIN" \in Permissions
            BY DEF Permissions
          <5> QED BY <1>7, <3>2, <3>3, <3>4, <4>2, <5>1, TimeAssumption DEF Sound, Justified
        <4> QED BY <3>2, <4>1, <4>2 DEF Justified
      <3>8. Asks(c)'
        BY <3>2, <3>3 DEF Sound, Asks
      <3>9. Sound(c)'
        BY <3>5, <3>6, <3>7, <3>8 DEF Sound
      <3> QED BY <3>1, <3>9
    <2> QED BY <2>1, <2>2 DEF AfterChange
  <1> QED BY <1>3, <1>4, <1>6, <1>8 DEF IInv

-----------------------------------------------------------------------------
(* The actions that change one request *)

\* Request r with what a step of a check may change.
With(r, c, p, b) == [req[r] EXCEPT !.pc = c, !.perms = p, !.clean = b]

LEMMA WithFacts ==
    ASSUME TypeOK, NEW r \in Requests, NEW c \in {"cache", "serve", "user", "team", "public",
                                                  "save", "decide", "write"},
           NEW p \in SUBSET Permissions, NEW b \in BOOLEAN
    PROVE  /\ With(r, c, p, b) \in Request
           /\ With(r, c, p, b).pc = c /\ With(r, c, p, b).perms = p
           /\ With(r, c, p, b).clean = b /\ With(r, c, p, b).kind = req[r].kind
           /\ With(r, c, p, b).user = req[r].user /\ With(r, c, p, b).need = req[r].need
  BY DEF TypeOK, Request, With

LEMMA RequestFacts ==
    ASSUME TypeOK, NEW r \in Requests
    PROVE  /\ req[r].perms \in SUBSET Permissions /\ req[r].clean \in BOOLEAN
           /\ req[r].user \in Users /\ req[r].need \in SUBSET Permissions
           /\ req[r].kind \in Kinds \cup {"create", "access"}
  BY DEF TypeOK, Request

\* EXCEPT of fewer fields is EXCEPT of all of them.
LEMMA ExceptFacts ==
    ASSUME TypeOK, NEW r \in Requests
    PROVE  /\ \A c : [req[r] EXCEPT !.pc = c] = With(r, c, req[r].perms, req[r].clean)
           /\ \A c, p : [req[r] EXCEPT !.pc = c, !.perms = p] = With(r, c, p, req[r].clean)
  BY DEF TypeOK, Request, With

LEMMA ArriveStep ==
    ASSUME IInv, NEW r \in Requests, NEW k \in Kinds \cup {"access"},
           NEW p \in SUBSET Permissions, Arrive(r, k, p),
           \E b \in Permissions : p = {b},
           k \in {"grant", "share"} => p = {"SHARE"},
           k = "revoke" => p = {"ADMIN"}
    PROVE  IInv'
  <1>1. PICK u \in Users : Set(r, Start(k, u, p))
    BY DEF Arrive
  <1>2. PICK q \in Request : q = Start(k, u, p)
    BY StartFacts
  <1>3. q.pc \in {"owner", "cache"} /\ q.kind = k /\ q.need = p /\ (q.pc = "owner" => k = "access")
    BY <1>2, StartFacts
  <1>4. k # "create"
    BY KindsAssumption
  <1>5. Sound(q)
    BY <1>3, <1>4 DEF Sound, Computed, Recent, Justified, Asks, Computing
  <1> QED BY <1>1, <1>2, <1>5, RequestStep DEF Arrive, Set

\* What a request of a sync starts with.
Synced(u, p) == [Start("sync", u, {p}) EXCEPT !.pc = "serve"]

LEMMA SyncedFacts ==
    ASSUME "sync" \in Kinds, NEW u \in Users, NEW p \in Permissions
    PROVE  /\ Synced(u, p) \in Request
           /\ Synced(u, p).pc = "serve" /\ Synced(u, p).kind = "sync"
           /\ Synced(u, p).user = u /\ Synced(u, p).need = {p}
  <1>1. PICK q \in Request : q = Start("sync", u, {p})
    BY StartFacts
  <1>2. q.kind = "sync" /\ q.user = u /\ q.need = {p}
    BY <1>1 DEF Start
  <1>3. Synced(u, p) = [q EXCEPT !.pc = "serve"]
    BY <1>1 DEF Synced
  <1> QED BY <1>2, <1>3 DEF Request

LEMMA SyncStep == ASSUME IInv, NEW r \in Requests, SyncTasks(r) PROVE IInv'
  <1>1. PICK u \in Users, p \in {"WRITE", "DELETE"} : Set(r, Synced(u, p))
    BY DEF SyncTasks, Synced
  <1>2. p \in Permissions /\ "sync" \in Kinds
    BY DEF Permissions, SyncTasks
  <1>3. PICK q \in Request : q = Synced(u, p)
    BY <1>2, SyncedFacts
  <1>4. q.pc = "serve" /\ q.kind = "sync" /\ q.need = {p}
    BY <1>2, <1>3, SyncedFacts
  <1>5. Sound(q)
    BY <1>2, <1>4 DEF Sound, Computed, Recent, Justified, Asks, Computing
  <1> QED BY <1>1, <1>3, <1>5, RequestStep DEF SyncTasks, Set

LEMMA RouteStep == ASSUME IInv, NEW r \in Requests, Route(r) PROVE IInv'
  <1>1. \A p \in {"READ", "WRITE", "DELETE", "SHARE", "ADMIN"} : {p} \in SUBSET Permissions
    BY DEF Permissions
  <1>2. CASE AccessTask(r)
    BY <1>1, <1>2, ArriveStep DEF AccessTask
  <1>3. CASE GetACLRoute(r)
    BY <1>1, <1>3, ArriveStep DEF GetACLRoute, Arrive
  <1>4. CASE GrantRoute(r)
    BY <1>1, <1>4, ArriveStep DEF GrantRoute, Arrive
  <1>5. CASE ShareRoute(r)
    BY <1>1, <1>5, ArriveStep DEF ShareRoute, Arrive
  <1>6. CASE RevokeRoute(r)
    BY <1>1, <1>6, ArriveStep DEF RevokeRoute, Arrive
  <1>7. CASE SyncTasks(r)
    BY <1>7, SyncStep
  <1> QED BY <1>2, <1>3, <1>4, <1>5, <1>6, <1>7 DEF Route

\* What a request asks for stays what it is while it is being checked.
LEMMA StillAsks ==
    ASSUME IInv, NEW r \in Requests, NEW q, req[r].pc \notin {"idle", "write"},
           q.pc # "owner", q.kind = req[r].kind, q.user = req[r].user, q.need = req[r].need
    PROVE  Asks(q)
  <1>1. PICK p : p = req[r] /\ Asks(p)
    BY DEF IInv, Sound
  <1> QED BY <1>1 DEF Asks

LEMMA CheckOwnerStep == ASSUME IInv, NEW r \in Requests, CheckOwner(r) PROVE IInv'
  <1>1. CASE ~live
    BY <1>1, EndStep DEF CheckOwner
  <1>2. CASE live
    <2>1. PICK c \in {"serve", "cache"} : c = IF Owns(req[r].user) THEN "serve" ELSE "cache"
      OBVIOUS
    <2>2. PICK q \in Request :
             /\ q = With(r, c, req[r].perms, req[r].clean)
             /\ q.pc = c /\ q.kind = req[r].kind /\ q.user = req[r].user /\ q.need = req[r].need
      BY RequestFacts, WithFacts DEF IInv
    <2>3. req' = [req EXCEPT ![r] = q]
      BY <1>2, <2>1, <2>2, ExceptFacts DEF CheckOwner, Set, IInv
    <2>a. Asks(q)
      BY <2>2, StillAsks DEF CheckOwner
    <2>4. Sound(q)
      BY <2>a, <2>1, <2>2 DEF IInv, Sound, Computed, Recent, Justified, Computing, Owns
    <2> QED BY <2>2, <2>3, <2>4, RequestStep DEF CheckOwner
  <1> QED BY <1>1, <1>2

LEMMA ReadCacheStep == ASSUME IInv, NEW r \in Requests, ReadCache(r) PROVE IInv'
  <1> DEFINE u == req[r].user
  <1>0. u \in Users /\ cache[u] \in Entry
    BY RequestFacts DEF IInv, TypeOK
  <1>1. CASE Fresh(u) /\ Set(r, [req[r] EXCEPT !.pc = "decide", !.perms = cache[u].perms])
    <2>0. cache[u].perms \in SUBSET Permissions /\ req[r].clean \in BOOLEAN /\ TypeOK
      BY <1>0, RequestFacts DEF IInv, Entry
    <2>1. PICK q \in Request :
             /\ q = With(r, "decide", cache[u].perms, req[r].clean)
             /\ q.pc = "decide" /\ q.perms = cache[u].perms
             /\ q.kind = req[r].kind /\ q.user = u /\ q.need = req[r].need
      BY <2>0, WithFacts
    <2>2. req' = [req EXCEPT ![r] = q]
      BY <1>1, <2>1, ExceptFacts DEF Set, IInv
    <2>3. ASSUME NEW p \in cache[u].perms PROVE age[u][p] < CacheTTL
      <3>1. age[u][p] + cache[u].left <= CacheTTL /\ cache[u].left > 0
        BY <1>0, <1>1 DEF IInv, AgesCount, Fresh
      <3>2. p \in Permissions /\ age[u][p] \in 0..CacheTTL /\ cache[u].left \in 0..CacheTTL
        BY <1>0 DEF Entry, IInv, TypeOK
      <3> QED BY <3>1, <3>2, TimeAssumption
    <2>a. Asks(q)
      BY <2>1, StillAsks DEF ReadCache
    <2>4. Sound(q)
      BY <2>a, <2>1, <2>3 DEF IInv, Sound, Computed, Recent, Justified, Computing
    <2> QED BY <2>1, <2>2, <2>4, RequestStep DEF ReadCache
  <1>2. CASE Set(r, [req[r] EXCEPT !.pc = "user"])
    <2>1. PICK q \in Request :
             /\ q = With(r, "user", req[r].perms, req[r].clean)
             /\ q.pc = "user" /\ q.kind = req[r].kind /\ q.user = u /\ q.need = req[r].need
      BY RequestFacts, WithFacts DEF IInv
    <2>2. req' = [req EXCEPT ![r] = q]
      BY <1>2, <2>1, ExceptFacts DEF Set, IInv
    <2>a. Asks(q)
      BY <2>1, StillAsks DEF ReadCache
    <2>3. Sound(q)
      BY <2>a, <2>1 DEF IInv, Sound, Computed, Recent, Justified, Computing
    <2> QED BY <2>1, <2>2, <2>3, RequestStep DEF ReadCache
  <1> QED BY <1>1, <1>2 DEF ReadCache

LEMMA ReadUserStep == ASSUME IInv, NEW r \in Requests, ReadUserRows(r) PROVE IInv'
  <1> DEFINE u == req[r].user
  <1>1. Granted(rows, u) \in SUBSET Permissions /\ u \in Users
    BY EffectiveType, RequestFacts DEF IInv, TypeOK
  <1>b. PICK b \in BOOLEAN : b = TRUE
    OBVIOUS
  <1>2. PICK q \in Request :
           /\ q = With(r, "team", Granted(rows, u), b)
           /\ q.pc = "team" /\ q.perms = Granted(rows, u)
           /\ q.kind = req[r].kind /\ q.user = u /\ q.need = req[r].need
    BY <1>1, WithFacts DEF IInv
  <1>3. \A p \in q.perms : age[q.user][p] = 0
    BY <1>1, <1>2 DEF IInv, AgesCount, Effective
  <1>a. Asks(q)
    BY <1>2, StillAsks DEF ReadUserRows
  <1>4. Sound(q)
    BY <1>a, <1>2, <1>3 DEF IInv, Sound, Computed, Recent, Justified, Computing
  <1> QED BY <1>b, <1>2, <1>4, RequestStep DEF ReadUserRows, Set, With

LEMMA ReadTeamStep == ASSUME IInv, NEW r \in Requests, ReadTeamRows(r) PROVE IInv'
  <1> DEFINE u == req[r].user
             p == req[r].perms \cup GrantedToTeams(rows, u)
  <1>1. p \in SUBSET Permissions /\ u \in Users
    BY EffectiveType, RequestFacts DEF IInv, TypeOK, GrantedToTeams
  <1>2. PICK q \in Request :
           /\ q = With(r, "public", p, req[r].clean)
           /\ q.pc = "public" /\ q.perms = p /\ q.clean = req[r].clean
           /\ q.kind = req[r].kind /\ q.user = u /\ q.need = req[r].need
    BY <1>1, RequestFacts, WithFacts DEF IInv
  <1>3. req' = [req EXCEPT ![r] = q]
    <2>1. [req[r] EXCEPT !.pc = "public", !.perms = @ \cup GrantedToTeams(rows, u)]
             = [req[r] EXCEPT !.pc = "public", !.perms = p]
      OBVIOUS
    <2>2. req' = [req EXCEPT ![r] = [req[r] EXCEPT !.pc = "public", !.perms = p]]
      BY <2>1 DEF ReadTeamRows, Set
    <2>3. [req[r] EXCEPT !.pc = "public", !.perms = p] = q
      BY <1>2, ExceptFacts DEF IInv
    <2> QED BY <2>2, <2>3
  <1>4. \A b \in q.perms : age[q.user][b] = 0
    <2>1. Computed(req[r]) /\ Recent(req[r]) /\ req[r].pc = "team"
      BY DEF IInv, Sound, ReadTeamRows
    <2>2. \A b \in req[r].perms : age[u][b] = 0
      BY <2>1 DEF Recent, Computing
    <2>3. \A b \in Effective(rows, u) : age[u][b] = 0
      BY <1>1 DEF IInv, AgesCount
    <2>4. \A b \in GrantedToTeams(rows, u) : age[u][b] = 0
      BY <2>3 DEF Effective
    <2> QED BY <1>2, <2>2, <2>4
  <1>5. Computed(q)
    <2>1. Computed(req[r]) /\ req[r].pc = "team"
      BY DEF IInv, Sound, ReadTeamRows
    <2> QED BY <1>2, <2>1 DEF Computed
  <1>a. Asks(q)
    BY <1>2, StillAsks DEF ReadTeamRows
  <1>6. Sound(q)
    BY <1>a, <1>2, <1>4, <1>5 DEF IInv, Sound, Recent, Justified, Computing
  <1> QED BY <1>2, <1>3, <1>6, RequestStep DEF ReadTeamRows

LEMMA ReadPublicStep == ASSUME IInv, NEW r \in Requests, ReadPublicRows(r) PROVE IInv'
  <1> DEFINE u == req[r].user
             p == req[r].perms \cup Granted(rows, Public)
  <1>1. p \in SUBSET Permissions /\ u \in Users
    BY EffectiveType, RequestFacts DEF IInv, TypeOK
  <1>2. PICK q \in Request :
           /\ q = With(r, "save", p, req[r].clean)
           /\ q.pc = "save" /\ q.perms = p /\ q.clean = req[r].clean
           /\ q.kind = req[r].kind /\ q.user = u /\ q.need = req[r].need
    BY <1>1, RequestFacts, WithFacts DEF IInv
  <1>3. req' = [req EXCEPT ![r] = q]
    <2>1. [req[r] EXCEPT !.pc = "save", !.perms = @ \cup Granted(rows, Public)]
             = [req[r] EXCEPT !.pc = "save", !.perms = p]
      OBVIOUS
    <2>2. req' = [req EXCEPT ![r] = [req[r] EXCEPT !.pc = "save", !.perms = p]]
      BY <2>1 DEF ReadPublicRows, Set
    <2>3. [req[r] EXCEPT !.pc = "save", !.perms = p] = q
      BY <1>2, ExceptFacts DEF IInv
    <2> QED BY <2>2, <2>3
  <1>4. \A b \in q.perms : age[q.user][b] = 0
    BY <1>1, <1>2 DEF IInv, AgesCount, Effective, Sound, Recent, Computing, ReadPublicRows
  <1>5. Computed(q)
    BY <1>2 DEF IInv, Sound, Computed, Effective, ReadPublicRows
  <1>a. Asks(q)
    BY <1>2, StillAsks DEF ReadPublicRows
  <1>6. Sound(q)
    BY <1>a, <1>2, <1>4, <1>5 DEF IInv, Sound, Recent, Justified, Computing
  <1> QED BY <1>2, <1>3, <1>6, RequestStep DEF ReadPublicRows

LEMMA CheckFailsStep == ASSUME IInv, NEW r \in Requests, CheckFails(r) PROVE IInv'
  <1>1. CASE ~(req[r].kind = "revoke" /\ req[r].need = {"SHARE"})
    BY <1>1, EndStep DEF CheckFails, End, Set
  <1>2. CASE req[r].kind = "revoke" /\ req[r].need = {"SHARE"}
    <2>b. PICK b \in BOOLEAN : b = TRUE
      OBVIOUS
    <2>1. PICK q \in Request :
             /\ q = With(r, "decide", {}, b)
             /\ q.pc = "decide" /\ q.perms = {}
             /\ q.kind = req[r].kind /\ q.user = req[r].user /\ q.need = req[r].need
      BY WithFacts DEF IInv
    <2>2. req' = [req EXCEPT ![r] = q]
      BY <1>2, <2>b, <2>1 DEF CheckFails, Set, With
    <2>a. Asks(q)
      BY <2>1, StillAsks DEF CheckFails
    <2>3. Sound(q)
      BY <2>a, <2>1 DEF IInv, Sound, Computed, Recent, Justified, Computing
    <2> QED BY <2>1, <2>2, <2>3, RequestStep DEF CheckFails
  <1> QED BY <1>1, <1>2

\* A request that was let through, to the handler or to the table.
LEMMA ThroughStep ==
    ASSUME IInv, NEW r \in Requests, NEW c \in {"serve", "write"}, req[r].pc = "decide",
           Set(r, [req[r] EXCEPT !.pc = c, !.perms = {}]),
           UNCHANGED <<live, rows, cache, age>>,
           \/ Has(req[r].perms, req[r].need)
           \/ Owns(req[r].user),
           c = "write" => req[r].kind \in {"grant", "share", "revoke"}
    PROVE  IInv'
  <1>1. PICK q \in Request :
           /\ q = With(r, c, {}, req[r].clean)
           /\ q.pc = c /\ q.perms = {}
           /\ q.kind = req[r].kind /\ q.user = req[r].user /\ q.need = req[r].need
    BY RequestFacts, WithFacts DEF IInv
  <1>2. req' = [req EXCEPT ![r] = q]
    <2>1. [req[r] EXCEPT !.pc = c, !.perms = {}] = q
      BY <1>1 DEF With, IInv, TypeOK, Request
    <2> QED BY <2>1 DEF Set
  <1>3. Sound(req[r])
    BY DEF IInv
  <1>4. ASSUME NEW p \in q.need, q.user # Owner PROVE age[q.user][p] < CacheTTL
    BY <1>1, <1>3, <1>4 DEF Sound, Recent, Has, Owns
  <1>5. Justified(q)
    <2>1. c = "write" => q.need = {"SHARE"} \/ q.need = {"ADMIN"}
      BY <1>1, <1>3 DEF Sound, Asks
    <2> QED BY <1>1, <1>4, <2>1 DEF Justified
  <1>6. Sound(q)
    BY <1>1, <1>3, <1>5 DEF Sound, Computed, Recent, Asks, Computing
  <1> QED BY <1>2, <1>6, RequestStep

LEMMA DecideAccessStep == ASSUME IInv, NEW r \in Requests, DecideAccess(r) PROVE IInv'
  <1>1. CASE Has(req[r].perms, req[r].need)
    BY <1>1, ThroughStep DEF DecideAccess
  <1>2. CASE ~Has(req[r].perms, req[r].need)
    BY <1>2, EndStep DEF DecideAccess
  <1> QED BY <1>1, <1>2

LEMMA DecideStep == ASSUME IInv, NEW r \in Requests, Decide(r) PROVE IInv'
  <1>1. CASE Has(req[r].perms, req[r].need) \/ Owns(req[r].user)
    <2>1. PICK c \in {"serve", "write"} : c = IF req[r].kind = "list" THEN "serve" ELSE "write"
      OBVIOUS
    <2>2. Set(r, [req[r] EXCEPT !.pc = c, !.perms = {}])
      BY <1>1, <2>1 DEF Decide
    <2> QED BY <1>1, <2>1, <2>2, ThroughStep DEF Decide
  <1>2. CASE ~(Has(req[r].perms, req[r].need) \/ Owns(req[r].user))
    BY <1>2, EndStep DEF Decide
  <1> QED BY <1>1, <1>2

LEMMA DecideRevokeStep == ASSUME IInv, NEW r \in Requests, DecideRevoke(r) PROVE IInv'
  <1>0. /\ req[r].pc = "decide" /\ req[r].kind = "revoke"
        /\ UNCHANGED <<live, rows, cache, age>>
    BY DEF DecideRevoke
  <1>1. CASE Has(req[r].perms, req[r].need)
    BY <1>0, <1>1, ThroughStep DEF DecideRevoke
  <1>2. CASE ~Has(req[r].perms, req[r].need) /\ req[r].need = {"ADMIN"}
    <2>1. "revoke" \in Kinds \cup {"create", "access"} /\ {"SHARE"} \in SUBSET Permissions
          /\ req[r].user \in Users
      BY <1>0, RequestFacts DEF IInv, Permissions
    <2>2. PICK q : q = Start("revoke", req[r].user, {"SHARE"})
      OBVIOUS
    <2>3. /\ q \in Request /\ q.pc = "cache" /\ q.kind = "revoke"
          /\ q.need = {"SHARE"}
      BY <2>1, <2>2, StartFacts
    <2>4. Sound(q)
      <3>1. "SHARE" \in Permissions
        BY DEF Permissions
      <3> QED BY <2>3, <3>1 DEF Sound, Computed, Recent, Justified, Asks, Computing
    <2>5. req' = [req EXCEPT ![r] = q]
      BY <1>2, <2>2 DEF DecideRevoke, Set
    <2> QED BY <1>0, <2>3, <2>4, <2>5, RequestStep
  <1>3. CASE ~Has(req[r].perms, req[r].need) /\ req[r].need # {"ADMIN"} /\ Owns(req[r].user)
    BY <1>0, <1>3, ThroughStep DEF DecideRevoke
  <1>4. CASE ~Has(req[r].perms, req[r].need) /\ req[r].need # {"ADMIN"} /\ ~Owns(req[r].user)
    BY <1>0, <1>4, EndStep DEF DecideRevoke
  <1> QED BY <1>1, <1>2, <1>3, <1>4

-----------------------------------------------------------------------------
(* The cache *)

LEMMA CacheStep == ASSUME IInv, NEW r \in Requests, CachePermissions(r) PROVE IInv'
  <1> DEFINE u == req[r].user
  <1>b. PICK b \in BOOLEAN : b = TRUE
    OBVIOUS
  <1>1. u \in Users /\ req[r].perms \in SUBSET Permissions /\ req[r].clean \in BOOLEAN
    BY RequestFacts DEF IInv
  <1>2. PICK q \in Request :
           /\ q = With(r, "decide", req[r].perms, b)
           /\ q.pc = "decide" /\ q.perms = req[r].perms
           /\ q.kind = req[r].kind /\ q.user = u /\ q.need = req[r].need
    BY <1>1, WithFacts DEF IInv
  <1>3. req' = [req EXCEPT ![r] = q]
    <2>1. [req[r] EXCEPT !.pc = "decide", !.clean = TRUE] = q
      BY <1>b, <1>2 DEF With, IInv, TypeOK, Request
    <2> QED BY <2>1 DEF CachePermissions, Set
  <1>4. Sound(req[r]) /\ req[r].pc = "save"
    BY DEF IInv, CachePermissions
  <1>5. \A p \in req[r].perms : age[u][p] = 0
    BY <1>4 DEF Sound, Recent, Computing
  <1>6. Sound(q)
    BY <1>2, <1>4, <1>5, TimeAssumption DEF Sound, Computed, Recent, Justified, Asks, Computing
  <1>7. CASE UNCHANGED cache
    BY <1>3, <1>6, <1>7, RequestStep DEF CachePermissions
  <1>8. CASE cache' = [cache EXCEPT ![u] = [perms |-> req[r].perms, left |-> CacheTTL,
                                             clean |-> req[r].clean]]
    <2>d. PICK d \in BOOLEAN : d = req[r].clean
      BY <1>1
    <2>1. PICK e \in Entry : e = [perms |-> req[r].perms, left |-> CacheTTL, clean |-> d]
      <3>1. CacheTTL \in 0..CacheTTL
        BY TimeAssumption
      <3> QED BY <1>1, <2>d, <3>1 DEF Entry
    <2>2. e.perms = req[r].perms /\ e.left = CacheTTL /\ (e.clean => req[r].clean)
      <3>1. e.perms = req[r].perms /\ e.left = CacheTTL
        BY <2>1
      <3>2. e.clean = d
        BY <2>1, Zenon
      <3> QED BY <2>d, <3>1, <3>2
    <2>3. /\ cache' \in [Users -> Entry] /\ cache'[u] = e
          /\ \A v \in Users \ {u} : cache'[v] = cache[v]
      BY <1>1, <1>8, <2>d, <2>1 DEF IInv, TypeOK
    <2>4. UNCHANGED live /\ UNCHANGED rows /\ UNCHANGED age
      BY DEF CachePermissions
    <2>5. /\ req' \in [Requests -> Request] /\ req'[r] = q
          /\ \A s \in Requests \ {r} : req'[s] = req[s]
      BY <1>3, SetFacts DEF IInv
    <2>6. TypeOK'
      BY <2>3, <2>4, <2>5 DEF IInv, TypeOK
    <2>7. \A v : Effective(rows, v)' = Effective(rows, v)
      BY <2>4 DEF Effective, Granted, GrantedToTeams
    <2>8. e.clean => e.perms = Effective(rows, u)
      BY <1>4, <2>2 DEF Sound, Computed
    <2>9. CacheIsCurrent'
      BY <2>3, <2>7, <2>8 DEF IInv, CacheIsCurrent
    <2>10. \A p \in e.perms : age[u][p] + e.left <= CacheTTL
      BY <1>5, <2>2, TimeAssumption
    <2>11. AgesCount'
      BY <2>3, <2>4, <2>7, <2>10 DEF IInv, AgesCount
    <2>12. ASSUME NEW s \in Requests PROVE Sound(req[s])'
      <3>1. PICK c : c = req'[s] /\ Sound(c)
        BY <1>6, <2>5 DEF IInv
      <3> QED BY <2>4, <3>1, StaysSound
    <2> QED BY <2>6, <2>9, <2>11, <2>12 DEF IInv
  <1> QED BY <1>7, <1>8 DEF CachePermissions

-----------------------------------------------------------------------------
(* The table *)

LEMMA UpsertType ==
    ASSUME NEW rs \in SUBSET ACL, NEW g \in Grantees, NEW p \in SUBSET Permissions,
           NEW l \in 0..Never
    PROVE  Upsert(rs, [to |-> g, perms |-> p, left |-> l]) \in SUBSET ACL
  BY DEF Upsert, ACL

LEMMA OvertakenAfter ==
    ASSUME TypeOK, \/ req' = Overtaken
                   \/ \E r \in Requests : req' = [Overtaken EXCEPT ![r] = Idle]
    PROVE  AfterChange
  BY OvertakenFacts, IdleFacts DEF AfterChange

LEMMA GrantTaskAccessStep ==
    ASSUME IInv, NEW r \in Requests, NEW g \in Grantees, GrantTaskAccess(r, g) PROVE IInv'
  <1>1. RoleViewer \in SUBSET Permissions /\ Never \in 0..Never
    BY TimeAssumption DEF RoleViewer, Permissions, Never
  <1>2. Upsert(rows, [to |-> g, perms |-> RoleViewer, left |-> Never]) \in SUBSET ACL
    BY <1>1, UpsertType DEF IInv, TypeOK
  <1>3. AfterChange
    BY OvertakenAfter DEF IInv, GrantTaskAccess
  <1> QED BY <1>2, <1>3, ChangeStep DEF GrantTaskAccess

LEMMA GrantACLStep ==
    ASSUME IInv, NEW r \in Requests, NEW g \in Grantees, GrantACL(r, g) \/ ShareTarget(r, g)
    PROVE  IInv'
  <1>1. PICK p \in Roles, l \in Lives :
           ChangeRows(Upsert(rows, [to |-> g, perms |-> p, left |-> l]))
    BY DEF GrantACL, ShareTarget
  <1>2. p \in SUBSET Permissions /\ l \in 0..Never
    BY RolesAssumption, LivesAssumption
  <1>3. Upsert(rows, [to |-> g, perms |-> p, left |-> l]) \in SUBSET ACL
    BY <1>2, UpsertType DEF IInv, TypeOK
  <1>4. AfterChange
    BY OvertakenAfter DEF IInv, GrantACL, ShareTarget
  <1> QED BY <1>1, <1>3, <1>4, ChangeStep

LEMMA RevokeStep == ASSUME IInv, NEW r \in Requests, RevokeACL(r) PROVE IInv'
  <1>1. PICK a \in rows : ChangeRows({b \in rows : b.to # a.to})
    BY DEF RevokeACL
  <1>2. {b \in rows : b.to # a.to} \in SUBSET ACL
    BY DEF IInv, TypeOK
  <1>3. AfterChange
    BY OvertakenAfter DEF IInv, RevokeACL
  <1> QED BY <1>1, <1>2, <1>3, ChangeStep

LEMMA CleanupStep == ASSUME IInv, Cleanup PROVE IInv'
  <1>1. {a \in rows : a.left > 0} \in SUBSET ACL
    BY DEF IInv, TypeOK
  <1>2. AfterChange
    BY OvertakenAfter DEF IInv, Cleanup
  <1> QED BY <1>1, <1>2, ChangeStep DEF Cleanup

-----------------------------------------------------------------------------
(* Time *)

LEMMA TickStep == ASSUME IInv, Tick PROVE IInv'
  <1>1. /\ \A r \in Requests : req[r].pc = "idle"
        /\ rows' = Elapsed(rows) /\ UNCHANGED live /\ UNCHANGED req
    BY DEF Tick
  <1>2. /\ rows' \subseteq ACL
        /\ \A u : Effective(rows, u)' = Effective(Elapsed(rows), u)
        /\ \A u : Effective(rows, u)' \subseteq Effective(rows, u)
    <2>1. \A u : Effective(rows, u)' = Effective(Elapsed(rows), u)
      BY <1>1 DEF Effective, Granted, GrantedToTeams
    <2> QED BY <1>1, <2>1, ElapsedFacts DEF IInv, TypeOK
  <1>3. ASSUME NEW u \in Users
        PROVE  /\ cache'[u] \in Entry
               /\ cache'[u].perms = cache[u].perms
               /\ cache'[u].left = IF cache[u].left = 0 THEN 0 ELSE cache[u].left - 1
               /\ cache'[u].clean => /\ cache[u].clean
                                     /\ Effective(rows, u)' = Effective(rows, u)
    <2>1. cache[u] \in Entry /\ cache[u].left \in 0..CacheTTL
      BY DEF IInv, TypeOK, Entry
    <2>2. PICK l \in 0..CacheTTL : l = IF cache[u].left = 0 THEN 0 ELSE cache[u].left - 1
      BY <2>1, TimeAssumption
    <2>3. PICK b \in BOOLEAN :
             b = (cache[u].clean /\ Effective(Elapsed(rows), u) = Effective(rows, u))
      OBVIOUS
    <2>4. cache'[u] = [cache[u] EXCEPT !.left = l, !.clean = b]
      BY <2>2, <2>3 DEF Tick
    <2>5. PICK e \in Entry : e = [cache[u] EXCEPT !.left = l, !.clean = b]
      BY <2>1 DEF Entry
    <2>6. e.perms = cache[u].perms /\ e.left = l
      BY <2>1, <2>5 DEF Entry
    <2>7. e.clean = b
      BY <2>1, <2>5 DEF Entry
    <2>8. b => cache[u].clean /\ Effective(rows, u)' = Effective(rows, u)
      BY <1>2, <2>3
    <2> QED BY <2>2, <2>4, <2>5, <2>6, <2>7, <2>8
  <1>4. ASSUME NEW u \in Users, NEW p \in Permissions
        PROVE  /\ age[u][p] \in 0..CacheTTL /\ age'[u][p] \in 0..CacheTTL
               /\ age'[u][p] = IF p \in Effective(rows, u) THEN 0
                               ELSE IF age[u][p] = CacheTTL THEN CacheTTL ELSE age[u][p] + 1
    <2>1. age[u][p] \in 0..CacheTTL
      BY DEF IInv, TypeOK
    <2>2. age'[u][p] = IF p \in Effective(rows, u) THEN 0
                       ELSE IF age[u][p] = CacheTTL THEN CacheTTL ELSE age[u][p] + 1
      BY DEF Tick
    <2> QED BY <2>1, <2>2, TimeAssumption
  <1>5. TypeOK'
    <2>1. cache' \in [Users -> Entry]
      BY <1>3 DEF Tick
    <2>2. age' \in [Users -> [Permissions -> 0..CacheTTL]]
      <3>1. \A u \in Users : age'[u] = [p \in Permissions |-> age'[u][p]]
        BY DEF Tick
      <3>2. \A u \in Users : age'[u] \in [Permissions -> 0..CacheTTL]
        BY <1>4, <3>1
      <3> QED BY <3>2 DEF Tick
    <2> QED BY <1>1, <1>2, <2>1, <2>2 DEF IInv, TypeOK
  <1>6. CacheIsCurrent'
    <2>1. ASSUME NEW u \in Users, cache'[u].left > 0, cache'[u].clean
          PROVE  cache'[u].perms = Effective(rows, u)'
      <3>1. cache[u].left \in 0..CacheTTL /\ cache[u].left > 0
        BY <1>3, <2>1, TimeAssumption DEF IInv, TypeOK, Entry
      <3> QED BY <1>3, <2>1, <3>1 DEF IInv, CacheIsCurrent
    <2> QED BY <2>1 DEF CacheIsCurrent
  <1>7. AgesCount'
    <2>1. ASSUME NEW u \in Users, NEW p \in Effective(rows, u)' PROVE age'[u][p] = 0
      <3>1. p \in Effective(rows, u) /\ p \in Permissions
        BY <1>2, EffectiveType DEF IInv, TypeOK
      <3> QED BY <1>4, <3>1
    <2>2. ASSUME NEW u \in Users, cache'[u].left > 0, NEW p \in cache'[u].perms
          PROVE  age'[u][p] + cache'[u].left <= CacheTTL
      <3>1. /\ cache[u].left \in 0..CacheTTL /\ cache[u].left > 0 /\ p \in Permissions
            /\ p \in cache[u].perms /\ cache'[u].left = cache[u].left - 1
        BY <1>3, <2>2, TimeAssumption DEF IInv, TypeOK, Entry
      <3>2. age[u][p] + cache[u].left <= CacheTTL
        BY <3>1 DEF IInv, AgesCount
      <3> QED BY <1>4, <3>1, <3>2, TimeAssumption
    <2> QED BY <2>1, <2>2 DEF AgesCount
  <1>8. ASSUME NEW s \in Requests PROVE Sound(req[s])'
    <2>1. PICK c : c = req'[s] /\ c = req[s] /\ c.pc = "idle" /\ Asks(c)
      BY <1>1 DEF IInv, Sound
    <2>2. Sound(c)'
      BY <2>1 DEF Sound, Computed, Recent, Justified, Asks, Computing
    <2> QED BY <2>1, <2>2
  <1> QED BY <1>5, <1>6, <1>7, <1>8 DEF IInv

-----------------------------------------------------------------------------
(* The invariant *)

LEMMA Initially == Init => IInv
  <1> SUFFICES ASSUME Init PROVE IInv
    OBVIOUS
  <1>1. PICK r \in Requests : req = [s \in Requests |->
          IF s = r THEN [Start("create", Owner, {}) EXCEPT !.pc = "write"] ELSE Idle]
    BY DEF Init
  <1>2. PICK q \in Request : /\ q = [Start("create", Owner, {}) EXCEPT !.pc = "write"]
                             /\ q.pc = "write" /\ q.kind = "create" /\ q.user = Owner
    <2>1. PICK s \in Request : s = Start("create", Owner, {}) /\ s.kind = "create" /\ s.user = Owner
      BY StartFacts, UsersAssumption
    <2>2. PICK q \in Request : q = [s EXCEPT !.pc = "write"]
      BY <2>1 DEF Request
    <2>3. q.pc = "write" /\ q.kind = "create" /\ q.user = Owner
      BY <2>1, <2>2 DEF Request
    <2> QED BY <2>1, <2>2, <2>3
  <1>3. Sound(q)
    BY <1>2 DEF Sound, Computed, Recent, Justified, Asks, Computing
  <1>4. req \in [Requests -> Request] /\ \A s \in Requests : Sound(req[s])
    <2>1. \A s \in Requests : req[s] = q \/ req[s] = Idle
      BY <1>1, <1>2
    <2> QED BY <1>1, <1>3, <2>1, IdleFacts
  <1>5. NoEntry \in Entry /\ NoEntry.left = 0
    BY TimeAssumption DEF NoEntry, Entry
  <1>6. TypeOK
    <2>1. age \in [Users -> [Permissions -> 0..CacheTTL]]
      BY TimeAssumption DEF Init
    <2> QED BY <1>4, <1>5, <2>1 DEF Init, TypeOK
  <1>7. \A u \in Users : Effective(rows, u) = {} /\ ~(cache[u].left > 0)
    <2>1. \A g : Granted({}, g) = {}
      BY DEF Granted
    <2>2. \A u : Effective(rows, u) = {}
      BY <2>1 DEF Init, Effective, GrantedToTeams
    <2>3. \A u \in Users : cache[u] = NoEntry
      BY DEF Init
    <2>4. ~(NoEntry.left > 0)
      BY <1>5
    <2> QED BY <2>2, <2>3, <2>4
  <1>8. CacheIsCurrent /\ AgesCount
    BY <1>7 DEF CacheIsCurrent, AgesCount
  <1> QED BY <1>4, <1>6, <1>8 DEF IInv

LEMMA Inductive == IInv /\ [Next]_vars => IInv'
  <1> SUFFICES ASSUME IInv, [Next]_vars PROVE IInv'
    OBVIOUS
  <1>1. ASSUME NEW r \in Requests, Step(r) PROVE IInv'
    <2>1. CASE Route(r)
      BY <2>1, RouteStep
    <2>2. CASE Check(r)
      BY <2>2, CheckOwnerStep, ReadCacheStep, ReadUserStep, ReadTeamStep, ReadPublicStep,
         CacheStep, CheckFailsStep, DecideAccessStep, DecideStep, DecideRevokeStep DEF Check
    <2>3. CASE Serve(r) \/ StopWriting(r)
      BY <2>3, EndStep DEF Serve, StopWriting
    <2>4. CASE Write(r)
      BY <2>3, <2>4, GrantTaskAccessStep, GrantACLStep, RevokeStep DEF Write
    <2> QED BY <1>1, <2>1, <2>2, <2>3, <2>4, DeleteStep DEF Step
  <1>2. CASE Tick \/ Cleanup
    BY <1>2, TickStep, CleanupStep
  <1>3. CASE UNCHANGED vars
    <2>1. TypeOK' /\ CacheIsCurrent' /\ AgesCount'
      BY <1>3 DEF vars, IInv, TypeOK, CacheIsCurrent, AgesCount, Effective, Granted, GrantedToTeams
    <2>2. ASSUME NEW s \in Requests PROVE Sound(req[s])'
      <3>1. PICK c : c = req'[s] /\ Sound(c)
        BY <1>3 DEF vars, IInv
      <3> QED BY <1>3, <3>1, StaysSound DEF vars
    <2> QED BY <2>1, <2>2 DEF IInv
  <1> QED BY <1>1, <1>2, <1>3 DEF Next

LEMMA Invariant == Spec => []IInv
  BY Initially, Inductive, PTL DEF Spec

-----------------------------------------------------------------------------
(* Theorems *)

\* The table, the cache, the requests and the ages keep their types.
THEOREM TypeCorrect == Spec => []TypeOK
  <1>1. IInv => TypeOK
    BY DEF IInv
  <1> QED BY <1>1, Invariant, PTL

\* An entry that nothing overtook is what the function would compute now
\* (migrations/004:79-139).
THEOREM CacheCorrect == Spec => []CacheIsCurrent
  <1>1. IInv => CacheIsCurrent
    BY DEF IInv
  <1> QED BY <1>1, Invariant, PTL

\* On the routes that check, a permission that was lost is used for less than one
\* lifetime of a cache entry, whatever races with the check
\* (acl/repository.go:155-218).  A sync does not check.
THEOREM StalenessBounded == Spec => []DecisionsJustified
  <1>1. IInv => DecisionsJustified
    BY DEF IInv, Sound, Justified, DecisionsJustified, HeldLately
  <1> QED BY <1>1, Invariant, PTL

-----------------------------------------------------------------------------
(* The steps, seen from outside: what users hold, who was let through.     *)

Out == {"serve", "write"}

AsServing(f, r) == [req |-> r, user |-> f[r].user, need |-> f[r].need,
                    checked |-> f[r].kind # "sync"]
AsWriting(f, r) == [req |-> r, user |-> f[r].user]

\* The abstract actions, in the names of this module.
LEMMA RightsActions ==
    ASSUME NEW r \in Requests, NEW u \in Users, NEW p, NEW a
    PROVE  /\ Access!New(r) <=> \A b \in Serving \cup Writing : b.req # r
           /\ Access!Owns(u) <=> Owns(u)
           /\ Access!Lately(u, p) <=> age[u][p] < CacheTTL
           /\ Access!Admit(r, u, p) <=>
                 /\ Access!New(r) /\ (Access!Owns(u) \/ Access!Lately(u, p))
                 /\ Serving' = Serving \cup
                       {[req |-> r, user |-> u, need |-> {p}, checked |-> TRUE]}
                 /\ UNCHANGED <<live, Held, age, Writing>>
           /\ Access!AdmitUnchecked(r, u, p) <=>
                 /\ p \in {"WRITE", "DELETE"} /\ Access!New(r)
                 /\ Serving' = Serving \cup
                       {[req |-> r, user |-> u, need |-> {p}, checked |-> FALSE]}
                 /\ UNCHANGED <<live, Held, age, Writing>>
           /\ Access!AdmitWriter(r, u) <=>
                 /\ Access!New(r)
                 /\ Access!Owns(u) \/ Access!Lately(u, "SHARE") \/ Access!Lately(u, "ADMIN")
                 /\ Writing' = Writing \cup {[req |-> r, user |-> u]}
                 /\ UNCHANGED <<live, Held, age, Serving>>
           /\ Access!Change(a) <=>
                 /\ a \in Writing
                 /\ Held' \in [Users -> SUBSET Permissions]
                 /\ age' = [v \in Users |-> [b \in Permissions |->
                              IF b \in Held'[v] THEN 0 ELSE age[v][b]]]
                 /\ Writing' \in {Writing, Writing \ {a}}
                 /\ UNCHANGED <<live, Serving>>
           /\ Access!End(a) <=>
                 /\ Serving' = Serving \ {a} /\ Writing' = Writing \ {a}
                 /\ UNCHANGED <<live, Held, age>>
  BY DEF Access!New, Access!Owns, Owns, Access!Lately, Access!Admit, Access!AdmitUnchecked,
         Access!AdmitWriter, Access!Change, Access!End

\* A step that an outsider sees nothing of, or one of the promise.
Permitted == Access!Next \/ UNCHANGED <<live, Held, age, Serving, Writing>>

LEMMA PermittedStep == Permitted => [Access!Next]_(Access!vars)
  BY DEF Permitted, Access!vars

\* Who is let through depends on what is asked only of those let through.
LEMMA SameLists ==
    ASSUME NEW f, NEW g,
           \A s \in Requests : /\ f[s].pc = g[s].pc \/ (f[s].pc \notin Out /\ g[s].pc \notin Out)
                               /\ g[s].pc \in Out => /\ f[s].user = g[s].user
                                                      /\ f[s].need = g[s].need
                                                      /\ f[s].kind = g[s].kind
    PROVE  ServingOf(f) = ServingOf(g) /\ WritingOf(f) = WritingOf(g)
  BY DEF ServingOf, WritingOf, Out

LEMMA NotListed ==
    ASSUME NEW f, NEW r \in Requests
    PROVE  /\ f[r].pc # "serve" => \A a \in ServingOf(f) : a.req # r
           /\ f[r].pc # "write" => \A a \in WritingOf(f) : a.req # r
  BY DEF ServingOf, WritingOf

LEMMA Joins ==
    ASSUME NEW f, NEW g, NEW r \in Requests, f[r].pc \notin Out,
           \A s \in Requests \ {r} : f[s] = g[s]
    PROVE  /\ g[r].pc = "serve" => /\ ServingOf(g) = ServingOf(f) \cup {AsServing(g, r)}
                                   /\ WritingOf(g) = WritingOf(f)
           /\ g[r].pc = "write" => /\ WritingOf(g) = WritingOf(f) \cup {AsWriting(g, r)}
                                   /\ ServingOf(g) = ServingOf(f)
  BY DEF ServingOf, WritingOf, Out, AsServing, AsWriting

LEMMA Leaves ==
    ASSUME NEW f, NEW g, NEW r \in Requests, g[r].pc \notin Out,
           \A s \in Requests \ {r} : f[s] = g[s]
    PROVE  /\ f[r].pc = "serve" => /\ AsServing(f, r) \in ServingOf(f)
                                   /\ ServingOf(g) = ServingOf(f) \ {AsServing(f, r)}
                                   /\ WritingOf(g) = WritingOf(f) \ {AsServing(f, r)}
           /\ f[r].pc = "write" => /\ AsWriting(f, r) \in WritingOf(f)
                                   /\ WritingOf(g) = WritingOf(f) \ {AsWriting(f, r)}
                                   /\ ServingOf(g) = ServingOf(f) \ {AsWriting(f, r)}
  <1>1. CASE f[r].pc = "serve"
    <2>0. AsServing(f, r).req = r
      BY DEF AsServing
    <2>1. PICK a : a = AsServing(f, r) /\ a.req = r
      BY <2>0
    <2>2. WritingOf(f) \ {a} = WritingOf(f)
      BY <1>1, <2>1, NotListed
    <2>3. WritingOf(g) = WritingOf(f)
      BY <1>1 DEF WritingOf, Out
    <2>4. a \in ServingOf(f)
      BY <1>1, <2>1 DEF ServingOf, AsServing
    <2>5. \A b \in ServingOf(f) : b.req = r => b = a
      BY <2>1 DEF ServingOf, AsServing
    <2>6. \A b \in ServingOf(f) : b.req # r => b \in ServingOf(g)
      BY DEF ServingOf
    <2>7. \A b \in ServingOf(g) : b \in ServingOf(f) /\ b.req # r
      BY DEF ServingOf, Out
    <2>8. ServingOf(g) = ServingOf(f) \ {a}
      BY <2>1, <2>5, <2>6, <2>7
    <2> QED BY <1>1, <2>1, <2>2, <2>3, <2>4, <2>8
  <1>2. CASE f[r].pc = "write"
    <2>0. AsWriting(f, r).req = r
      BY DEF AsWriting
    <2>1. PICK a : a = AsWriting(f, r) /\ a.req = r
      BY <2>0
    <2>2. ServingOf(f) \ {a} = ServingOf(f)
      BY <1>2, <2>1, NotListed
    <2>3. ServingOf(g) = ServingOf(f)
      BY <1>2 DEF ServingOf, Out
    <2>4. a \in WritingOf(f)
      BY <1>2, <2>1 DEF WritingOf, AsWriting
    <2>5. \A b \in WritingOf(f) : b.req = r => b = a
      BY <2>1 DEF WritingOf, AsWriting
    <2>6. \A b \in WritingOf(f) : b.req # r => b \in WritingOf(g)
      BY DEF WritingOf
    <2>7. \A b \in WritingOf(g) : b \in WritingOf(f) /\ b.req # r
      BY DEF WritingOf, Out
    <2>8. WritingOf(g) = WritingOf(f) \ {a}
      BY <2>1, <2>5, <2>6, <2>7
    <2> QED BY <1>2, <2>1, <2>2, <2>3, <2>4, <2>8
  <1> QED BY <1>1, <1>2

-----------------------------------------------------------------------------
(* A step of one request *)

\* What a step of request r that changes nothing else does to it.
Quiet(r) == /\ \A s \in Requests \ {r} : req'[s] = req[s]
            /\ req[r].pc \notin Out /\ req'[r].pc \notin Out
Ends(r)  == /\ \A s \in Requests \ {r} : req'[s] = req[s]
            /\ req[r].pc \in Out /\ req'[r].pc = "idle"
\* Let through by an owner, or with the permission it asked for in hand.
Enters(r) ==
    /\ \A s \in Requests \ {r} : req'[s] = req[s]
    /\ req[r].pc \notin Out \cup {"idle"} /\ req'[r].pc \in Out
    /\ req'[r].user = req[r].user /\ req'[r].need = req[r].need
    /\ req'[r].kind # "sync"
    /\ \/ Owns(req[r].user)
       \/ req[r].pc = "decide" /\ Has(req[r].perms, req[r].need)
    /\ req'[r].pc = "write" => req[r].need \in {{"SHARE"}, {"ADMIN"}}

LEMMA SameHeld == ASSUME UNCHANGED rows PROVE UNCHANGED Held
  BY DEF Held, Effective, Granted, GrantedToTeams

LEMMA QuietPermitted ==
    ASSUME NEW r \in Requests, Quiet(r), UNCHANGED <<live, rows, age>>
    PROVE  Permitted
  <1>1. PICK f, g : f = req /\ g = req'
    OBVIOUS
  <1>2. ServingOf(f) = ServingOf(g) /\ WritingOf(f) = WritingOf(g)
    BY <1>1, SameLists DEF Quiet
  <1>3. UNCHANGED Serving /\ UNCHANGED Writing
    BY <1>1, <1>2 DEF Serving, Writing, ServingOf, WritingOf
  <1> QED BY <1>3, SameHeld DEF Permitted

LEMMA EndsPermitted ==
    ASSUME NEW r \in Requests, Ends(r), UNCHANGED <<live, rows, age>>
    PROVE  Permitted
  <1>1. PICK f, g : f = req /\ g = req'
    OBVIOUS
  <1>2. /\ Serving = ServingOf(f) /\ Serving' = ServingOf(g)
        /\ Writing = WritingOf(f) /\ Writing' = WritingOf(g)
    BY <1>1 DEF Serving, Writing, ServingOf, WritingOf
  <1>3. PICK a \in Serving \cup Writing : Serving' = Serving \ {a} /\ Writing' = Writing \ {a}
    <2>1. /\ g[r].pc \notin Out /\ (f[r].pc = "serve" \/ f[r].pc = "write")
          /\ \A s \in Requests \ {r} : f[s] = g[s]
      BY <1>1 DEF Ends, Out
    <2> QED BY <1>2, <2>1, Leaves
  <1>4. Access!End(a)
    BY <1>3, RightsActions, SameHeld, UsersAssumption
  <1> QED BY <1>3, <1>4 DEF Permitted, Access!Next

LEMMA EntersPermitted ==
    ASSUME IInv, NEW r \in Requests, Enters(r), UNCHANGED <<live, rows, age>>
    PROVE  Permitted
  <1>1. PICK f, g : f = req /\ g = req'
    OBVIOUS
  <1>2. /\ Serving = ServingOf(f) /\ Serving' = ServingOf(g)
        /\ Writing = WritingOf(f) /\ Writing' = WritingOf(g)
    BY <1>1 DEF Serving, Writing, ServingOf, WritingOf
  <1>3. /\ f[r].pc \notin Out /\ (g[r].pc = "serve" \/ g[r].pc = "write")
        /\ \A s \in Requests \ {r} : f[s] = g[s]
    BY <1>1 DEF Enters, Out
  <1>4. PICK u \in Users : u = g[r].user /\ u = req[r].user
    <2>1. req[r].user \in Users
      BY RequestFacts DEF IInv
    <2> QED BY <1>1, <2>1 DEF Enters
  <1>a. PICK p \in Permissions : req[r].need = {p}
    <2>1. Asks(req[r]) /\ req[r].pc \notin {"idle", "write"}
      BY DEF IInv, Sound, Enters, Out
    <2>2. PICK q : q = req[r]
      OBVIOUS
    <2>3. \E p \in Permissions : q.need = {p}
      BY <2>1, <2>2 DEF Asks
    <2> QED BY <2>2, <2>3
  <1>5. g[r].need = {p} /\ req[r].need = {p}
    <2>1. g[r].need = req[r].need
      BY <1>1 DEF Enters
    <2> QED BY <1>a, <2>1
  <1>6. Access!New(r)
    <2>1. \A a \in Serving \cup Writing : a.req # r
      BY <1>2, <1>3, NotListed DEF Out
    <2> QED BY <2>1 DEF Access!New
  <1>7. Access!Owns(u) \/ Access!Lately(u, p)
    <2>1. CASE Owns(u)
      BY <2>1, RightsActions
    <2>2. CASE req[r].pc = "decide" /\ Has(req[r].perms, req[r].need)
      <3>1. Recent(req[r])
        BY DEF IInv, Sound
      <3>2. age[u][p] < CacheTTL
        BY <1>4, <1>5, <2>2, <3>1 DEF Recent, Has
      <3> QED BY <3>2, RightsActions
    <2> QED BY <1>4, <2>1, <2>2 DEF Enters
  <1>8. UNCHANGED <<live, Held, age>>
    BY SameHeld
  <1>b. \A a \in Serving \cup Writing : a.req # r
    BY <1>6 DEF Access!New
  <1>9. CASE g[r].pc = "serve"
    <2>a. ServingOf(g) = ServingOf(f) \cup {AsServing(g, r)} /\ WritingOf(g) = WritingOf(f)
      BY <1>3, <1>9, Joins
    <2>b. AsServing(g, r) = [req |-> r, user |-> u, need |-> {p}, checked |-> TRUE]
      <3>1. g[r].kind # "sync"
        BY <1>1 DEF Enters
      <3> QED BY <1>4, <1>5, <3>1 DEF AsServing
    <2>1. /\ Serving' = Serving \cup {[req |-> r, user |-> u, need |-> {p}, checked |-> TRUE]}
          /\ UNCHANGED Writing
      BY <1>2, <2>a, <2>b
    <2>c. Serving' # Serving
      <3>1. PICK e : e = [req |-> r, user |-> u, need |-> {p}, checked |-> TRUE]
        OBVIOUS
      <3>2. e.req = r /\ e \in Serving'
        BY <2>1, <3>1
      <3> QED BY <1>b, <3>2
    <2>2. Access!Admit(r, u, p)
      BY <1>6, <1>7, <1>8, <2>1, RightsActions
    <2> QED BY <2>2, <2>c DEF Permitted, Access!Next
  <1>10. CASE g[r].pc = "write"
    <2>a. WritingOf(g) = WritingOf(f) \cup {AsWriting(g, r)} /\ ServingOf(g) = ServingOf(f)
      BY <1>3, <1>10, Joins
    <2>b. AsWriting(g, r) = [req |-> r, user |-> u]
      BY <1>4 DEF AsWriting
    <2>1. Writing' = Writing \cup {[req |-> r, user |-> u]} /\ UNCHANGED Serving
      BY <1>2, <2>a, <2>b
    <2>c. Writing' # Writing
      <3>1. PICK e : e = [req |-> r, user |-> u]
        OBVIOUS
      <3>2. e.req = r /\ e \in Writing'
        BY <2>1, <3>1
      <3> QED BY <1>b, <3>2
    <2>2. p = "SHARE" \/ p = "ADMIN"
      BY <1>1, <1>5, <1>10 DEF Enters
    <2>3. Access!AdmitWriter(r, u)
      BY <1>6, <1>7, <1>8, <2>1, <2>2, RightsActions
    <2> QED BY <2>3, <2>c DEF Permitted, Access!Next
  <1> QED BY <1>3, <1>9, <1>10

\* A request of a sync is let through as it arrives.
LEMMA SyncPermitted ==
    ASSUME TypeOK, NEW r \in Requests, SyncTasks(r)
    PROVE  Permitted
  <1>1. PICK f, g : f = req /\ g = req'
    OBVIOUS
  <1>2. /\ Serving = ServingOf(f) /\ Serving' = ServingOf(g)
        /\ Writing = WritingOf(f) /\ Writing' = WritingOf(g)
    BY <1>1 DEF Serving, Writing, ServingOf, WritingOf
  <1>3. PICK u \in Users, p \in {"WRITE", "DELETE"} :
           req' = [req EXCEPT ![r] = Synced(u, p)]
    BY DEF SyncTasks, Set, Synced
  <1>4. p \in Permissions /\ "sync" \in Kinds /\ f[r].pc = "idle"
    BY <1>1 DEF Permissions, SyncTasks
  <1>5. g[r] = Synced(u, p) /\ \A s \in Requests \ {r} : f[s] = g[s]
    BY <1>1, <1>3 DEF TypeOK
  <1>6. g[r].pc = "serve" /\ g[r].kind = "sync" /\ g[r].user = u /\ g[r].need = {p}
    BY <1>4, <1>5, SyncedFacts
  <1>7. f[r].pc \notin Out
    BY <1>4 DEF Out
  <1>8. ServingOf(g) = ServingOf(f) \cup {AsServing(g, r)} /\ WritingOf(g) = WritingOf(f)
    BY <1>5, <1>6, <1>7, Joins
  <1>9. AsServing(g, r) = [req |-> r, user |-> u, need |-> {p}, checked |-> FALSE]
    BY <1>6 DEF AsServing
  <1>10. \A a \in Serving \cup Writing : a.req # r
    BY <1>2, <1>7, NotListed DEF Out
  <1>11. /\ Serving' = Serving \cup {[req |-> r, user |-> u, need |-> {p}, checked |-> FALSE]}
         /\ UNCHANGED Writing
    BY <1>2, <1>8, <1>9
  <1>12. Serving' # Serving
    <2>1. PICK e : e = [req |-> r, user |-> u, need |-> {p}, checked |-> FALSE]
      OBVIOUS
    <2>2. e.req = r /\ e \in Serving'
      BY <1>11, <2>1
    <2> QED BY <1>10, <2>2
  <1>13. UNCHANGED <<live, Held, age>>
    BY SameHeld DEF SyncTasks
  <1>14. Access!New(r)
    BY <1>10 DEF Access!New
  <1>15. Access!AdmitUnchecked(r, u, p)
    BY <1>11, <1>13, <1>14, RightsActions
  <1> QED BY <1>4, <1>12, <1>15 DEF Permitted, Access!Next

\* Every step of a check is one of the three.
OneOf(r) == Quiet(r) \/ Ends(r) \/ Enters(r)

LEMMA SetEffect ==
    ASSUME TypeOK, NEW r \in Requests, NEW q, Set(r, q)
    PROVE  /\ req'[r] = q /\ \A s \in Requests \ {r} : req'[s] = req[s]
  BY DEF TypeOK, Set

LEMMA IdleEffect ==
    ASSUME TypeOK, NEW r \in Requests, End(r)
    PROVE  OneOf(r)
  <1>1. req'[r].pc = "idle" /\ \A s \in Requests \ {r} : req'[s] = req[s]
    BY SetEffect, IdleFacts DEF End
  <1> QED BY <1>1 DEF OneOf, Quiet, Ends, Out

\* A request on its way to the decision.
LEMMA OnTheWay ==
    ASSUME TypeOK, NEW r \in Requests, NEW q, Set(r, q), q.pc \notin Out, req[r].pc \notin Out
    PROVE  OneOf(r)
  BY SetEffect DEF OneOf, Quiet

LEMMA Through ==
    ASSUME TypeOK, NEW r \in Requests, NEW q, Set(r, q),
           q.pc \in Out, q.user = req[r].user, q.need = req[r].need, q.kind # "sync",
           req[r].pc \notin Out \cup {"idle"},
           \/ Owns(req[r].user)
           \/ req[r].pc = "decide" /\ Has(req[r].perms, req[r].need),
           q.pc = "write" => req[r].need \in {{"SHARE"}, {"ADMIN"}}
    PROVE  OneOf(r)
  BY SetEffect DEF OneOf, Enters

\* The fields a step of the check leaves or gives a request.
LEMMA Fields ==
    ASSUME TypeOK, NEW r \in Requests
    PROVE  \A c, p, b :
             /\ [req[r] EXCEPT !.pc = c].pc = c
             /\ [req[r] EXCEPT !.pc = c].user = req[r].user
             /\ [req[r] EXCEPT !.pc = c].need = req[r].need
             /\ [req[r] EXCEPT !.pc = c].kind = req[r].kind
             /\ [req[r] EXCEPT !.pc = c, !.perms = p].pc = c
             /\ [req[r] EXCEPT !.pc = c, !.perms = p].user = req[r].user
             /\ [req[r] EXCEPT !.pc = c, !.perms = p].need = req[r].need
             /\ [req[r] EXCEPT !.pc = c, !.perms = p].kind = req[r].kind
             /\ [req[r] EXCEPT !.pc = c, !.perms = p, !.clean = b].pc = c
             /\ [req[r] EXCEPT !.pc = c, !.clean = b].pc = c
  BY DEF TypeOK, Request

LEMMA CheckEffect ==
    ASSUME IInv, NEW r \in Requests, Check(r)
    PROVE  OneOf(r) /\ UNCHANGED <<live, rows, age>>
  <1>0. TypeOK /\ Asks(req[r])
    BY DEF IInv, Sound
  <1>1. CASE CheckOwner(r)
    <2>0. UNCHANGED <<live, rows, age>> /\ req[r].pc = "owner" /\ req[r].kind # "sync"
      BY <1>0, <1>1 DEF CheckOwner, Asks
    <2>1. CASE live /\ Owns(req[r].user)
      <3>1. PICK q : q = [req[r] EXCEPT !.pc = "serve"] /\ Set(r, q)
        BY <1>1, <2>1 DEF CheckOwner
      <3>2. q.pc = "serve" /\ q.user = req[r].user /\ q.need = req[r].need
            /\ q.kind = req[r].kind
        BY <1>0, <3>1, Fields
      <3> QED BY <1>0, <2>0, <2>1, <3>1, <3>2, Through DEF Out
    <2>2. CASE live /\ ~Owns(req[r].user)
      <3>1. PICK q : q = [req[r] EXCEPT !.pc = "cache"] /\ Set(r, q)
        BY <1>1, <2>2 DEF CheckOwner
      <3>2. q.pc = "cache"
        BY <1>0, <3>1, Fields
      <3> QED BY <1>0, <2>0, <3>1, <3>2, OnTheWay DEF Out
    <2>3. CASE ~live
      <3>1. End(r)
        BY <1>1, <2>3 DEF CheckOwner
      <3> QED BY <1>0, <2>0, <3>1, IdleEffect
    <2> QED BY <2>1, <2>2, <2>3
  <1>2. CASE ReadCache(r)
    <2>0. UNCHANGED <<live, rows, age>> /\ req[r].pc = "cache"
      BY <1>2 DEF ReadCache
    <2>1. CASE Set(r, [req[r] EXCEPT !.pc = "decide", !.perms = cache[req[r].user].perms])
      <3>1. PICK q : q = [req[r] EXCEPT !.pc = "decide", !.perms = cache[req[r].user].perms]
                     /\ Set(r, q)
        BY <2>1
      <3>2. q.pc = "decide"
        BY <1>0, <3>1, Fields
      <3> QED BY <1>0, <2>0, <3>1, <3>2, OnTheWay DEF Out
    <2>2. CASE Set(r, [req[r] EXCEPT !.pc = "user"])
      <3>1. PICK q : q = [req[r] EXCEPT !.pc = "user"] /\ Set(r, q)
        BY <2>2
      <3>2. q.pc = "user"
        BY <1>0, <3>1, Fields
      <3> QED BY <1>0, <2>0, <3>1, <3>2, OnTheWay DEF Out
    <2> QED BY <1>2, <2>1, <2>2 DEF ReadCache
  <1>3. CASE ReadUserRows(r)
    <2>1. PICK q : q = [req[r] EXCEPT !.pc = "team",
                             !.perms = Granted(rows, req[r].user), !.clean = TRUE]
                   /\ Set(r, q)
      BY <1>3 DEF ReadUserRows
    <2>2. q.pc = "team"
      BY <1>0, <2>1, Fields
    <2> QED BY <1>0, <1>3, <2>1, <2>2, OnTheWay DEF ReadUserRows, Out
  <1>4. CASE ReadTeamRows(r)
    <2>1. PICK q : q = [req[r] EXCEPT !.pc = "public",
                             !.perms = @ \cup GrantedToTeams(rows, req[r].user)]
                   /\ Set(r, q)
      BY <1>4 DEF ReadTeamRows
    <2>2. q.pc = "public"
      BY <1>0, <2>1, Fields
    <2> QED BY <1>0, <1>4, <2>1, <2>2, OnTheWay DEF ReadTeamRows, Out
  <1>5. CASE ReadPublicRows(r)
    <2>1. PICK q : q = [req[r] EXCEPT !.pc = "save", !.perms = @ \cup Granted(rows, Public)]
                   /\ Set(r, q)
      BY <1>5 DEF ReadPublicRows
    <2>2. q.pc = "save"
      BY <1>0, <2>1, Fields
    <2> QED BY <1>0, <1>5, <2>1, <2>2, OnTheWay DEF ReadPublicRows, Out
  <1>6. CASE CachePermissions(r)
    <2>1. PICK q : q = [req[r] EXCEPT !.pc = "decide", !.clean = TRUE]
                   /\ Set(r, q)
      BY <1>6 DEF CachePermissions
    <2>2. q.pc = "decide"
      BY <1>0, <2>1, Fields
    <2> QED BY <1>0, <1>6, <2>1, <2>2, OnTheWay DEF CachePermissions, Out
  <1>7. CASE CheckFails(r)
    <2>0. UNCHANGED <<live, rows, age>> /\ req[r].pc \notin Out
      BY <1>7 DEF CheckFails, Out
    <2>1. CASE req[r].kind = "revoke" /\ req[r].need = {"SHARE"}
      <3>1. PICK q : q = [req[r] EXCEPT !.pc = "decide", !.perms = {}, !.clean = TRUE]
                     /\ Set(r, q)
        BY <1>7, <2>1 DEF CheckFails
      <3>2. q.pc = "decide"
        BY <1>0, <3>1, Fields
      <3> QED BY <1>0, <2>0, <3>1, <3>2, OnTheWay DEF Out
    <2>2. CASE ~(req[r].kind = "revoke" /\ req[r].need = {"SHARE"})
      <3>1. End(r)
        BY <1>7, <2>2 DEF CheckFails, End
      <3> QED BY <1>0, <2>0, <3>1, IdleEffect
    <2> QED BY <2>1, <2>2
  <1>8. CASE DecideAccess(r)
    <2>0. UNCHANGED <<live, rows, age>> /\ req[r].pc = "decide" /\ req[r].kind # "sync"
      BY <1>8 DEF DecideAccess
    <2>1. CASE Has(req[r].perms, req[r].need)
      <3>1. PICK q : q = [req[r] EXCEPT !.pc = "serve", !.perms = {}] /\ Set(r, q)
        BY <1>8, <2>1 DEF DecideAccess
      <3>2. q.pc = "serve" /\ q.user = req[r].user /\ q.need = req[r].need
            /\ q.kind = req[r].kind
        BY <1>0, <3>1, Fields
      <3> QED BY <1>0, <2>0, <2>1, <3>1, <3>2, Through DEF Out
    <2>2. CASE ~Has(req[r].perms, req[r].need)
      <3>1. End(r)
        BY <1>8, <2>2 DEF DecideAccess
      <3> QED BY <1>0, <2>0, <3>1, IdleEffect
    <2> QED BY <2>1, <2>2
  <1>9. CASE Decide(r)
    <2>0. UNCHANGED <<live, rows, age>> /\ req[r].pc = "decide" /\ req[r].kind # "sync"
      BY <1>9 DEF Decide
    <2>1. CASE Has(req[r].perms, req[r].need) \/ Owns(req[r].user)
      <3>1. PICK c \in Out : c = IF req[r].kind = "list" THEN "serve" ELSE "write"
        BY DEF Out
      <3>2. PICK q : q = [req[r] EXCEPT !.pc = c, !.perms = {}] /\ Set(r, q)
        BY <1>9, <2>1, <3>1 DEF Decide
      <3>3. q.pc = c /\ q.user = req[r].user /\ q.need = req[r].need /\ q.kind = req[r].kind
        BY <1>0, <3>2, Fields
      <3>4. c = "write" => req[r].need \in {{"SHARE"}, {"ADMIN"}}
        BY <1>0, <1>9, <3>1 DEF Decide, Asks
      <3> QED BY <1>0, <2>0, <2>1, <3>1, <3>2, <3>3, <3>4, Through DEF Out
    <2>2. CASE ~(Has(req[r].perms, req[r].need) \/ Owns(req[r].user))
      <3>1. End(r)
        BY <1>9, <2>2 DEF Decide
      <3> QED BY <1>0, <2>0, <3>1, IdleEffect
    <2> QED BY <2>1, <2>2
  <1>10. CASE DecideRevoke(r)
    <2>0. UNCHANGED <<live, rows, age>> /\ req[r].pc = "decide" /\ req[r].kind = "revoke"
      BY <1>10 DEF DecideRevoke
    <2>1. CASE \/ Has(req[r].perms, req[r].need)
               \/ req[r].need # {"ADMIN"} /\ Owns(req[r].user)
      <3>1. PICK q : q = [req[r] EXCEPT !.pc = "write", !.perms = {}] /\ Set(r, q)
        BY <1>10, <2>1 DEF DecideRevoke
      <3>2. q.pc = "write" /\ q.user = req[r].user /\ q.need = req[r].need
            /\ q.kind = req[r].kind
        BY <1>0, <3>1, Fields
      <3>3. req[r].need \in {{"SHARE"}, {"ADMIN"}}
        BY <1>0, <2>0 DEF Asks
      <3> QED BY <1>0, <2>0, <2>1, <3>1, <3>2, <3>3, Through DEF Out
    <2>2. CASE ~Has(req[r].perms, req[r].need) /\ req[r].need = {"ADMIN"}
      <3>1. PICK q : q.pc = "cache" /\ Set(r, q)
        BY <1>10, <2>2 DEF DecideRevoke, Start
      <3> QED BY <1>0, <2>0, <3>1, OnTheWay DEF Out
    <2>3. CASE /\ ~Has(req[r].perms, req[r].need) /\ req[r].need # {"ADMIN"}
               /\ ~Owns(req[r].user)
      <3>1. End(r)
        BY <1>10, <2>3 DEF DecideRevoke
      <3> QED BY <1>0, <2>0, <3>1, IdleEffect
    <2> QED BY <2>0, <2>1, <2>2, <2>3
  <1> QED BY <1>1, <1>2, <1>3, <1>4, <1>5, <1>6, <1>7, <1>8, <1>9, <1>10 DEF Check

LEMMA RequestPermitted ==
    ASSUME IInv, NEW r \in Requests, Route(r) \/ Check(r) \/ Serve(r) \/ StopWriting(r),
           ~SyncTasks(r)
    PROVE  Permitted
  <1>0. TypeOK
    BY DEF IInv
  <1>1. OneOf(r) /\ UNCHANGED <<live, rows, age>>
    <2>1. CASE Route(r)
      <3>1. PICK k, u, p : Set(r, Start(k, u, p)) /\ req[r].pc = "idle"
                           /\ UNCHANGED <<live, rows, age>>
        BY <2>1 DEF Route, AccessTask, GetACLRoute, GrantRoute, ShareRoute, RevokeRoute, Arrive
      <3>2. Start(k, u, p).pc \notin Out
        BY DEF Start, Out
      <3> QED BY <1>0, <3>1, <3>2, OnTheWay DEF Out
    <2>2. CASE Check(r)
      BY <2>2, CheckEffect
    <2>3. CASE Serve(r) \/ StopWriting(r)
      BY <1>0, <2>3, IdleEffect DEF Serve, StopWriting
    <2> QED BY <2>1, <2>2, <2>3
  <1> QED BY <1>1, QuietPermitted, EndsPermitted, EntersPermitted DEF OneOf

-----------------------------------------------------------------------------
(* The steps that change the table, and time *)

LEMMA HeldFacts ==
    ASSUME IInv
    PROVE  /\ Held \in [Users -> SUBSET Permissions]
           /\ \A u \in Users : Held[u] = Effective(rows, u)
  BY EffectiveType DEF Held, IInv, TypeOK

LEMMA HeldNext ==
    ASSUME NEW rs, rows' = rs
    PROVE  Held' = [u \in Users |-> Effective(rs, u)]
  BY DEF Held, Effective, Granted, GrantedToTeams

LEMMA ChangePermitted ==
    ASSUME IInv, IInv', NEW r \in Requests, req[r].pc = "write", NEW rs \in SUBSET ACL,
           ChangeRows(rs), req' = Overtaken \/ req' = [Overtaken EXCEPT ![r] = Idle]
    PROVE  Permitted
  <1>1. PICK f, g, h : f = req /\ g = Overtaken /\ h = req'
    OBVIOUS
  <1>2. \A s \in Requests : /\ f[s].pc = g[s].pc /\ f[s].user = g[s].user
                          /\ f[s].need = g[s].need /\ f[s].kind = g[s].kind
    BY <1>1, OvertakenFacts DEF IInv
  <1>3. ServingOf(f) = ServingOf(g) /\ WritingOf(f) = WritingOf(g)
    BY <1>2, SameLists
  <1>4. /\ Serving = ServingOf(f) /\ Serving' = ServingOf(h)
        /\ Writing = WritingOf(f) /\ Writing' = WritingOf(h)
    BY <1>1 DEF Serving, Writing, ServingOf, WritingOf
  <1>5. PICK a : a \in Writing /\ Serving' = Serving /\ Writing' \in {Writing, Writing \ {a}}
    <2>1. /\ AsWriting(g, r) \in WritingOf(g) /\ g[r].pc = "write"
      BY <1>1, <1>2 DEF AsWriting, WritingOf
    <2>2. CASE h = g
      BY <1>3, <1>4, <2>1, <2>2
    <2>3. CASE h = [g EXCEPT ![r] = Idle]
      <3>1. h[r].pc \notin Out /\ \A s \in Requests \ {r} : g[s] = h[s]
        BY <1>1, <2>3, OvertakenFacts, IdleFacts DEF IInv, Out
      <3>2. /\ WritingOf(h) = WritingOf(g) \ {AsWriting(g, r)}
            /\ ServingOf(h) = ServingOf(g) \ {AsWriting(g, r)}
        BY <2>1, <3>1, Leaves
      <3>3. ServingOf(g) \ {AsWriting(g, r)} = ServingOf(g)
        BY <2>1, NotListed DEF AsWriting
      <3> QED BY <1>3, <1>4, <2>1, <3>2, <3>3
    <2> QED BY <1>1, <2>2, <2>3
  <1>6. Held' = [u \in Users |-> Effective(rs, u)] /\ Held' \in [Users -> SUBSET Permissions]
    <2>1. Held' = [u \in Users |-> Effective(rs, u)]
      BY HeldNext DEF ChangeRows
    <2>2. \A u : Effective(rs, u) \in SUBSET Permissions
      BY EffectiveType
    <2> QED BY <2>1, <2>2
  <1>7. /\ age' = [u \in Users |-> [p \in Permissions |->
                     IF p \in Held'[u] THEN 0 ELSE age[u][p]]]
        /\ UNCHANGED live
    BY <1>6 DEF ChangeRows
  <1>8. Access!Change(a)
    BY <1>5, <1>6, <1>7, RightsActions, UsersAssumption
  <1> QED BY <1>5, <1>8 DEF Permitted, Access!Next

\* cleanup_expired_acls takes rows that give nothing any more.
LEMMA CleanupPermitted == ASSUME IInv, Cleanup PROVE Permitted
  <1> DEFINE rs == {a \in rows : a.left > 0}
  <1>1. \A u : Effective(rs, u) = Effective(rows, u)
    BY DEF Effective, Granted, GrantedToTeams
  <1>2. ChangeRows(rs) /\ req' = Overtaken
    BY DEF Cleanup
  <1>3. UNCHANGED Held
    BY <1>1, <1>2, HeldNext DEF ChangeRows, Held
  <1>4. age' = [u \in Users |-> [p \in Permissions |-> age[u][p]]]
    <2>1. \A u \in Users, p \in Permissions :
             (IF p \in Effective(rs, u) THEN 0 ELSE age[u][p]) = age[u][p]
      BY <1>1 DEF IInv, AgesCount
    <2> QED BY <1>2, <2>1 DEF ChangeRows
  <1>5. UNCHANGED age
    BY <1>4 DEF IInv, TypeOK
  <1>6. UNCHANGED Serving /\ UNCHANGED Writing
    <2>1. PICK f, g : f = req /\ g = req'
      OBVIOUS
    <2>2. \A s \in Requests : /\ f[s].pc = g[s].pc /\ f[s].user = g[s].user
                          /\ f[s].need = g[s].need /\ f[s].kind = g[s].kind
      BY <1>2, <2>1, OvertakenFacts DEF IInv
    <2>3. ServingOf(f) = ServingOf(g) /\ WritingOf(f) = WritingOf(g)
      BY <2>2, SameLists
    <2> QED BY <2>1, <2>3 DEF Serving, Writing, ServingOf, WritingOf
  <1> QED BY <1>2, <1>3, <1>5, <1>6 DEF Permitted, ChangeRows

LEMMA TickPermitted == ASSUME IInv, Tick PROVE Permitted
  <1>1. \A r \in Requests : req[r].pc = "idle"
    BY DEF Tick
  <1>2. Serving = {} /\ Writing = {}
    BY <1>1 DEF Serving, Writing, ServingOf, WritingOf
  <1>3. UNCHANGED Serving /\ UNCHANGED Writing
    BY DEF Tick, Serving, Writing, ServingOf, WritingOf
  <1>4. Held' = [u \in Users |-> Effective(Elapsed(rows), u)]
    BY HeldNext DEF Tick
  <1>5. /\ Elapsed(rows) \in SUBSET ACL
        /\ \A u : Effective(Elapsed(rows), u) \subseteq Effective(rows, u)
    BY ElapsedFacts DEF IInv, TypeOK
  <1>6. Held' \in [Users -> SUBSET Permissions]
    BY <1>4, <1>5, EffectiveType
  <1>7. \A u \in Users : Held'[u] \subseteq Held[u]
    BY <1>4, <1>5, HeldFacts
  <1>8. /\ age' = [v \in Users |-> [b \in Permissions |->
                     IF b \in Held[v] THEN 0
                     ELSE IF age[v][b] = CacheTTL THEN CacheTTL ELSE age[v][b] + 1]]
        /\ UNCHANGED live
    <2>1. \A v \in Users : Held[v] = Effective(rows, v)
      BY HeldFacts
    <2>2. \A v \in Users, b \in Permissions :
             (IF b \in Effective(rows, v) THEN 0
              ELSE IF age[v][b] = CacheTTL THEN CacheTTL ELSE age[v][b] + 1)
             = (IF b \in Held[v] THEN 0
                ELSE IF age[v][b] = CacheTTL THEN CacheTTL ELSE age[v][b] + 1)
      BY <2>1
    <2> QED BY <2>2 DEF Tick
  <1>9. Access!Tick
    BY <1>2, <1>3, <1>6, <1>7, <1>8 DEF Access!Tick
  <1> QED BY <1>9 DEF Permitted, Access!Next

LEMMA DeletePermitted == ASSUME NEW r \in Requests, DeleteTask(r) PROVE Permitted
  <1>1. UNCHANGED Serving /\ UNCHANGED Writing /\ UNCHANGED Held
    BY SameHeld DEF DeleteTask, Serving, Writing, ServingOf, WritingOf
  <1>2. AsServing(req, r) \in Serving /\ AsServing(req, r).need = {"DELETE"}
    BY DEF DeleteTask, AsServing, Serving, ServingOf
  <1>3. Access!Delete
    BY <1>1, <1>2 DEF DeleteTask, Access!Delete
  <1> QED BY <1>3 DEF Permitted, Access!Next

-----------------------------------------------------------------------------
(* The refinement *)

LEMMA StepPermitted == ASSUME IInv, IInv', [Next]_vars PROVE Permitted
  <1>1. ASSUME NEW r \in Requests, Step(r) PROVE Permitted
    <2>1. CASE Route(r) \/ Check(r) \/ Serve(r) \/ StopWriting(r)
      BY <2>1, RequestPermitted, SyncPermitted DEF IInv
    <2>2. ASSUME NEW g \in Grantees, GrantTaskAccess(r, g) PROVE Permitted
      <3>1. RoleViewer \in SUBSET Permissions /\ Never \in 0..Never
        BY TimeAssumption DEF RoleViewer, Permissions, Never
      <3>2. Upsert(rows, [to |-> g, perms |-> RoleViewer, left |-> Never]) \in SUBSET ACL
        BY <3>1, UpsertType DEF IInv, TypeOK
      <3> QED BY <2>2, <3>2, ChangePermitted DEF GrantTaskAccess
    <2>3. ASSUME NEW g \in Grantees, GrantACL(r, g) \/ ShareTarget(r, g) PROVE Permitted
      <3>1. PICK p \in Roles, l \in Lives :
               ChangeRows(Upsert(rows, [to |-> g, perms |-> p, left |-> l]))
        BY <2>3 DEF GrantACL, ShareTarget
      <3>2. p \in SUBSET Permissions /\ l \in 0..Never
        BY RolesAssumption, LivesAssumption
      <3>3. Upsert(rows, [to |-> g, perms |-> p, left |-> l]) \in SUBSET ACL
        BY <3>2, UpsertType DEF IInv, TypeOK
      <3> QED BY <2>3, <3>1, <3>3, ChangePermitted DEF GrantACL, ShareTarget
    <2>4. CASE RevokeACL(r)
      <3>1. PICK a \in rows : ChangeRows({b \in rows : b.to # a.to})
        BY <2>4 DEF RevokeACL
      <3>2. {b \in rows : b.to # a.to} \in SUBSET ACL
        BY DEF IInv, TypeOK
      <3> QED BY <2>4, <3>1, <3>2, ChangePermitted DEF RevokeACL
    <2> QED BY <1>1, <2>1, <2>2, <2>3, <2>4, DeletePermitted DEF Step, Write
  <1>2. CASE UNCHANGED vars
    <2>1. UNCHANGED Serving /\ UNCHANGED Writing /\ UNCHANGED Held
      BY <1>2, SameHeld DEF vars, Serving, Writing, ServingOf, WritingOf
    <2> QED BY <1>2, <2>1 DEF vars, Permitted
  <1> QED BY <1>1, <1>2, TickPermitted, CleanupPermitted DEF Next

LEMMA RightsInit == Init => Access!Init
  <1> SUFFICES ASSUME Init PROVE Access!Init
    OBVIOUS
  <1>1. PICK r \in Requests : req = [s \in Requests |->
          IF s = r THEN [Start("create", Owner, {}) EXCEPT !.pc = "write"] ELSE Idle]
    BY DEF Init
  <1>2. [Start("create", Owner, {}) EXCEPT !.pc = "write"].pc = "write"
        /\ [Start("create", Owner, {}) EXCEPT !.pc = "write"].user = Owner
    BY DEF Start
  <1>3. Serving = {}
    BY <1>1, <1>2, IdleFacts DEF Serving, ServingOf
  <1>4. Writing = {[req |-> r, user |-> Owner]}
    BY <1>1, <1>2, IdleFacts DEF Writing, WritingOf
  <1>5. Held = [u \in Users |-> {}]
    <2>1. \A u : Effective({}, u) = {}
      BY DEF Effective, Granted, GrantedToTeams
    <2> QED BY <2>1 DEF Init, Held
  <1> QED BY <1>3, <1>4, <1>5 DEF Init, Access!Init

\* The cache, the triggers and the statements of a check keep the promise of
\* Rights: what users hold grows only by a request let through for it; who is let
\* through on a route that checks holds what he needs, held it less than the
\* lifetime of a cache entry ago, or owns a task that is not deleted; who is let
\* through unchecked is in a sync, at the update or the delete; and a delete is of
\* a request let through to it.
THEOREM RightsEnforced == Spec => EnforcesRights
  <1>1. IInv /\ IInv' /\ [Next]_vars => [Access!Next]_(Access!vars)
    BY StepPermitted, PermittedStep
  <1> QED BY <1>1, RightsInit, Invariant, PTL DEF Spec, EnforcesRights, Access!Spec
=============================================================================
