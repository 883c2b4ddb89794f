---------------------------- MODULE TaskFlowProofs ----------------------------
(***************************************************************************)
(* Proofs about TaskFlow for any users, grantees (a public one included),  *)
(* roles and requests at a time: that it is a behaviour of AclService with *)
(* the handlers added, and what its messages promise.                      *)
(***************************************************************************)
EXTENDS TaskFlow, AclServiceProofs

SharedWith(u) == [type |-> "task_shared", to |-> u]

DeletedTo(u) == [type |-> "task_deleted", to |-> u]

\* The messages n that a request q at statement a of its handler can hold.
Tidy(q, a, n) ==
    /\ a \in {"updated", "found"} => q.pc = "serve" /\ n = {}
    /\ a = "resolved" => q.pc = "serve" /\ \A m \in n : m.type = "task_deleted"
    /\ a = "none" => /\ \A m \in n : m.type = "task_shared"
                     /\ n # {} => q.pc = "write" /\ q.kind \in {"create", "share"}
    /\ a = "notify" => q.pc \in {"idle", "serve"}
    /\ q.pc = "serve" /\ q.kind = "sync" => a = "none"

FlowIInv ==
    /\ IInv /\ FlowTypeOK
    /\ \A r \in Requests : Tidy(req[r], at[r], news[r])
    /\ SharesAnnounced /\ DeletionToldOnce

-----------------------------------------------------------------------------
(* The handlers refine the routes *)

\* A step of a handler is one of AclService or none at all.
LEMMA FlowRefinesStep == [FlowNext]_flowVars => [Next]_vars
  <1> SUFFICES ASSUME [FlowNext]_flowVars PROVE [Next]_vars
    OBVIOUS
  <1>1. CASE UNCHANGED flowVars
    BY <1>1 DEF flowVars
  <1>2. CASE FlowTick
    BY <1>2 DEF FlowTick, Next
  <1>3. ASSUME NEW r \in Requests, Admit(r) PROVE [Next]_vars
    BY <1>3 DEF Admit, Next, Step, Route
  <1>4. ASSUME NEW r \in Requests, Handle(r) PROVE [Next]_vars
    <2>1. CASE FlowCheck(r)
      BY <2>1 DEF FlowCheck, Next, Step
    <2>2. CASE UpdateTask(r) \/ ResolveUpdated(r) \/ GetTaskOwner(r) \/ ResolveDeleted(r) \/ Send(r)
      BY <2>2 DEF UpdateTask, ResolveUpdated, GetTaskOwner, ResolveDeleted, Send
    <2>3. CASE UpdateFails(r) \/ DeleteFails(r) \/ Finish(r) \/ SyncEnds(r)
      BY <2>3 DEF UpdateFails, DeleteFails, Finish, SyncEnds, Answer, Next, Step
    <2>4. CASE DeleteFound(r) \/ SyncDelete(r)
      BY <2>4 DEF DeleteFound, SyncDelete, Next, Step
    <2>5. ASSUME NEW g \in Grantees, ShareCreated(r, g) \/ Grant(r, g) \/ Share(r, g)
          PROVE  [Next]_vars
      BY <2>5 DEF ShareCreated, Grant, Share, Next, Step, Write
    <2>6. CASE Created(r) \/ Shared(r) \/ Revoke(r) \/ WriteFails(r)
      BY <2>6 DEF Created, Shared, Revoke, WriteFails, Next, Step, Write
    <2> QED BY <1>4, <2>1, <2>2, <2>3, <2>4, <2>5, <2>6 DEF Handle
  <1> QED BY <1>1, <1>2, <1>3, <1>4 DEF FlowNext

-----------------------------------------------------------------------------
(* What a step of request r must do *)

\* The other requests keep their place and their messages.
OthersSame(r) ==
    \A s \in Requests \ {r} :
       /\ req'[s].pc = req[s].pc /\ req'[s].kind = req[s].kind
       /\ at'[s] = at[s] /\ news'[s] = news[s]

\* Nobody with a row loses what was said of it or will be.
SharesKept(r) ==
    \A a \in rows' : a.to \in Users =>
       \/ a.to \in told' \cup silent'
       \/ SharedWith(a.to) \in news'[r]
       \/ /\ \E b \in rows : b.to = a.to
          /\ a.to \notin told \cup silent
          /\ SharedWith(a.to) \notin news[r]

\* Nothing is said of a delete that was not said before.
DeletesKept(r) ==
    /\ UNCHANGED live /\ UNCHANGED deletions
    /\ at'[r] = "notify" =>
          \A m \in news'[r] : m.type = "task_deleted" => at[r] = "notify" /\ m \in news[r]

LEMMA TidyStep ==
    ASSUME FlowIInv, NEW r \in Requests, OthersSame(r), Tidy(req'[r], at'[r], news'[r])
    PROVE  \A s \in Requests : Tidy(req[s], at[s], news[s])'
  <1>1. ASSUME NEW s \in Requests \ {r} PROVE Tidy(req'[s], at'[s], news'[s])
    <2>1. PICK p, q, a, n : p = req[s] /\ q = req'[s] /\ a = at[s] /\ n = news[s]
      OBVIOUS
    <2>2. Tidy(p, a, n) /\ q.pc = p.pc /\ q.kind = p.kind
      BY <2>1 DEF FlowIInv, OthersSame
    <2>3. Tidy(q, a, n)
      BY <2>2 DEF Tidy
    <2> QED BY <2>1, <2>3 DEF OthersSame
  <1> QED BY <1>1

LEMMA SharesStep ==
    ASSUME FlowIInv, NEW r \in Requests, OthersSame(r), SharesKept(r)
    PROVE  SharesAnnounced'
  <1>1. ASSUME NEW a \in rows', a.to \in Users, a.to \notin told' \cup silent',
               SharedWith(a.to) \notin news'[r]
        PROVE  \E s \in Requests : SharedWith(a.to) \in news'[s]
    <2>1. PICK b \in rows : b.to = a.to
      BY <1>1 DEF SharesKept
    <2>2. a.to \notin told \cup silent /\ SharedWith(a.to) \notin news[r]
      BY <1>1 DEF SharesKept
    <2>3. PICK s \in Requests : SharedWith(a.to) \in news[s]
      BY <1>1, <2>1, <2>2 DEF FlowIInv, SharesAnnounced, SharedWith
    <2> QED BY <2>2, <2>3 DEF OthersSame
  <1> QED BY <1>1 DEF SharesAnnounced, SharedWith

LEMMA DeletesStep ==
    ASSUME FlowIInv, NEW r \in Requests, OthersSame(r), DeletesKept(r)
    PROVE  DeletionToldOnce'
  <1>1. ASSUME NEW u \in Users, NEW s \in Requests, at'[s] = "notify", DeletedTo(u) \in news'[s]
        PROVE  at[s] = "notify" /\ DeletedTo(u) \in news[s]
    BY <1>1 DEF OthersSame, DeletesKept, DeletedTo
  <1> QED BY <1>1 DEF FlowIInv, DeletionToldOnce, DeletedTo, DeletesKept

\* The parts together.
LEMMA TogetherStep ==
    ASSUME FlowIInv, FlowTypeOK', IInv', NEW r \in Requests, OthersSame(r),
           Tidy(req'[r], at'[r], news'[r]), SharesKept(r), DeletesKept(r)
    PROVE  FlowIInv'
  BY TidyStep, SharesStep, DeletesStep DEF FlowIInv

-----------------------------------------------------------------------------
(* Functions and messages *)

Places == {"none", "updated", "found", "resolved", "notify"}

LEMMA PlaceFacts ==
    ASSUME FlowTypeOK, NEW r \in Requests, NEW a \in Places, Goto(r, a)
    PROVE  /\ at' \in [Requests -> Places] /\ at'[r] = a
           /\ \A s \in Requests \ {r} : at'[s] = at[s]
  BY DEF FlowTypeOK, Goto, Places

LEMMA NewsFacts ==
    ASSUME FlowTypeOK, NEW r \in Requests, NEW M \in SUBSET Message, Prepare(r, M)
    PROVE  /\ news' \in [Requests -> SUBSET Message] /\ news'[r] = M
           /\ \A s \in Requests \ {r} : news'[s] = news[s]
  BY DEF FlowTypeOK, Prepare

LEMMA ToFacts ==
    ASSUME NEW type \in {"task_created", "task_shared", "task_updated", "task_deleted"},
           NEW U \in SUBSET Users
    PROVE  /\ To(type, U) \in SUBSET Message
           /\ \A m \in To(type, U) : m.type = type
           /\ \A u \in U : [type |-> type, to |-> u] \in To(type, U)
  BY DEF To, Message

LEMMA RecipientsType == \A u : ListRecipients(u) \in SUBSET Users
  BY UsersAssumption DEF ListRecipients, Collaborators

LEMMA UnchangedTypes ==
    ASSUME FlowTypeOK, UNCHANGED history
    PROVE  /\ told' \subseteq Users /\ silent' \subseteq Users /\ deletions' \in [Users -> 0..2]
           /\ UNCHANGED told /\ UNCHANGED silent /\ UNCHANGED deletions
  BY DEF FlowTypeOK, history

\* A step that leaves the table and the past alone need only say what becomes
\* of its own messages.
LEMMA QuietStep ==
    ASSUME FlowIInv, IInv', NEW r \in Requests, UNCHANGED history, UNCHANGED live,
           rows' \subseteq rows,
           at' \in [Requests -> Places], news' \in [Requests -> SUBSET Message],
           OthersSame(r), Tidy(req'[r], at'[r], news'[r]),
           \A u \in Users : SharedWith(u) \in news[r] => SharedWith(u) \in news'[r],
           at'[r] = "notify" =>
              \A m \in news'[r] : m.type = "task_deleted" => at[r] = "notify" /\ m \in news[r]
    PROVE  FlowIInv'
  <1>1. FlowTypeOK'
    BY UnchangedTypes DEF FlowIInv, FlowTypeOK, Places
  <1>2. SharesKept(r)
    BY UnchangedTypes DEF FlowIInv, SharesKept
  <1>3. DeletesKept(r)
    BY UnchangedTypes DEF FlowIInv, DeletesKept
  <1> QED BY <1>1, <1>2, <1>3, TogetherStep

-----------------------------------------------------------------------------
(* What the steps of AclService leave alone *)

LEMMA SetOthers ==
    ASSUME TypeOK, NEW r \in Requests, NEW q, Set(r, q)
    PROVE  \A s \in Requests \ {r} : req'[s] = req[s]
  BY DEF Set, TypeOK

LEMMA ServeFacts ==
    ASSUME TypeOK, NEW r \in Requests, Serve(r) \/ StopWriting(r)
    PROVE  /\ req'[r].pc = "idle" /\ \A s \in Requests \ {r} : req'[s] = req[s]
           /\ UNCHANGED live /\ UNCHANGED rows
  BY IdleFacts, SetFacts DEF Serve, StopWriting, End, Set

LEMMA CheckFacts ==
    ASSUME TypeOK, NEW r \in Requests, Check(r)
    PROVE  /\ req[r].pc \notin {"idle", "serve", "write"}
           /\ \A s \in Requests \ {r} : req'[s] = req[s]
           /\ UNCHANGED live /\ UNCHANGED rows
  <1>1. req[r].pc \notin {"idle", "serve", "write"}
    BY DEF Check, CheckOwner, ReadCache, ReadUserRows, ReadTeamRows, ReadPublicRows,
           CachePermissions, CheckFails, DecideAccess, Decide, DecideRevoke
  <1>2. \E q : Set(r, q)
    BY DEF Check, CheckOwner, ReadCache, ReadUserRows, ReadTeamRows, ReadPublicRows,
           CachePermissions, CheckFails, DecideAccess, Decide, DecideRevoke, End
  <1>3. UNCHANGED live /\ UNCHANGED rows
    BY DEF Check, CheckOwner, ReadCache, ReadUserRows, ReadTeamRows, ReadPublicRows,
           CachePermissions, CheckFails, DecideAccess, Decide, DecideRevoke
  <1> QED BY <1>1, <1>2, <1>3, SetOthers

\* A row is given to g.
LEMMA GiveFacts ==
    ASSUME TypeOK, NEW r \in Requests, NEW g \in Grantees,
           GrantTaskAccess(r, g) \/ GrantACL(r, g) \/ ShareTarget(r, g)
    PROVE  /\ req[r].pc = "write"
           /\ \A s \in Requests \ {r} : req'[s].pc = req[s].pc /\ req'[s].kind = req[s].kind
           /\ \/ req'[r].pc = "write" /\ req'[r].kind = req[r].kind
              \/ req'[r].pc = "idle"
           /\ UNCHANGED live
           /\ \A a \in rows' : a.to = g \/ \E b \in rows : b.to = a.to
  <1>1. /\ req[r].pc = "write" /\ UNCHANGED live
        /\ req' = Overtaken \/ req' = [Overtaken EXCEPT ![r] = Idle]
    BY DEF GrantTaskAccess, GrantACL, ShareTarget, ChangeRows
  <1>2. /\ \A s \in Requests \ {r} : req'[s].pc = req[s].pc /\ req'[s].kind = req[s].kind
        /\ \/ req'[r].pc = "write" /\ req'[r].kind = req[r].kind
           \/ req'[r].pc = "idle"
    BY <1>1, OvertakenFacts, IdleFacts
  <1>3. \E c : c.to = g /\ rows' = Upsert(rows, c)
    <2>1. CASE GrantTaskAccess(r, g)
      <3>1. PICK c : c = [to |-> g, perms |-> RoleViewer, left |-> Never]
        OBVIOUS
      <3> QED BY <2>1, <3>1 DEF GrantTaskAccess, ChangeRows
    <2>2. CASE GrantACL(r, g) \/ ShareTarget(r, g)
      <3>1. PICK p, l : rows' = Upsert(rows, [to |-> g, perms |-> p, left |-> l])
        BY <2>2 DEF GrantACL, ShareTarget, ChangeRows
      <3>2. PICK c : c = [to |-> g, perms |-> p, left |-> l]
        OBVIOUS
      <3> QED BY <3>1, <3>2
    <2> QED BY <2>1, <2>2
  <1>4. \A a \in rows' : a.to = g \/ \E b \in rows : b.to = a.to
    BY <1>3 DEF Upsert
  <1> QED BY <1>1, <1>2, <1>4

-----------------------------------------------------------------------------
(* The actions *)

\* What every action may rest on.
LEMMA TidyFacts ==
    ASSUME FlowIInv, NEW r \in Requests
    PROVE  /\ TypeOK /\ FlowTypeOK /\ Tidy(req[r], at[r], news[r])
           /\ at[r] \in Places /\ news[r] \in SUBSET Message
           /\ \A u : SharedWith(u).type = "task_shared"
           /\ at \in [Requests -> Places] /\ news \in [Requests -> SUBSET Message]
  BY DEF FlowIInv, IInv, FlowTypeOK, Places, SharedWith

LEMMA FlowUnchanged ==
    ASSUME FlowIInv, UNCHANGED flow
    PROVE  /\ UNCHANGED at /\ UNCHANGED news /\ UNCHANGED history
           /\ UNCHANGED told /\ UNCHANGED silent /\ UNCHANGED deletions
  BY DEF flow, history

LEMMA AdmitStep == ASSUME FlowIInv, IInv', NEW r \in Requests, Admit(r) PROVE FlowIInv'
  <1>1. /\ at[r] = "none" /\ req[r].pc = "idle" /\ \E q : Set(r, q)
        /\ UNCHANGED live /\ UNCHANGED rows /\ UNCHANGED flow
    BY DEF Admit, AccessTask, SyncTasks, GrantRoute, ShareRoute, RevokeRoute, Arrive
  <1>2. news[r] = {}
    BY <1>1, TidyFacts DEF Tidy
  <1>3. OthersSame(r)
    BY <1>1, SetOthers, TidyFacts, FlowUnchanged DEF OthersSame
  <1>4. Tidy(req'[r], at'[r], news'[r])
    BY <1>1, <1>2, FlowUnchanged DEF Tidy
  <1> QED BY <1>1, <1>2, <1>3, <1>4, QuietStep, TidyFacts, FlowUnchanged

LEMMA CheckStep == ASSUME FlowIInv, IInv', NEW r \in Requests, FlowCheck(r) PROVE FlowIInv'
  <1>1. /\ req[r].pc \notin {"idle", "serve", "write"}
        /\ \A s \in Requests \ {r} : req'[s] = req[s]
        /\ UNCHANGED live /\ UNCHANGED rows /\ UNCHANGED flow
    BY CheckFacts, TidyFacts DEF FlowCheck
  <1>2. at[r] = "none" /\ news[r] = {}
    BY <1>1, TidyFacts DEF Tidy, Places
  <1>3. OthersSame(r)
    BY <1>1, FlowUnchanged DEF OthersSame
  <1>4. Tidy(req'[r], at'[r], news'[r])
    BY <1>1, <1>2, FlowUnchanged DEF Tidy
  <1> QED BY <1>1, <1>2, <1>3, <1>4, QuietStep, TidyFacts, FlowUnchanged

\* The handlers of the task up to the delete: nothing but their place and
\* messages changes.
LEMMA PlaceStep ==
    ASSUME FlowIInv, IInv', NEW r \in Requests, UNCHANGED vars, UNCHANGED history,
           NEW a \in Places, NEW M \in SUBSET Message, Goto(r, a), Prepare(r, M),
           Tidy(req[r], a, M), \A m \in news[r] : m.type # "task_shared",
           a = "notify" => \A m \in M : m.type # "task_deleted"
    PROVE  FlowIInv'
  <1>1. /\ at' \in [Requests -> Places] /\ at'[r] = a
        /\ \A s \in Requests \ {r} : at'[s] = at[s]
    BY PlaceFacts, TidyFacts
  <1>2. /\ news' \in [Requests -> SUBSET Message] /\ news'[r] = M
        /\ \A s \in Requests \ {r} : news'[s] = news[s]
    BY NewsFacts, TidyFacts
  <1>3. UNCHANGED live /\ UNCHANGED rows /\ UNCHANGED req
    BY DEF vars
  <1>4. OthersSame(r) /\ Tidy(req'[r], at'[r], news'[r])
    BY <1>1, <1>2, <1>3 DEF OthersSame
  <1>5. \A u \in Users : SharedWith(u) \notin news[r]
    BY TidyFacts
  <1> QED BY <1>1, <1>2, <1>3, <1>4, <1>5, QuietStep

\* Messages that stay are prepared anew.
LEMMA SameNews ==
    ASSUME FlowIInv, NEW r \in Requests, UNCHANGED news
    PROVE  Prepare(r, news[r])
  BY TidyFacts DEF Prepare

LEMMA UpdateTaskStep ==
    ASSUME FlowIInv, IInv', NEW r \in Requests, UpdateTask(r) \/ GetTaskOwner(r)
    PROVE  FlowIInv'
  <1>1. /\ req[r].pc = "serve" /\ req[r].kind = "access" /\ at[r] = "none"
        /\ UNCHANGED vars /\ UNCHANGED news /\ UNCHANGED history
    BY DEF UpdateTask, GetTaskOwner, Called
  <1>2. PICK a \in {"updated", "found", "resolved"} : Goto(r, a)
    BY DEF UpdateTask, GetTaskOwner
  <1>3. news[r] = {}
    BY <1>1, TidyFacts DEF Tidy
  <1>4. Tidy(req[r], a, news[r])
    BY <1>1, <1>3 DEF Tidy
  <1> QED BY <1>1, <1>2, <1>3, <1>4, PlaceStep, SameNews, TidyFacts DEF Places

LEMMA ResolveStep ==
    ASSUME FlowIInv, IInv', NEW r \in Requests, ResolveUpdated(r) \/ ResolveDeleted(r)
    PROVE  FlowIInv'
  <1>1. /\ at[r] \in {"updated", "found"} /\ UNCHANGED vars /\ UNCHANGED history
    BY DEF ResolveUpdated, ResolveDeleted
  <1>2. req[r].pc = "serve" /\ req[r].kind # "sync" /\ news[r] = {}
    BY <1>1, TidyFacts DEF Tidy
  <1>3. CASE ResolveUpdated(r)
    <2>1. PICK U \in SUBSET Users : Prepare(r, To("task_updated", U))
      BY <1>3, RecipientsType DEF ResolveUpdated
    <2>2. /\ To("task_updated", U) \in SUBSET Message
          /\ \A m \in To("task_updated", U) : m.type = "task_updated"
      BY ToFacts
    <2>3. Tidy(req[r], "notify", To("task_updated", U)) /\ Goto(r, "notify")
      BY <1>2, <1>3 DEF Tidy, ResolveUpdated
    <2> QED BY <1>1, <1>2, <2>1, <2>2, <2>3, PlaceStep DEF Places
  <1>4. CASE ResolveDeleted(r)
    <2>1. PICK U \in SUBSET Users : Prepare(r, To("task_deleted", U))
      BY <1>4, RecipientsType DEF ResolveDeleted
    <2>2. /\ To("task_deleted", U) \in SUBSET Message
          /\ \A m \in To("task_deleted", U) : m.type = "task_deleted"
      BY ToFacts
    <2>3. Tidy(req[r], "resolved", To("task_deleted", U)) /\ Goto(r, "resolved")
      BY <1>2, <1>4, <2>2 DEF Tidy, ResolveDeleted
    <2> QED BY <1>1, <1>2, <2>1, <2>2, <2>3, PlaceStep DEF Places
  <1> QED BY <1>3, <1>4

LEMMA AnswerStep ==
    ASSUME FlowIInv, IInv', NEW r \in Requests, UpdateFails(r) \/ DeleteFails(r)
    PROVE  FlowIInv'
  <1>1. /\ (at[r] = "none" /\ req[r].pc = "serve") \/ at[r] = "resolved"
        /\ Serve(r) /\ Goto(r, "none") /\ Prepare(r, {}) /\ UNCHANGED history
    BY DEF UpdateFails, DeleteFails, Answer, Called
  <1>2. \A m \in news[r] : m.type # "task_shared"
    BY <1>1, TidyFacts DEF Tidy
  <1>3. /\ req'[r].pc = "idle" /\ \A s \in Requests \ {r} : req'[s] = req[s]
        /\ UNCHANGED live /\ UNCHANGED rows
    BY <1>1, ServeFacts, TidyFacts
  <1>4. /\ at' \in [Requests -> Places] /\ at'[r] = "none"
        /\ \A s \in Requests \ {r} : at'[s] = at[s]
    BY <1>1, PlaceFacts, TidyFacts DEF Places
  <1>5. /\ news' \in [Requests -> SUBSET Message] /\ news'[r] = {}
        /\ \A s \in Requests \ {r} : news'[s] = news[s]
    BY <1>1, NewsFacts, TidyFacts
  <1>6. OthersSame(r) /\ Tidy(req'[r], at'[r], news'[r])
    BY <1>3, <1>4, <1>5 DEF OthersSame, Tidy
  <1>7. \A u \in Users : SharedWith(u) \notin news[r]
    BY <1>2, TidyFacts
  <1> QED BY <1>1, <1>3, <1>4, <1>5, <1>6, <1>7, QuietStep

LEMMA EndOfSharesStep ==
    ASSUME FlowIInv, IInv', NEW r \in Requests, Created(r) \/ Shared(r)
    PROVE  FlowIInv'
  <1>1. req[r].pc = "write" /\ StopWriting(r) /\ Goto(r, "notify") /\ UNCHANGED history
    BY DEF Created, Shared, StopWriting
  <1>2. at[r] = "none" /\ \A m \in news[r] : m.type = "task_shared"
    BY <1>1, TidyFacts DEF Tidy, Places
  <1>3. PICK M \in SUBSET Message : /\ Prepare(r, M) /\ news[r] \subseteq M
                                    /\ \A m \in M : m.type # "task_deleted"
    <2>1. CASE Created(r)
      <3>1. req[r].user \in Users
        BY RequestFacts, TidyFacts
      <3>2. /\ To("task_created", {req[r].user}) \in SUBSET Message
            /\ \A m \in To("task_created", {req[r].user}) : m.type = "task_created"
        BY <3>1, ToFacts
      <3>3. PICK M : M = news[r] \cup To("task_created", {req[r].user})
        OBVIOUS
      <3>4. M \in SUBSET Message /\ news[r] \subseteq M
        BY <3>2, <3>3, TidyFacts
      <3>5. \A m \in M : m.type # "task_deleted"
        BY <1>2, <3>2, <3>3
      <3>6. Prepare(r, M)
        BY <2>1, <3>3 DEF Created
      <3> QED BY <3>4, <3>5, <3>6
    <2>2. CASE Shared(r)
      BY <1>2, <2>2, SameNews, TidyFacts DEF Shared
    <2> QED BY <2>1, <2>2
  <1>4. /\ req'[r].pc = "idle" /\ \A s \in Requests \ {r} : req'[s] = req[s]
        /\ UNCHANGED live /\ UNCHANGED rows
    BY <1>1, ServeFacts, TidyFacts
  <1>5. /\ at' \in [Requests -> Places] /\ at'[r] = "notify"
        /\ \A s \in Requests \ {r} : at'[s] = at[s]
    BY <1>1, PlaceFacts, TidyFacts DEF Places
  <1>6. /\ news' \in [Requests -> SUBSET Message] /\ news'[r] = M
        /\ \A s \in Requests \ {r} : news'[s] = news[s]
    BY <1>3, NewsFacts, TidyFacts
  <1>7. OthersSame(r) /\ Tidy(req'[r], at'[r], news'[r])
    BY <1>4, <1>5, <1>6 DEF OthersSame, Tidy
  <1> QED BY <1>1, <1>3, <1>4, <1>5, <1>6, <1>7, QuietStep

LEMMA RevokeFlowStep == ASSUME FlowIInv, IInv', NEW r \in Requests, Revoke(r) PROVE FlowIInv'
  <1>1. /\ req[r].pc = "write" /\ req[r].kind = "revoke" /\ UNCHANGED live
        /\ rows' \subseteq rows /\ req' = [Overtaken EXCEPT ![r] = Idle] /\ UNCHANGED flow
    BY DEF Revoke, RevokeACL, ChangeRows
  <1>2. at[r] = "none" /\ news[r] = {}
    BY <1>1, TidyFacts DEF Tidy, Places
  <1>3. /\ req'[r].pc = "idle"
        /\ \A s \in Requests \ {r} : req'[s].pc = req[s].pc /\ req'[s].kind = req[s].kind
    BY <1>1, OvertakenFacts, IdleFacts, TidyFacts
  <1>4. OthersSame(r) /\ Tidy(req'[r], at'[r], news'[r])
    BY <1>1, <1>2, <1>3, FlowUnchanged DEF OthersSame, Tidy
  <1> QED BY <1>1, <1>2, <1>4, QuietStep, TidyFacts, FlowUnchanged

\* A request that fails leaves its announcements to nobody.
LEMMA GivenUpFacts ==
    ASSUME FlowIInv, NEW r \in Requests, GivenUp(Announced(r))
    PROVE  /\ told' \subseteq Users /\ silent' \subseteq Users /\ UNCHANGED deletions
           /\ told \cup silent \subseteq told' \cup silent'
           /\ \A u : SharedWith(u) \in news[r] => u \in told' \cup silent'
  <1>1. Announced(r) \subseteq Users
    BY TidyFacts DEF Announced, Message
  <1>2. \A u : SharedWith(u) \in news[r] => u \in Announced(r)
    <2>1. \A u : SharedWith(u).to = u
      BY DEF SharedWith
    <2> QED BY <2>1 DEF Announced
  <1>3. told' = told /\ silent' = silent \cup (Announced(r) \ told) /\ UNCHANGED deletions
    BY DEF GivenUp
  <1> QED BY <1>1, <1>2, <1>3 DEF FlowIInv, FlowTypeOK

LEMMA WriteFailsStep == ASSUME FlowIInv, IInv', NEW r \in Requests, WriteFails(r) PROVE FlowIInv'
  <1>1. /\ req[r].pc = "write" /\ StopWriting(r) /\ GivenUp(Announced(r))
        /\ Prepare(r, {}) /\ UNCHANGED at
    BY DEF WriteFails, StopWriting
  <1>2. at[r] = "none"
    BY <1>1, TidyFacts DEF Tidy, Places
  <1>3. /\ req'[r].pc = "idle" /\ \A s \in Requests \ {r} : req'[s] = req[s]
        /\ UNCHANGED live /\ UNCHANGED rows
    BY <1>1, ServeFacts, TidyFacts
  <1>4. /\ news' \in [Requests -> SUBSET Message] /\ news'[r] = {}
        /\ \A s \in Requests \ {r} : news'[s] = news[s]
    BY <1>1, NewsFacts, TidyFacts
  <1>5. OthersSame(r) /\ Tidy(req'[r], at'[r], news'[r])
    BY <1>1, <1>2, <1>3, <1>4 DEF OthersSame, Tidy
  <1>6. FlowTypeOK'
    BY <1>1, <1>4, GivenUpFacts DEF FlowIInv, FlowTypeOK
  <1>7. SharesKept(r)
    BY <1>1, <1>3, GivenUpFacts DEF SharesKept
  <1>8. DeletesKept(r)
    BY <1>1, <1>2, <1>3, GivenUpFacts DEF DeletesKept
  <1> QED BY <1>5, <1>6, <1>7, <1>8, TogetherStep

LEMMA AnnouncementFacts ==
    ASSUME NEW g
    PROVE  /\ Announcement(g) \in SUBSET Message
           /\ \A m \in Announcement(g) : m.type = "task_shared"
           /\ g \in Users => SharedWith(g) \in Announcement(g)
  <1>1. {g} \cap Users \in SUBSET Users
    OBVIOUS
  <1> QED BY <1>1, ToFacts DEF Announcement, SharedWith

\* A row for g, with its announcement in M.
LEMMA GiveStep ==
    ASSUME FlowIInv, IInv', NEW r \in Requests, NEW g \in Grantees,
           GrantTaskAccess(r, g) \/ GrantACL(r, g) \/ ShareTarget(r, g), Given(r, g),
           NEW a \in {"none", "notify"}, Goto(r, a), NEW M \in SUBSET Message, Prepare(r, M),
           \A m \in M : m.type = "task_shared", g \in Users => SharedWith(g) \in M,
           news[r] \subseteq M,
           a = "none" => req'[r].pc = "write" /\ req[r].kind \in {"create", "share"},
           a = "notify" => req'[r].pc = "idle"
    PROVE  FlowIInv'
  <1>1. /\ at' \in [Requests -> Places] /\ at'[r] = a
        /\ \A s \in Requests \ {r} : at'[s] = at[s]
    BY PlaceFacts, TidyFacts DEF Places
  <1>2. /\ news' \in [Requests -> SUBSET Message] /\ news'[r] = M
        /\ \A s \in Requests \ {r} : news'[s] = news[s]
    BY NewsFacts, TidyFacts
  <1>3. /\ \A s \in Requests \ {r} : req'[s].pc = req[s].pc /\ req'[s].kind = req[s].kind
        /\ \/ req'[r].pc = "write" /\ req'[r].kind = req[r].kind
           \/ req'[r].pc = "idle"
        /\ UNCHANGED live
        /\ \A b \in rows' : b.to = g \/ \E c \in rows : c.to = b.to
    BY GiveFacts, TidyFacts
  <1>4. told' = told \ {g} /\ silent' = silent \ {g} /\ UNCHANGED deletions
    BY DEF Given
  <1>5. FlowTypeOK'
    BY <1>1, <1>2, <1>4 DEF FlowIInv, FlowTypeOK, Places
  <1>6. OthersSame(r)
    BY <1>1, <1>2, <1>3 DEF OthersSame
  <1>7. Tidy(req'[r], at'[r], news'[r])
    BY <1>1, <1>2, <1>3 DEF Tidy
  <1>8. SharesKept(r)
    <2>1. ASSUME NEW b \in rows', b.to \in Users, b.to # g,
                 b.to \in told \cup silent \/ SharedWith(b.to) \in news[r]
          PROVE  b.to \in told' \cup silent' \/ SharedWith(b.to) \in news'[r]
      BY <1>2, <1>4, <2>1
    <2>2. ASSUME NEW b \in rows', b.to \in Users, b.to = g PROVE SharedWith(b.to) \in news'[r]
      BY <1>2, <2>2
    <2> QED BY <1>3, <2>1, <2>2 DEF SharesKept
  <1>9. DeletesKept(r)
    BY <1>2, <1>3, <1>4 DEF DeletesKept
  <1> QED BY <1>5, <1>6, <1>7, <1>8, <1>9, TogetherStep

LEMMA SamePlace ==
    ASSUME FlowIInv, NEW r \in Requests, UNCHANGED at
    PROVE  Goto(r, at[r])
  BY TidyFacts DEF Goto

\* One more row of a create or of a share that can go on.
LEMMA MoreSharesStep ==
    ASSUME FlowIInv, IInv', NEW r \in Requests, NEW g \in Grantees,
           ShareCreated(r, g) \/ (Share(r, g) /\ g # Public)
    PROVE  FlowIInv'
  <1>1. /\ GrantTaskAccess(r, g) \/ ShareTarget(r, g)
        /\ req[r].pc = "write" /\ req[r].kind \in {"create", "share"} /\ req' = Overtaken
        /\ Prepare(r, news[r] \cup Announcement(g)) /\ Given(r, g) /\ UNCHANGED at
    BY DEF ShareCreated, Share, GrantTaskAccess, ShareTarget
  <1>2. at[r] = "none" /\ \A m \in news[r] : m.type = "task_shared"
    BY <1>1, TidyFacts DEF Tidy, Places
  <1>3. Goto(r, "none")
    BY <1>1, <1>2, SamePlace
  <1>4. PICK M \in SUBSET Message : M = news[r] \cup Announcement(g)
    BY AnnouncementFacts, TidyFacts
  <1>5. /\ \A m \in M : m.type = "task_shared"
        /\ g \in Users => SharedWith(g) \in M
        /\ news[r] \subseteq M
    BY <1>2, <1>4, AnnouncementFacts
  <1>6. req'[r].pc = "write"
    BY <1>1, OvertakenFacts, TidyFacts
  <1> QED BY <1>1, <1>3, <1>4, <1>5, <1>6, GiveStep

LEMMA GrantFlowStep ==
    ASSUME FlowIInv, IInv', NEW r \in Requests, NEW g \in Grantees, Grant(r, g)
    PROVE  FlowIInv'
  <1>1. /\ GrantACL(r, g) /\ req[r].pc = "write" /\ req[r].kind = "grant"
        /\ req' = [Overtaken EXCEPT ![r] = Idle]
        /\ Prepare(r, Announcement(g)) /\ Given(r, g) /\ Goto(r, "notify")
    BY DEF Grant, GrantACL
  <1>2. news[r] = {}
    BY <1>1, TidyFacts DEF Tidy, Places
  <1>3. req'[r].pc = "idle"
    BY <1>1, OvertakenFacts, IdleFacts, TidyFacts
  <1> QED BY <1>1, <1>2, <1>3, AnnouncementFacts, GiveStep

\* The public target that ends the request.
LEMMA PublicShareStep ==
    ASSUME FlowIInv, IInv', NEW r \in Requests, Public \in Grantees, Share(r, Public)
    PROVE  FlowIInv'
  <1>1. /\ ShareTarget(r, Public) /\ req[r].pc = "write"
        /\ req' = [Overtaken EXCEPT ![r] = Idle]
        /\ Prepare(r, {}) /\ GivenUp(Announced(r)) /\ UNCHANGED at
    BY DEF Share, ShareTarget
  <1>2. at[r] = "none"
    BY <1>1, TidyFacts DEF Tidy, Places
  <1>3. /\ news' \in [Requests -> SUBSET Message] /\ news'[r] = {}
        /\ \A s \in Requests \ {r} : news'[s] = news[s]
    BY <1>1, NewsFacts, TidyFacts
  <1>4. /\ \A s \in Requests \ {r} : req'[s].pc = req[s].pc /\ req'[s].kind = req[s].kind
        /\ UNCHANGED live
        /\ \A b \in rows' : b.to = Public \/ \E c \in rows : c.to = b.to
    BY <1>1, GiveFacts, TidyFacts
  <1>5. FlowTypeOK'
    BY <1>1, <1>3, GivenUpFacts DEF FlowIInv, FlowTypeOK
  <1>6. OthersSame(r) /\ Tidy(req'[r], at'[r], news'[r])
    BY <1>1, <1>2, <1>3, <1>4 DEF OthersSame, Tidy
  <1>7. SharesKept(r)
    BY <1>1, <1>4, GivenUpFacts, UsersAssumption DEF SharesKept
  <1>8. DeletesKept(r)
    BY <1>1, <1>2, <1>4, GivenUpFacts DEF DeletesKept
  <1> QED BY <1>5, <1>6, <1>7, <1>8, TogetherStep

LEMMA DeleteFoundStep ==
    ASSUME FlowIInv, IInv', NEW r \in Requests, DeleteFound(r)
    PROVE  FlowIInv'
  <1>1. /\ at[r] = "resolved" /\ live /\ live' = FALSE
        /\ UNCHANGED rows /\ UNCHANGED req /\ UNCHANGED news /\ UNCHANGED history
        /\ Goto(r, "notify")
    BY DEF DeleteFound, DeleteTask
  <1>2. req[r].pc = "serve" /\ req[r].kind # "sync"
    BY <1>1, TidyFacts DEF Tidy
  <1>3. /\ at' \in [Requests -> Places] /\ at'[r] = "notify"
        /\ \A s \in Requests \ {r} : at'[s] = at[s]
    BY <1>1, PlaceFacts, TidyFacts DEF Places
  <1>4. UNCHANGED told /\ UNCHANGED silent /\ UNCHANGED deletions
    BY <1>1 DEF history
  <1>5. FlowTypeOK'
    BY <1>1, <1>3, <1>4 DEF FlowIInv, FlowTypeOK, Places
  <1>6. OthersSame(r) /\ Tidy(req'[r], at'[r], news'[r])
    BY <1>1, <1>2, <1>3 DEF OthersSame, Tidy
  <1>7. \A s \in Requests : Tidy(req[s], at[s], news[s])'
    BY <1>6, TidyStep
  <1>8. SharesAnnounced'
    BY <1>1, <1>4 DEF FlowIInv, SharesAnnounced
  <1>9. \A u \in Users : deletions[u] = 0
    <2>1. \A u \in Users : ~(deletions[u] > 0)
      BY <1>1 DEF FlowIInv, DeletionToldOnce
    <2>2. \A u \in Users : deletions[u] \in 0..2
      BY TidyFacts DEF FlowTypeOK
    <2> QED BY <2>1, <2>2
  <1>10. ASSUME NEW u \in Users, NEW s \in Requests, at'[s] = "notify", DeletedTo(u) \in news'[s]
         PROVE  s = r
    BY <1>1, <1>3, <1>10 DEF FlowIInv, DeletionToldOnce, DeletedTo
  <1>11. DeletionToldOnce'
    BY <1>1, <1>4, <1>9, <1>10 DEF DeletionToldOnce, DeletedTo
  <1> QED BY <1>5, <1>7, <1>8, <1>11 DEF FlowIInv

LEMMA SendStep == ASSUME FlowIInv, IInv', NEW r \in Requests, Send(r) PROVE FlowIInv'
  <1>1. PICK m \in news[r] :
          /\ Prepare(r, news[r] \ {m})
          /\ told' = IF m.type = "task_shared" THEN told \cup {m.to} ELSE told
          /\ deletions' = [deletions EXCEPT ![m.to] =
                IF m.type = "task_deleted" /\ @ < 2 THEN @ + 1 ELSE @]
    BY DEF Send
  <1>2. /\ at[r] = "notify" /\ UNCHANGED at /\ UNCHANGED silent
        /\ UNCHANGED live /\ UNCHANGED rows /\ UNCHANGED req
    BY DEF Send, vars
  <1>3. /\ news' \in [Requests -> SUBSET Message] /\ news'[r] = news[r] \ {m}
        /\ \A s \in Requests \ {r} : news'[s] = news[s]
    BY <1>1, NewsFacts, TidyFacts
  <1>4. m \in Message /\ m.to \in Users /\ m = [type |-> m.type, to |-> m.to]
    BY TidyFacts DEF Message
  <1>5. /\ deletions' \in [Users -> 0..2]
        /\ \A u \in Users \ {m.to} : deletions'[u] = deletions[u]
        /\ m.type # "task_deleted" => deletions' = deletions
        /\ m.type = "task_deleted" /\ deletions[m.to] = 0 => deletions'[m.to] = 1
    BY <1>1, <1>4, TidyFacts DEF FlowTypeOK
  <1>6. FlowTypeOK'
    BY <1>1, <1>2, <1>3, <1>4, <1>5 DEF FlowIInv, FlowTypeOK
  <1>7. OthersSame(r) /\ Tidy(req'[r], at'[r], news'[r])
    BY <1>2, <1>3, TidyFacts DEF OthersSame, Tidy
  <1>8. SharesAnnounced'
    <2>1. ASSUME NEW u \in Users, SharedWith(u) \in news[r], SharedWith(u) \notin news'[r]
          PROVE  u \in told'
      <3>1. m = SharedWith(u)
        BY <1>3, <2>1
      <3> QED BY <1>1, <3>1 DEF SharedWith
    <2>2. SharesKept(r)
      BY <1>1, <1>2, <2>1 DEF SharesKept
    <2> QED BY <1>7, <2>2, SharesStep
  <1>9. CASE m.type # "task_deleted"
    <2>1. DeletesKept(r)
      BY <1>2, <1>3, <1>5, <1>9 DEF DeletesKept
    <2> QED BY <1>6, <1>7, <1>8, <2>1, TidyStep, DeletesStep DEF FlowIInv
  <1>10. CASE m.type = "task_deleted"
    <2>1. m = DeletedTo(m.to)
      BY <1>4, <1>10 DEF DeletedTo
    <2>2. /\ ~live /\ deletions[m.to] # 1 /\ deletions[m.to] <= 1
          /\ \A s \in Requests : at[s] = "notify" /\ m \in news[s] => s = r
      BY <1>2, <1>4, <2>1 DEF FlowIInv, DeletionToldOnce, DeletedTo
    <2>3. deletions[m.to] = 0 /\ deletions'[m.to] = 1
      BY <1>4, <1>5, <1>10, <2>2 DEF FlowIInv, FlowTypeOK
    <2>4. \A s \in Requests : ~(at'[s] = "notify" /\ m \in news'[s])
      BY <1>2, <1>3, <2>2
    <2>5. ASSUME NEW u \in Users PROVE
             /\ deletions'[u] > 0 \/ (\E s \in Requests : at'[s] = "notify" /\ DeletedTo(u) \in news'[s])
                   => ~live'
             /\ deletions'[u] <= 1
             /\ deletions'[u] = 1 =>
                   \A s \in Requests : ~(at'[s] = "notify" /\ DeletedTo(u) \in news'[s])
             /\ \A s, t \in Requests :
                   /\ at'[s] = "notify" /\ DeletedTo(u) \in news'[s]
                   /\ at'[t] = "notify" /\ DeletedTo(u) \in news'[t]
                   => s = t
      <3>1. CASE u = m.to
        BY <1>2, <2>1, <2>2, <2>3, <2>4, <3>1
      <3>2. CASE u # m.to
        <4>1. \A s \in Requests : at'[s] = "notify" /\ DeletedTo(u) \in news'[s]
                 => at[s] = "notify" /\ DeletedTo(u) \in news[s]
          BY <1>2, <1>3
        <4>2. deletions'[u] = deletions[u]
          BY <1>5, <3>2
        <4> QED BY <1>2, <2>2, <4>1, <4>2 DEF FlowIInv, DeletionToldOnce, DeletedTo
      <3> QED BY <3>1, <3>2
    <2>6. DeletionToldOnce'
      BY <2>5 DEF DeletionToldOnce, DeletedTo
    <2> QED BY <1>6, <1>7, <1>8, <2>6, TidyStep DEF FlowIInv
  <1> QED BY <1>9, <1>10

LEMMA FinishStep == ASSUME FlowIInv, IInv', NEW r \in Requests, Finish(r) PROVE FlowIInv'
  <1>1. /\ at[r] = "notify" /\ news[r] = {} /\ Goto(r, "none")
        /\ UNCHANGED news /\ UNCHANGED history
        /\ IF req[r].pc = "serve" THEN Serve(r) ELSE UNCHANGED vars
    BY DEF Finish
  <1>2. /\ at' \in [Requests -> Places] /\ at'[r] = "none"
        /\ \A s \in Requests \ {r} : at'[s] = at[s]
    BY <1>1, PlaceFacts, TidyFacts DEF Places
  <1>3. /\ \A s \in Requests \ {r} : req'[s] = req[s]
        /\ UNCHANGED live /\ UNCHANGED rows
    BY <1>1, ServeFacts, TidyFacts DEF vars
  <1>4. OthersSame(r) /\ Tidy(req'[r], at'[r], news'[r])
    BY <1>1, <1>2, <1>3 DEF OthersSame, Tidy
  <1> QED BY <1>1, <1>2, <1>3, <1>4, QuietStep, TidyFacts

LEMMA SyncEndsStep == ASSUME FlowIInv, IInv', NEW r \in Requests, SyncEnds(r) PROVE FlowIInv'
  <1>1. /\ req[r].kind = "sync" /\ req[r].pc = "serve" /\ Serve(r)
        /\ UNCHANGED at /\ UNCHANGED news /\ UNCHANGED history
    BY FlowUnchanged DEF SyncEnds, Serve
  <1>2. at[r] = "none" /\ news[r] = {}
    BY <1>1, TidyFacts DEF Tidy
  <1>3. /\ req'[r] = Idle /\ \A s \in Requests \ {r} : req'[s] = req[s]
        /\ UNCHANGED live /\ UNCHANGED rows
    BY <1>1, TidyFacts, IdleFacts, SetFacts DEF Serve, End, Set
  <1>4. OthersSame(r) /\ Tidy(req'[r], at'[r], news'[r])
    BY <1>1, <1>2, <1>3, IdleFacts DEF OthersSame, Tidy
  <1> QED BY <1>1, <1>2, <1>3, <1>4, QuietStep, TidyFacts

LEMMA SyncDeleteStep ==
    ASSUME FlowIInv, IInv', NEW r \in Requests, SyncDelete(r)
    PROVE  FlowIInv'
  <1>1. /\ live' = FALSE /\ UNCHANGED rows /\ UNCHANGED req
        /\ UNCHANGED at /\ UNCHANGED news
        /\ UNCHANGED told /\ UNCHANGED silent /\ UNCHANGED deletions
    BY FlowUnchanged DEF SyncDelete, DeleteTask
  <1>2. FlowTypeOK' /\ \A s \in Requests : Tidy(req[s], at[s], news[s])'
    BY <1>1 DEF FlowIInv, FlowTypeOK
  <1>3. SharesAnnounced'
    BY <1>1 DEF FlowIInv, SharesAnnounced
  <1>4. DeletionToldOnce'
    BY <1>1 DEF FlowIInv, DeletionToldOnce
  <1> QED BY <1>2, <1>3, <1>4 DEF FlowIInv

LEMMA FlowTickStep == ASSUME FlowIInv, IInv', FlowTick PROVE FlowIInv'
  <1>1. /\ rows' = Elapsed(rows) /\ UNCHANGED live /\ UNCHANGED req
        /\ UNCHANGED at /\ UNCHANGED news
        /\ UNCHANGED told /\ UNCHANGED silent /\ UNCHANGED deletions
    BY FlowUnchanged DEF FlowTick, Tick
  <1>2. FlowTypeOK' /\ \A s \in Requests : Tidy(req[s], at[s], news[s])'
    BY <1>1 DEF FlowIInv, FlowTypeOK
  <1>3. \A a \in rows' : \E b \in rows : b.to = a.to
    <2>1. ASSUME NEW a \in Elapsed(rows) PROVE \E b \in rows : b.to = a.to
      <3>1. PICK b \in rows : a = [b EXCEPT !.left = IF @ \in {0, Never} THEN @ ELSE @ - 1]
        BY DEF Elapsed
      <3>2. b \in ACL
        BY DEF FlowIInv, IInv, TypeOK
      <3>3. PICK l : a = [b EXCEPT !.left = l]
        BY <3>1
      <3> QED BY <3>2, <3>3 DEF ACL
    <2> QED BY <1>1, <2>1
  <1>4. SharesAnnounced'
    BY <1>1, <1>3 DEF FlowIInv, SharesAnnounced
  <1>5. DeletionToldOnce'
    BY <1>1 DEF FlowIInv, DeletionToldOnce
  <1> QED BY <1>2, <1>4, <1>5 DEF FlowIInv

-----------------------------------------------------------------------------
(* The invariant *)

LEMMA FlowInitially == FlowInit => FlowIInv
  <1> SUFFICES ASSUME FlowInit PROVE FlowIInv
    OBVIOUS
  <1>1. IInv
    BY Initially DEF FlowInit
  <1>2. /\ \A r \in Requests : at[r] = "none" /\ news[r] = {}
        /\ rows = {} /\ told = {} /\ silent = {} /\ \A u \in Users : deletions[u] = 0
    BY DEF FlowInit, Init
  <1>3. FlowTypeOK
    BY DEF FlowInit, FlowTypeOK
  <1>4. (\A r \in Requests : Tidy(req[r], at[r], news[r])) /\ SharesAnnounced /\ DeletionToldOnce
    BY <1>2 DEF Tidy, SharesAnnounced, DeletionToldOnce
  <1> QED BY <1>1, <1>3, <1>4 DEF FlowIInv

LEMMA FlowInductive == FlowIInv /\ [FlowNext]_flowVars => FlowIInv'
  <1> SUFFICES ASSUME FlowIInv, [FlowNext]_flowVars PROVE FlowIInv'
    OBVIOUS
  <1>0. IInv'
    BY FlowRefinesStep, Inductive DEF FlowIInv
  <1>1. CASE UNCHANGED flowVars
    <2>1. /\ UNCHANGED live /\ UNCHANGED rows /\ UNCHANGED req /\ UNCHANGED at /\ UNCHANGED news
          /\ UNCHANGED told /\ UNCHANGED silent /\ UNCHANGED deletions
      BY <1>1 DEF flowVars, vars, flow, history
    <2>2. FlowTypeOK' /\ \A s \in Requests : Tidy(req[s], at[s], news[s])'
      BY <2>1 DEF FlowIInv, FlowTypeOK
    <2>3. SharesAnnounced' /\ DeletionToldOnce'
      BY <2>1 DEF FlowIInv, SharesAnnounced, DeletionToldOnce
    <2> QED BY <1>0, <2>2, <2>3 DEF FlowIInv
  <1>2. CASE FlowTick
    BY <1>0, <1>2, FlowTickStep
  <1>3. ASSUME NEW r \in Requests, Admit(r) PROVE FlowIInv'
    BY <1>0, <1>3, AdmitStep
  <1>4. ASSUME NEW r \in Requests, Handle(r) PROVE FlowIInv'
    <2>1. ASSUME NEW g \in Grantees, ShareCreated(r, g) \/ Grant(r, g) \/ Share(r, g)
          PROVE  FlowIInv'
      <3>1. CASE Share(r, g) /\ g = Public
        BY <1>0, <3>1, PublicShareStep
      <3> QED BY <1>0, <2>1, <3>1, MoreSharesStep, GrantFlowStep
    <2> QED BY <1>0, <1>4, <2>1, CheckStep, UpdateTaskStep, AnswerStep, ResolveStep,
               DeleteFoundStep, EndOfSharesStep, RevokeFlowStep, WriteFailsStep, SendStep,
               FinishStep, SyncDeleteStep, SyncEndsStep DEF Handle
  <1> QED BY <1>1, <1>2, <1>3, <1>4 DEF FlowNext

LEMMA FlowInvariant == FlowSpec => []FlowIInv
  BY FlowInitially, FlowInductive, PTL DEF FlowSpec

-----------------------------------------------------------------------------
(* Theorems *)

\* The handlers with their notifications are a behaviour of AclService: what
\* is proved of its routes holds of them (features/tasks/routes.go,
\* features/acl/routes.go).
THEOREM FlowRefinesAcl == FlowSpec => Spec
  <1>1. FlowInit => Init
    BY DEF FlowInit
  <1> QED BY <1>1, FlowRefinesStep, PTL DEF FlowSpec, Spec

\* So, on the routes that check, no handler runs and no row of acls changes on a
\* permission lost longer ago than a cache entry lives (acl/repository.go:155-218).
\* The updates and deletes of a sync are not checked.
THEOREM HandlersJustified == FlowSpec => []DecisionsJustified
  BY FlowRefinesAcl, StalenessBounded, PTL

\* The handlers, notifications and failures in between keep the promise of
\* Rights that access control makes of its own: they change nothing that was not
\* let through, and a task is deleted only by a request let through to the delete,
\* checked for it by the middleware or unchecked in a sync.
THEOREM HandlersEnforceRights == FlowSpec => EnforcesRights
  BY FlowRefinesAcl, RightsEnforced, PTL

\* Places, messages and what was sent keep their types.
THEOREM FlowTypeCorrect == FlowSpec => []FlowTypeOK
  <1>1. FlowIInv => FlowTypeOK
    BY DEF FlowIInv
  <1> QED BY <1>1, FlowInvariant, PTL

\* No interleaving of shares, grants, revocations and failures loses an
\* announcement (acl/service.go:77-99, acl/handler.go:131).
THEOREM NoShareForgotten == FlowSpec => []SharesAnnounced
  <1>1. FlowIInv => SharesAnnounced
    BY DEF FlowIInv
  <1> QED BY <1>1, FlowInvariant, PTL

\* However many deletes race, a user is told of the deletion once, and after it
\* (websocket_handler.go:275-295).
THEOREM NoFalseDeletion == FlowSpec => []DeletionToldOnce
  <1>1. FlowIInv => DeletionToldOnce
    BY DEF FlowIInv
  <1> QED BY <1>1, FlowInvariant, PTL
=============================================================================
