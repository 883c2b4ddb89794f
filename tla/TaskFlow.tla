------------------------------- MODULE TaskFlow -------------------------------
(***************************************************************************)
(* The requests on one task from the route to the last notification: the   *)
(* handlers of features/tasks and features/acl, composed with the access   *)
(* control of AclService, which decides who gets to them.                  *)
(*                                                                         *)
(* A handler behind the check is several statements more.  An update is    *)
(* committed and then looks for whom to notify; a delete looks first, as   *)
(* the task is not found afterwards; a share is one row after the other    *)
(* and the messages at the end.  Sending on hub.Broadcast is one message   *)
(* at a time; module Hub says what becomes of it, and that a handler is    *)
(* not blocked for ever.  Whether an edit succeeds is the matter of        *)
(* TaskStore: here it does or does not.                                    *)
(***************************************************************************)
EXTENDS AclService

VARIABLES
    at,         \* per request: the statement of the handler it has come to
    news,       \* per request: the messages it has prepared and not yet sent
    told,       \* history: users sent task_shared since their last row
    silent,     \* history: users whose last row is of a request that failed
    deletions   \* history: how often task_deleted was sent to a user, up to 2

history == <<told, silent, deletions>>

flow == <<at, news, history>>

flowVars == <<vars, flow>>

Message == [type : {"task_created", "task_shared", "task_updated", "task_deleted"},
            to : Users]

\* One message of a type for each user in U.
To(type, U) == {[type |-> type, to |-> u] : u \in U}

FlowTypeOK ==
    /\ at \in [Requests -> {"none", "updated", "found", "resolved", "notify"}]
    /\ news \in [Requests -> SUBSET Message]
    /\ told \subseteq Users /\ silent \subseteq Users
    /\ deletions \in [Users -> 0..2]

FlowInit ==
    /\ Init
    /\ at = [r \in Requests |-> "none"]
    /\ news = [r \in Requests |-> {}]
    /\ told = {} /\ silent = {}
    /\ deletions = [u \in Users |-> 0]

-----------------------------------------------------------------------------
(* Helpers *)

Goto(r, a) == at' = [at EXCEPT ![r] = a]

Prepare(r, M) == news' = [news EXCEPT ![r] = M]

\* The handler answers (with an error or not) and is done.
Answer(r) ==
    /\ Serve(r)
    /\ Goto(r, "none")
    /\ Prepare(r, {})
    /\ UNCHANGED history

\* The handler behind the middleware has been called.
Called(r, perm) ==
    /\ req[r].pc = "serve" /\ req[r].kind = "access" /\ req[r].need = {perm}
    /\ at[r] = "none"

\* Repository.GetACL selects eleven columns and scans nine: as soon as there
\* is a row to scan it returns an error.
GetACLFails == \E a \in rows : a.left > 0

\* ListCollaboratorIDs, had GetACL returned its rows.
Collaborators == {u \in Users : \E a \in rows : a.to = u /\ a.left > 0}

\* ListRecipients: the owner and the collaborators except the author u.
\* Both handlers take an error for nobody.
ListRecipients(u) ==
    IF GetACLFails THEN {} ELSE ({Owner} \cup Collaborators) \ {u}

-----------------------------------------------------------------------------
(* PUT /tasks/{id} *)

\* FindByID finds the task and the transaction of Repository.Update commits;
\* what other changes do between the two is the matter of TaskStore.
UpdateTask(r) ==
    /\ Called(r, "WRITE")
    /\ live
    /\ Goto(r, "updated")
    /\ UNCHANGED <<vars, news, history>>

\* The task is deleted, the update is refused, or a statement fails.
UpdateFails(r) ==
    /\ Called(r, "WRITE")
    /\ Answer(r)

\* The recipients of an update are read after it.
ResolveUpdated(r) ==
    /\ at[r] = "updated"
    /\ \E U \in {ListRecipients(req[r].user), {}} : Prepare(r, To("task_updated", U))
    /\ Goto(r, "notify")
    /\ UNCHANGED <<vars, history>>

(* DELETE /tasks/{id} *)

\* GetTaskOwner: without an owner there will be no recipients.
GetTaskOwner(r) ==
    /\ Called(r, "DELETE")
    /\ \/ live /\ Goto(r, "found")
       \/ Goto(r, "resolved")
    /\ UNCHANGED <<vars, news, history>>

\* The recipients of a delete are read before it.
ResolveDeleted(r) ==
    /\ at[r] = "found"
    /\ \E U \in {ListRecipients(req[r].user), {}} : Prepare(r, To("task_deleted", U))
    /\ Goto(r, "resolved")
    /\ UNCHANGED <<vars, history>>

\* Faulty variant of DeleteFound: a delete of no row is taken for a success.
DeleteAnyway(r) ==
    /\ at[r] = "resolved"
    /\ live' = FALSE
    /\ Goto(r, "notify")
    /\ UNCHANGED <<rows, cache, req, age, news, history>>

\* Repository.Delete finds the live row.
DeleteFound(r) ==
    /\ at[r] = "resolved"
    /\ DeleteTask(r)
    /\ Goto(r, "notify")
    /\ UNCHANGED <<news, history>>

\* No live row any more, or the statement fails.
DeleteFails(r) ==
    /\ at[r] = "resolved"
    /\ Answer(r)

-----------------------------------------------------------------------------
(* POST /tasks, POST /acl, POST /share *)

\* Request r has given g a row: whatever was said of an older one is past.
Given(r, g) ==
    /\ told' = told \ {g} /\ silent' = silent \ {g}
    /\ UNCHANGED deletions

\* The request fails after some rows: nobody will be told of them.
GivenUp(U) ==
    /\ silent' = silent \cup (U \ told)
    /\ UNCHANGED <<told, deletions>>

\* Faulty variant of Announcement: a grantee who has a row already is not told
\* of the new one.
AnnouncementToNew(g) ==
    To("task_shared", IF \E a \in rows : a.to = g THEN {} ELSE {g} \cap Users)

\* notifyShare: only grantees that are users have somewhere to send to.
Announcement(g) == To("task_shared", {g} \cap Users)

Announced(r) == {m.to : m \in news[r]}

\* A new task is shared with one more of the users named in the request.
ShareCreated(r, u) ==
    /\ GrantTaskAccess(r, u)
    /\ Prepare(r, news[r] \cup Announcement(u))
    /\ Given(r, u)
    /\ UNCHANGED at

\* CreateTask: task_created to the author, then one message for each share.
Created(r) ==
    /\ req[r].kind = "create" /\ StopWriting(r)
    /\ Prepare(r, news[r] \cup To("task_created", {req[r].user}))
    /\ Goto(r, "notify")
    /\ UNCHANGED history

\* POST /acl.
Grant(r, g) ==
    /\ GrantACL(r, g)
    /\ Prepare(r, Announcement(g))
    /\ Given(r, g)
    /\ Goto(r, "notify")

\* One target of a share; the nil GranteeID of a public one ends the request
\* with its row, and those of the targets before it, in the table.
Share(r, g) ==
    /\ ShareTarget(r, g)
    /\ Prepare(r, IF g = Public THEN {} ELSE news[r] \cup Announcement(g))
    /\ IF g = Public THEN GivenUp(Announced(r)) ELSE Given(r, g)
    /\ UNCHANGED at

\* The last target is done.
Shared(r) ==
    /\ req[r].kind = "share" /\ StopWriting(r)
    /\ Goto(r, "notify")
    /\ UNCHANGED <<news, history>>

\* DELETE /acl/{id} tells nobody.
Revoke(r) == RevokeACL(r) /\ UNCHANGED flow

\* A role that does not parse or a statement that fails ends the request.
WriteFails(r) ==
    /\ req[r].kind # "create" /\ StopWriting(r)
    /\ GivenUp(Announced(r))
    /\ Prepare(r, {})
    /\ UNCHANGED at

-----------------------------------------------------------------------------
(* Sending *)

\* h.hub.Broadcast <- message.
Send(r) ==
    /\ at[r] = "notify"
    /\ \E m \in news[r] :
          /\ Prepare(r, news[r] \ {m})
          /\ told' = IF m.type = "task_shared" THEN told \cup {m.to} ELSE told
          /\ deletions' = [deletions EXCEPT ![m.to] =
                IF m.type = "task_deleted" /\ @ < 2 THEN @ + 1 ELSE @]
    /\ UNCHANGED <<vars, at, silent>>

\* The handler has sent everything.  A share or a grant is done with the
\* access control already, the handlers behind the middleware are not.
Finish(r) ==
    /\ at[r] = "notify" /\ news[r] = {}
    /\ IF req[r].pc = "serve" THEN Serve(r) ELSE UNCHANGED vars
    /\ Goto(r, "none")
    /\ UNCHANGED <<news, history>>

\* An update or a delete carried by a sync request notifies nobody; only the
\* delete changes what is modelled here.
SyncDelete(r) == req[r].kind = "sync" /\ DeleteTask(r) /\ UNCHANGED flow

SyncEnds(r) == req[r].kind = "sync" /\ Serve(r) /\ UNCHANGED flow

\* The routes that change something.
Admit(r) ==
    /\ at[r] = "none"
    /\ \/ AccessTask(r) \/ SyncTasks(r)
       \/ GrantRoute(r) \/ ShareRoute(r) \/ RevokeRoute(r)
    /\ UNCHANGED flow

FlowCheck(r) == Check(r) /\ UNCHANGED flow

FlowTick == (\A r \in Requests : at[r] = "none") /\ Tick /\ UNCHANGED flow

\* What a request in progress does next.
Handle(r) ==
    \/ FlowCheck(r)
    \/ UpdateTask(r) \/ UpdateFails(r) \/ ResolveUpdated(r)
    \/ GetTaskOwner(r) \/ ResolveDeleted(r) \/ DeleteFound(r) \/ DeleteFails(r)
    \/ \E g \in Grantees : ShareCreated(r, g) \/ Grant(r, g) \/ Share(r, g)
    \/ Created(r) \/ Shared(r) \/ Revoke(r) \/ WriteFails(r)
    \/ Send(r) \/ Finish(r) \/ SyncDelete(r) \/ SyncEnds(r)

FlowNext ==
    \/ \E r \in Requests : Admit(r) \/ Handle(r)
    \/ FlowTick

FlowSpec == FlowInit /\ [][FlowNext]_flowVars

-----------------------------------------------------------------------------
(* Properties *)

\* ListRecipients returns "o owner + todos os colaboradores com ACL ativa"
\* except the author (tasks/service.go:228-230): when a change has resolved
\* its recipients they are all of these.  Failing queries aside.
CollaboratorsTold ==
    \A u \in Users : ListRecipients(u) = ({Owner} \cup Collaborators) \ {u}

\* Whoever holds a row is told, has a message on the way, or owes the row to
\* a request that failed half way (acl/service.go:77-99, acl/handler.go:131):
\* no interleaving of shares loses an announcement.
SharesAnnounced ==
    \A a \in rows : a.to \in Users =>
        \/ a.to \in told \cup silent
        \/ \E r \in Requests : [type |-> "task_shared", to |-> a.to] \in news[r]

\* task_deleted is prepared before the delete (websocket_handler.go:275-295)
\* and still sent only once the task is deleted, and to a user only once,
\* however many deletes race.
DeletionToldOnce ==
    \A u \in Users : LET m == [type |-> "task_deleted", to |-> u] IN
        LET Telling == {r \in Requests : at[r] = "notify" /\ m \in news[r]} IN
        /\ deletions[u] > 0 \/ Telling # {} => ~live
        /\ deletions[u] <= 1
        /\ deletions[u] = 1 => Telling = {}
        /\ \A r, s \in Telling : r = s
=============================================================================
