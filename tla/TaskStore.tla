------------------------------ MODULE TaskStore ------------------------------
(***************************************************************************)
(* The task service and its repository (features/tasks/service.go and      *)
(* repository.go) over PostgreSQL at READ COMMITTED.                       *)
(*                                                                         *)
(* A request is one goroutine.  An HTTP request carries one change; a sync *)
(* request carries several, executed one after the other, each in its own  *)
(* transaction, with errors swallowed.  An update first reads the task     *)
(* outside any transaction, computes the new row in memory, and only then  *)
(* opens the transaction that writes the row and the event.  Nothing but   *)
(* the row lock taken by UPDATE and the constraint UNIQUE(task_id, version)*)
(* on task_events orders two such requests.                                *)
(*                                                                         *)
(* A change is identified by the request it belongs to and its position in *)
(* it; the value a change writes in a field is represented by its identity.*)
(***************************************************************************)
EXTENDS Integers, FiniteSets

CONSTANTS
    Users,          \* ids of authenticated users
    Tasks,          \* the snowflake ids that can be generated
    Requests,       \* requests the server receives
    Fields,         \* editable columns: title, description, status, ...
    MaxChanges,     \* bound: changes carried by one sync request
    None            \* nobody, nothing

ASSUME MaxChangesAssumption == MaxChanges \in Nat \ {0}
ASSUME NoneAssumption ==
    /\ None \notin Users
    /\ None \notin Tasks
    /\ None \notin Requests
    /\ None \notin Requests \X (1..MaxChanges)

VARIABLES
    (* the database: survives a crash *)
    life,       \* per task: "absent", "live", "deleted" (deleted_at is set)
    tasks,      \* per task: its committed row
    events,     \* committed rows of task_events
    lock,       \* per task: request whose open transaction wrote its row
    (* the requests *)
    pc,         \* where the goroutine of the request is
    actor,      \* user the request runs for
    mode,       \* "http" (one change) or "sync" (a list of changes)
    n,          \* changes of the request already dealt with
    job,        \* the change being executed
    acked       \* history: changes the service reported as done; the count
                \* of a sync response is the number of those of the request

vars == <<life, tasks, events, lock, pc, actor, mode, n, job, acked>>

-----------------------------------------------------------------------------
Changes == Requests \X (1..MaxChanges)

NoRow == [owner   |-> None,
          version |-> 0,
          clock   |-> [u \in Users |-> 0],
          content |-> [f \in Fields |-> None]]

Row == [owner   : Users \cup {None},
        version : Nat,
        clock   : [Users -> Nat],
        content : [Fields -> Changes \cup {None}]]

\* fields is not a column: it records, for the properties, what was asked for.
Event == [task : Tasks, version : Nat, user : Users, seq : Nat,
          change : Changes, fields : SUBSET Fields]

\* The change on task t that sets the columns F, with the row to be written.
NewJob(t, row, F) == [task |-> t, row |-> row, fields |-> F, seq |-> 0]

NoJob == NewJob(None, NoRow, {})

Job == [task : Tasks \cup {None}, row : Row, fields : SUBSET Fields, seq : Nat]

Ack == [change : Changes, op : {"create", "update", "delete", "unknown"},
        task : Tasks \cup {None}]

TypeOK ==
    /\ life \in [Tasks -> {"absent", "live", "deleted"}]
    /\ tasks \in [Tasks -> Row]
    /\ events \subseteq Event
    /\ lock \in [Tasks -> Requests \cup {None}]
    /\ pc \in [Requests -> {"new", "next", "loaded", "written", "logged", "done", "gone"}]
    /\ actor \in [Requests -> Users \cup {None}]
    /\ mode \in [Requests -> {"http", "sync"}]
    /\ n \in [Requests -> 0..MaxChanges]
    /\ job \in [Requests -> Job]
    /\ acked \subseteq Ack

Init ==
    /\ life = [t \in Tasks |-> "absent"]
    /\ tasks = [t \in Tasks |-> NoRow]
    /\ events = {}
    /\ lock = [t \in Tasks |-> None]
    /\ pc = [r \in Requests |-> "new"]
    /\ actor = [r \in Requests |-> None]
    /\ mode = [r \in Requests |-> "http"]
    /\ n = [r \in Requests |-> 0]
    /\ job = [r \in Requests |-> NoJob]
    /\ acked = {}

-----------------------------------------------------------------------------
(* Helpers *)

\* The change a request is executing, or would execute next.
Change(r) == <<r, n[r] + 1>>

\* Faulty variants of Edited: the clock of the owner advances instead of the
\* author's; a partial update overwrites the columns it does not name.
EditedByOwner(row, u, F, c) ==
    [owner   |-> row.owner,
     version |-> row.version + 1,
     clock   |-> [row.clock EXCEPT ![row.owner] = @ + 1],
     content |-> [f \in Fields |-> IF f \in F THEN c ELSE row.content[f]]]

EditedWholeRow(row, u, F, c) ==
    [owner   |-> row.owner,
     version |-> row.version + 1,
     clock   |-> [row.clock EXCEPT ![u] = @ + 1],
     content |-> [f \in Fields |-> c]]

\* The in-memory row of an edit: version and author's clock go up by one and
\* only the columns named in the request are replaced.
Edited(row, u, F, c) ==
    [owner   |-> row.owner,
     version |-> row.version + 1,
     clock   |-> [row.clock EXCEPT ![u] = @ + 1],
     content |-> [f \in Fields |-> IF f \in F THEN c ELSE row.content[f]]]

\* Faulty variant of NextSeqs: the "+ 1" is missing.
NextSeqsSame(evs) ==
    {s \in {0} \cup {e.seq : e \in evs} : \A e \in evs : e.seq <= s}

\* COALESCE(MAX(sequence_number), 0) + 1 over the committed events: the one
\* member of this set.
NextSeqs(evs) ==
    {s \in {1} \cup {e.seq + 1 : e \in evs} : \A e \in evs : e.seq < s}

\* tx.Rollback or tx.Commit: the row lock of r goes.
Release(r) == lock' = [t \in Tasks |-> IF lock[t] = r THEN None ELSE lock[t]]

\* The service call returned; an HTTP request has now only to answer, a sync
\* request goes on with its next change.
EndChange(r) ==
    /\ n' = [n EXCEPT ![r] = @ + 1]
    /\ pc' = [pc EXCEPT ![r] = "next"]
    /\ job' = [job EXCEPT ![r] = NoJob]

Acknowledge(r, op, t) ==
    acked' = acked \cup {[change |-> Change(r), op |-> op, task |-> t]}

Ready(r) ==
    /\ pc[r] = "next"
    /\ n[r] < IF mode[r] = "http" THEN 1 ELSE MaxChanges

InTransaction(r) == pc[r] \in {"written", "logged"}

-----------------------------------------------------------------------------
(* Steps of one request *)

Arrive(r) ==
    /\ pc[r] = "new"
    /\ pc' = [pc EXCEPT ![r] = "next"]
    /\ \E u \in Users : actor' = [actor EXCEPT ![r] = u]
    /\ \E m \in {"http", "sync"} : mode' = [mode EXCEPT ![r] = m]
    /\ UNCHANGED <<life, tasks, events, lock, n, job, acked>>

\* Service.CreateTask up to the INSERT INTO tasks of Repository.Create.  The
\* generated id is unused; the new row stays invisible until the commit.
InsertTask(r) ==
    /\ Ready(r)
    /\ \E t \in Tasks :
          /\ life[t] = "absent"
          /\ lock[t] = None
          /\ lock' = [lock EXCEPT ![t] = r]
          /\ job' = [job EXCEPT ![r] =
                NewJob(t, Edited([NoRow EXCEPT !.owner = actor[r]],
                                 actor[r], Fields, Change(r)), Fields)]
    /\ pc' = [pc EXCEPT ![r] = "written"]
    /\ UNCHANGED <<life, tasks, events, actor, mode, n, acked>>

\* Service.UpdateTask up to the call of Repository.Update: FindByID sees live
\* tasks only, and the new row is computed from what it returned.  A sync
\* payload that does not parse is an update of no field.
FindByID(r) ==
    /\ Ready(r)
    /\ \E t \in Tasks, F \in SUBSET Fields :
          /\ life[t] = "live"
          /\ job' = [job EXCEPT ![r] =
                NewJob(t, Edited(tasks[t], actor[r], F, Change(r)), F)]
    /\ pc' = [pc EXCEPT ![r] = "loaded"]
    /\ UNCHANGED <<life, tasks, events, lock, actor, mode, n, acked>>

\* Update, first statement: UPDATE tasks ... WHERE id = $8 waits for the row
\* lock, then overwrites every column with the row computed in memory.
UpdateRow(r) ==
    /\ pc[r] = "loaded"
    /\ lock[job[r].task] = None
    /\ lock' = [lock EXCEPT ![job[r].task] = r]
    /\ pc' = [pc EXCEPT ![r] = "written"]
    /\ UNCHANGED <<life, tasks, events, actor, mode, n, job, acked>>

\* Faulty variant of VersionTaken: the table lacks the constraint.
VersionNeverTaken(r) == FALSE

\* UNIQUE(task_id, version) already holds an event with this version.
VersionTaken(r) ==
    \E e \in events : e.task = job[r].task /\ e.version = job[r].row.version

\* Create and Update, second statement: INSERT INTO task_events.
InsertEvent(r) ==
    /\ pc[r] = "written"
    /\ ~VersionTaken(r)
    /\ \E s \in NextSeqs(events) : job' = [job EXCEPT ![r].seq = s]
    /\ pc' = [pc EXCEPT ![r] = "logged"]
    /\ UNCHANGED <<life, tasks, events, lock, actor, mode, n, acked>>

\* Faulty variants of VersionConflict: the transaction is never rolled back;
\* the error is dropped and the caller told the update succeeded.
VersionConflictKeepsLock(r) ==
    /\ pc[r] = "written"
    /\ VersionTaken(r)
    /\ EndChange(r)
    /\ UNCHANGED <<life, tasks, events, lock, actor, mode, acked>>

VersionConflictIgnored(r) ==
    /\ pc[r] = "written"
    /\ VersionTaken(r)
    /\ Release(r)
    /\ Acknowledge(r, "update", job[r].task)
    /\ EndChange(r)
    /\ UNCHANGED <<life, tasks, events, actor, mode>>

\* The insert violates the constraint: the transaction rolls back and the
\* service returns the error.
VersionConflict(r) ==
    /\ pc[r] = "written"
    /\ VersionTaken(r)
    /\ Release(r)
    /\ EndChange(r)
    /\ UNCHANGED <<life, tasks, events, actor, mode, acked>>

\* The row the open transaction of r adds to task_events.
LoggedEvent(r) ==
    [task |-> job[r].task, version |-> job[r].row.version, user |-> actor[r],
     seq |-> job[r].seq, change |-> Change(r), fields |-> job[r].fields]

\* Faulty variant of Apply: the update also clears deleted_at.
ApplyUndeletes(r) ==
    LET t == job[r].task IN
    /\ tasks' = [tasks EXCEPT ![t] = job[r].row]
    /\ life' = [life EXCEPT ![t] = "live"]
    /\ events' = events \cup {LoggedEvent(r)}

\* What COMMIT makes visible.  deleted_at is no column of either statement, so
\* a row deleted since FindByID stays deleted.
Apply(r) ==
    LET t == job[r].task IN
    /\ tasks' = [tasks EXCEPT ![t] = job[r].row]
    /\ life' = [life EXCEPT ![t] = IF @ = "absent" THEN "live" ELSE @]
    /\ events' = events \cup {LoggedEvent(r)}

Commit(r) ==
    /\ pc[r] = "logged"
    /\ Apply(r)
    /\ Release(r)
    /\ Acknowledge(r, IF life[job[r].task] = "absent" THEN "create" ELSE "update",
                   job[r].task)
    /\ EndChange(r)
    /\ UNCHANGED <<actor, mode>>

\* The connection fails after the server committed: tx.Commit returns an
\* error for a transaction that took effect.
CommitReplyLost(r) ==
    /\ pc[r] = "logged"
    /\ Apply(r)
    /\ Release(r)
    /\ EndChange(r)
    /\ UNCHANGED <<actor, mode, acked>>

\* Faulty variant of Delete: "AND deleted_at IS NULL" is missing.
DeleteAgain(r) ==
    /\ Ready(r)
    /\ \E t \in Tasks :
          /\ life[t] # "absent"
          /\ lock[t] = None
          /\ life' = [life EXCEPT ![t] = "deleted"]
          /\ Acknowledge(r, "delete", t)
    /\ EndChange(r)
    /\ UNCHANGED <<tasks, events, lock, actor, mode>>

\* Repository.Delete: one statement, which waits for the row lock.
Delete(r) ==
    /\ Ready(r)
    /\ \E t \in Tasks :
          /\ life[t] = "live"
          /\ lock[t] = None
          /\ life' = [life EXCEPT ![t] = "deleted"]
          /\ Acknowledge(r, "delete", t)
    /\ EndChange(r)
    /\ UNCHANGED <<tasks, events, lock, actor, mode>>

\* A sync change whose type is none of CREATE, UPDATE, DELETE: the switch has
\* no default case, err stays nil and the change is counted.
UnknownChange(r) ==
    /\ Ready(r)
    /\ mode[r] = "sync"
    /\ Acknowledge(r, "unknown", None)
    /\ EndChange(r)
    /\ UNCHANGED <<life, tasks, events, lock, actor, mode>>

\* The service refuses the change: the task does not exist or is deleted, or
\* the new row breaks a CHECK or NOT NULL constraint.
Refuse(r) ==
    /\ Ready(r)
    /\ EndChange(r)
    /\ UNCHANGED <<life, tasks, events, lock, actor, mode, acked>>

\* A statement or the COMMIT of the transaction fails (constraint, connection):
\* the deferred tx.Rollback gives the row lock back.
StatementFails(r) ==
    /\ pc[r] \in {"loaded", "written", "logged"}
    /\ Release(r)
    /\ EndChange(r)
    /\ UNCHANGED <<life, tasks, events, actor, mode, acked>>

\* The response is sent: after the single change of an HTTP request, after
\* any number of changes and the ListChanges query of a sync request.
Respond(r) ==
    /\ pc[r] = "next"
    /\ mode[r] = "sync" \/ n[r] = 1
    /\ pc' = [pc EXCEPT ![r] = "done"]
    /\ UNCHANGED <<life, tasks, events, lock, actor, mode, n, job, acked>>

InFlight(r) == pc[r] \notin {"new", "done", "gone"}

\* The server process dies: every open transaction is rolled back and the
\* requests in flight get no answer.  It then starts again.
Crash ==
    /\ \E r \in Requests : InFlight(r)
    /\ lock' = [t \in Tasks |-> None]
    /\ pc' = [r \in Requests |-> IF InFlight(r) THEN "gone" ELSE pc[r]]
    /\ job' = [r \in Requests |-> NoJob]
    /\ UNCHANGED <<life, tasks, events, actor, mode, n, acked>>

\* What the goroutine does by itself, and what may befall it.
Step(r) ==
    \/ InsertTask(r) \/ FindByID(r) \/ UpdateRow(r) \/ InsertEvent(r)
    \/ VersionConflict(r) \/ Commit(r) \/ CommitReplyLost(r)
    \/ Delete(r) \/ UnknownChange(r) \/ Refuse(r) \/ Respond(r)

Next == \/ \E r \in Requests : Arrive(r) \/ Step(r) \/ StatementFails(r)
        \/ Crash

Spec == Init /\ [][Next]_vars

\* A goroutine that can run does run, and PostgreSQL grants a free row lock.
\* Neither arrivals nor failures are assumed.
Fairness == \A r \in Requests : WF_vars(Step(r))

FairSpec == Spec /\ Fairness

-----------------------------------------------------------------------------
(* Properties *)

EventsOf(t) == {e \in events : e.task = t}

\* The event log of a task has exactly one event for each version the row went
\* through: no update is lost and none is logged twice, although the version
\* is read before the transaction that writes it (service.go:119-154).
EventLogComplete ==
    /\ \A t \in Tasks : \A v \in 1..tasks[t].version :
          \E e \in EventsOf(t) : e.version = v
    /\ \A e \in events : e.version \in 1..tasks[e.task].version
    /\ \A d, e \in events : d.task = e.task /\ d.version = e.version => d = e

\* The vector clock of a task counts, for every user, the edits of that user
\* in the log (service.go:145-152): an increment computed from a stale row
\* never overwrites a newer one.
ClockCountsEdits ==
    \A t \in Tasks, u \in Users :
        tasks[t].clock[u] = Cardinality({e \in EventsOf(t) : e.user = u})

\* Every column holds what the last logged change that names it wrote, though
\* UPDATE rewrites all the columns with values read earlier: two concurrent
\* partial updates never undo one another.
RowReplaysLog ==
    \A t \in Tasks, f \in Fields : life[t] # "absent" =>
        \E e \in EventsOf(t) :
            /\ f \in e.fields
            /\ tasks[t].content[f] = e.change
            /\ \A d \in EventsOf(t) : f \in d.fields => d.version <= e.version

\* sequence_number, taken with MAX + 1 and not unique over the tasks, still
\* orders the events of one task like their versions.
SeqFollowsVersion ==
    \A d, e \in events :
        d.task = e.task /\ d.version < e.version => d.seq < e.seq

\* A change reported as done is in the database, once, and stays there through
\* crashes: an acknowledged create or update has exactly its event, an
\* acknowledged delete its deleted_at.
AckedIsDurable ==
    /\ \A a \in acked :
          /\ a.op \in {"create", "update"} =>
                \E e \in EventsOf(a.task) :
                    e.change = a.change /\ (a.op = "create" <=> e.version = 1)
          /\ a.op = "delete" => life[a.task] = "deleted"
    /\ \A d, e \in events : d.change = e.change => d = e

\* Of several deletes of one task only one is told it succeeded
\* (repository.go:169-187).
DeleteAckedOnce ==
    \A a, b \in acked :
        a.op = "delete" /\ b.op = "delete" /\ a.task = b.task => a = b

\* Nobody waits for somebody who waits: whoever holds a row lock is inside the
\* transaction that wrote this row, holds no other, and its next statements,
\* the INSERT INTO task_events and the COMMIT, take no row lock
\* (repository.go:228-267).  A goroutine that reads, answers or has gone holds
\* nothing.
HoldersNeverWait ==
    \A t \in Tasks : lock[t] # None =>
        /\ InTransaction(lock[t])
        /\ job[lock[t]].task = t
        /\ \A s \in Tasks : lock[s] = lock[t] => s = t

\* Transactions that wait for each other's row locks all end: every request is
\* answered unless the process dies.
EveryRequestEnds ==
    \A r \in Requests : pc[r] = "next" ~> pc[r] \in {"done", "gone"}

\* The store behaves like one that executes each accepted change atomically on
\* the current row.
Abs == INSTANCE VersionedTasks WITH
          Users <- Users, Tasks <- Tasks, Changes <- Changes, Fields <- Fields,
          None <- None, life <- life, tasks <- tasks
Atomicity == Abs!Spec
=============================================================================
