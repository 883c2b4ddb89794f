------------------------------- MODULE TaskSync -------------------------------
(***************************************************************************)
(* POST /tasks/sync between devices that work offline and the task store:  *)
(* ProcessSync and ListChanges (features/tasks), and the client they were  *)
(* written for.                                                            *)
(*                                                                         *)
(* A device queues its changes and sends them all, with the highest        *)
(* version it has seen of any task.  The server executes them one after    *)
(* the other, then selects the user's tasks with a higher version than     *)
(* that.  A device that gives up waiting sends everything again later,     *)
(* while the first request still runs: the server never looks at           *)
(* idempotency keys, and nothing tells it that the client has gone.        *)
(*                                                                         *)
(* The store is VersionedTasks, which TaskStore is shown to implement.  A  *)
(* device's copy of a task is represented by its version.                  *)
(***************************************************************************)
EXTENDS Naturals, Sequences

CONSTANTS
    Users,
    Devices,
    UserOf,         \* the user logged in on a device
    Tasks,          \* ids the server can generate
    Requests,       \* sync requests the server works on at a time
    MaxChanges,     \* bound: changes made on one device
    MaxSends,       \* bound: times a device sends a request
    MaxVersion,     \* bound: edits of one task
    None

ASSUME UserOfAssumption == UserOf \in [Devices -> Users]
ASSUME BoundsAssumption == MaxChanges \in Nat /\ MaxSends \in Nat /\ MaxVersion \in Nat \ {0}
ASSUME NoneAssumption == None \notin Users /\ None \notin Requests /\ None \notin Tasks

VARIABLES
    life, tasks,    \* the store
    copy,           \* per device and task: version of its copy, 0 if it has none
    seen,           \* per device: last_pulled_version
    base,           \* history: the versions when the last answer was computed
    cut,            \* history: the last answer left rows out
    queue,          \* per device: its changes that no answer covers yet
    wait,           \* per device: the request whose answer it awaits
    req,            \* the requests
    made,           \* history: changes made on a device
    sends,          \* history: requests a device has sent
    carried,        \* history: requests that carried a change
    effects,        \* history: how often a change took effect
    partial         \* history: how often only what was decoded of it did

device == <<copy, seen, base, cut, queue, wait, made, sends, carried>>
vars == <<life, tasks, device, req, effects, partial>>

\* A device sees neither what a change writes nor, in the vector clock, who made
\* it, only that there is one more.
Store == INSTANCE VersionedTasks WITH
            Users <- {}, Tasks <- Tasks, Changes <- {None}, Fields <- {},
            None <- None, life <- life, tasks <- tasks

Ids == Devices \X (1..MaxChanges)

Change == [id : Ids, type : {"CREATE", "UPDATE", "DELETE", "OTHER"}, task : Tasks \cup {None},
           decodes : BOOLEAN]           \* the payload fits the request type

Versions == [Tasks -> 0..MaxVersion]

Request == [pc : {"free", "push", "answer"}, dev : Devices \cup {None},
            min : 0..MaxVersion,        \* last_pulled_version
            todo : Seq(Change),         \* changes not yet executed
            all : Seq(Change),          \* changes of the request
            count : 0..MaxChanges,      \* synced_count
            newTasks : Versions,        \* new_tasks: 0 for a task not in it
            base : Versions,            \* history: all the versions then
            cut : BOOLEAN]              \* history: new_tasks is not complete

None0 == [t \in Tasks |-> 0]

Free == [pc |-> "free", dev |-> None, min |-> 0, todo |-> <<>>, all |-> <<>>,
         count |-> 0, newTasks |-> None0, base |-> None0, cut |-> FALSE]

TypeOK ==
    /\ life \in [Tasks -> {"absent", "live", "deleted"}]
    /\ \A t \in Tasks : tasks[t].version \in 0..MaxVersion
    /\ copy \in [Devices -> Versions] /\ base \in [Devices -> Versions]
    /\ seen \in [Devices -> 0..MaxVersion] /\ cut \in [Devices -> BOOLEAN]
    /\ queue \in [Devices -> Seq(Change)]
    /\ wait \in [Devices -> Requests \cup {None}]
    /\ req \in [Requests -> Request]
    /\ made \in [Devices -> 0..MaxChanges]
    /\ sends \in [Devices -> 0..MaxSends]
    /\ carried \in [Ids -> 0..MaxSends]
    /\ effects \in [Ids -> 0..MaxSends] /\ partial \in [Ids -> 0..MaxSends]

Init ==
    /\ Store!Init
    /\ copy = [d \in Devices |-> None0] /\ base = [d \in Devices |-> None0]
    /\ seen = [d \in Devices |-> 0] /\ cut = [d \in Devices |-> FALSE]
    /\ queue = [d \in Devices |-> <<>>]
    /\ wait = [d \in Devices |-> None]
    /\ req = [q \in Requests |-> Free]
    /\ made = [d \in Devices |-> 0]
    /\ sends = [d \in Devices |-> 0]
    /\ carried = [c \in Ids |-> 0]
    /\ effects = [c \in Ids |-> 0] /\ partial = [c \in Ids |-> 0]

-----------------------------------------------------------------------------
(* The device *)

\* A change made offline: a new task, or a change of a task it has a copy of.
\* Nothing checks the type of a change or what its payload holds.
MakeChange(d) ==
    /\ made[d] < MaxChanges
    /\ made' = [made EXCEPT ![d] = @ + 1]
    /\ \E type \in {"CREATE", "UPDATE", "DELETE", "OTHER"}, t \in Tasks \cup {None}, fits \in BOOLEAN :
          /\ type \in {"UPDATE", "DELETE"} <=> t # None
          /\ t # None => copy[d][t] > 0
          /\ type \in {"DELETE", "OTHER"} => fits      \* no payload is read
          /\ queue' = [queue EXCEPT ![d] = Append(@,
                [id |-> <<d, made'[d]>>, type |-> type, task |-> t, decodes |-> fits])]
    /\ UNCHANGED <<life, tasks, copy, seen, base, cut, wait, req, sends, carried, effects, partial>>

\* The changes a device sends.
Queued(d) == {queue[d][i].id : i \in 1..Len(queue[d])}

Send(d) ==
    /\ wait[d] = None
    /\ sends[d] < MaxSends
    /\ sends' = [sends EXCEPT ![d] = @ + 1]
    /\ \E q \in Requests :
          /\ req[q].pc = "free"
          /\ wait' = [wait EXCEPT ![d] = q]
          /\ req' = [req EXCEPT ![q] = [Free EXCEPT !.pc = "push", !.dev = d,
                        !.min = seen[d], !.todo = queue[d], !.all = queue[d]]]
    /\ carried' = [c \in Ids |-> carried[c] + (IF c \in Queued(d) THEN 1 ELSE 0)]
    /\ UNCHANGED <<life, tasks, copy, seen, base, cut, queue, made, effects, partial>>

\* The connection breaks or the client times out.
GiveUp(d) ==
    /\ wait[d] # None
    /\ wait' = [wait EXCEPT ![d] = None]
    /\ UNCHANGED <<life, tasks, copy, seen, base, cut, queue, req, made, sends, carried,
                   effects, partial>>

\* The highest of n and the versions vs: the one member of this set.
Highest(n, vs) == {m \in {n} \cup {vs[t] : t \in Tasks} :
                      n <= m /\ \A t \in Tasks : vs[t] <= m}

\* Faulty variant of Receive: the answer to a request given up is taken too.
ReceiveLate(d) ==
    \E q \in Requests :
        /\ req[q].pc = "answer" /\ req[q].dev = d
        /\ copy' = [copy EXCEPT ![d] = [t \in Tasks |->
              IF req[q].newTasks[t] > 0 THEN req[q].newTasks[t] ELSE copy[d][t]]]
        /\ \E m \in Highest(seen[d], req[q].newTasks) : seen' = [seen EXCEPT ![d] = m]
        /\ req' = [req EXCEPT ![q] = Free]
        /\ wait' = [wait EXCEPT ![d] = IF @ = q THEN None ELSE @]
        /\ UNCHANGED <<life, tasks, base, cut, queue, made, sends, carried, effects, partial>>

\* The answer arrives: the rows in it replace the copies, and what was sent is
\* done with, as synced_count does not say which changes failed.
Receive(d) ==
    /\ wait[d] # None
    /\ req[wait[d]].pc = "answer"
    /\ LET a == req[wait[d]] IN
          /\ copy' = [copy EXCEPT ![d] =
                [t \in Tasks |-> IF a.newTasks[t] > 0 THEN a.newTasks[t] ELSE copy[d][t]]]
          /\ \E m \in Highest(seen[d], a.newTasks) : seen' = [seen EXCEPT ![d] = m]
          /\ base' = [base EXCEPT ![d] = a.base] /\ cut' = [cut EXCEPT ![d] = a.cut]
          /\ queue' = [queue EXCEPT ![d] = SubSeq(@, Len(a.all) + 1, Len(@))]
    /\ req' = [req EXCEPT ![wait[d]] = Free]
    /\ wait' = [wait EXCEPT ![d] = None]
    /\ UNCHANGED <<life, tasks, made, sends, carried, effects, partial>>

-----------------------------------------------------------------------------
(* ProcessSync *)

Executing(q, type) ==
    /\ req[q].pc = "push" /\ req[q].todo # <<>>
    /\ Head(req[q].todo).type = type

\* Faulty variant of Counted: a change that failed is tried again.
CountedAgain(q, ok) ==
    req' = [req EXCEPT ![q].todo = IF ok THEN Tail(@) ELSE @,
                       ![q].count = IF ok THEN @ + 1 ELSE @]

\* The loop goes on; ok says that err was nil.
Counted(q, ok) ==
    req' = [req EXCEPT ![q].todo = Tail(@),
                       ![q].count = IF ok THEN @ + 1 ELSE @]

\* The error of json.Unmarshal is dropped: a payload that does not fit runs with
\* the fields that were decoded, and none of the others.
TookEffect(q) ==
    LET ch == Head(req[q].todo) IN
        /\ effects' = [effects EXCEPT ![ch.id] = IF ch.decodes THEN @ + 1 ELSE @]
        /\ partial' = [partial EXCEPT ![ch.id] = IF ch.decodes THEN @ ELSE @ + 1]

\* An edit, within the bound.
Edit(t, u) == tasks[t].version < MaxVersion /\ Store!Edit(t, u, {}, None)

\* The store executes the change.  (A COMMIT whose reply is lost takes effect
\* and is not counted.)
Create(q) ==
    /\ Executing(q, "CREATE")
    /\ \E t \in Tasks : Store!Create(t, UserOf[req[q].dev], None)
    /\ TookEffect(q)
    /\ \E ok \in BOOLEAN : Counted(q, ok)
    /\ UNCHANGED device

Update(q) ==
    /\ Executing(q, "UPDATE")
    /\ Edit(Head(req[q].todo).task, UserOf[req[q].dev])
    /\ TookEffect(q)
    /\ \E ok \in BOOLEAN : Counted(q, ok)
    /\ UNCHANGED device

Delete(q) ==
    /\ Executing(q, "DELETE")
    /\ Store!Delete(Head(req[q].todo).task)
    /\ TookEffect(q)
    /\ \E ok \in BOOLEAN : Counted(q, ok)
    /\ UNCHANGED device

\* The switch has no default case and err stays nil.
Unknown(q) ==
    /\ Executing(q, "OTHER")
    /\ Counted(q, TRUE)
    /\ UNCHANGED <<life, tasks, device, effects, partial>>

\* Faulty variant of Fails: a failed change is counted.
FailsCounted(q) ==
    /\ req[q].pc = "push" /\ req[q].todo # <<>>
    /\ Head(req[q].todo).type # "OTHER"
    /\ Counted(q, TRUE)
    /\ UNCHANGED <<life, tasks, device, effects, partial>>

\* The task is not found, the version is taken, a statement fails; a new task
\* whose priority was not decoded breaks the CHECK of its column.
Fails(q) ==
    /\ req[q].pc = "push" /\ req[q].todo # <<>>
    /\ Head(req[q].todo).type # "OTHER"
    /\ Counted(q, FALSE)
    /\ UNCHANGED <<life, tasks, device, effects, partial>>

\* Faulty variant of Selected: deleted tasks are left out.
SelectedLive(t, u, min) == tasks[t].owner = u /\ life[t] = "live" /\ tasks[t].version > min

\* The WHERE of ListChanges.  deleted_at is not looked at.
Selected(t, u, min) == tasks[t].owner = u /\ tasks[t].version > min

\* The first rows of the set sel in ORDER BY version, up to any of them; rows of
\* one version come in any order.
IsPrefix(part, sel) ==
    \A t \in part, o \in sel \ part : tasks[t].version <= tasks[o].version

\* rows.Next ends on an error of the connection as it does after the last row,
\* and rows.Err is not asked: the rows read so far are the answer.
ListChanges(q) ==
    LET u == UserOf[req[q].dev]
        sel == {t \in Tasks : Selected(t, u, req[q].min)}
    IN  /\ req[q].pc = "push" /\ req[q].todo = <<>>
        /\ \E part \in SUBSET sel :
              /\ IsPrefix(part, sel)
              /\ req' = [req EXCEPT ![q].pc = "answer",
                    ![q].newTasks = [t \in Tasks |-> IF t \in part THEN tasks[t].version ELSE 0],
                    ![q].base = [t \in Tasks |-> IF tasks[t].owner = u THEN tasks[t].version ELSE 0],
                    ![q].cut = (part # sel)]
        /\ UNCHANGED <<life, tasks, device, effects, partial>>

\* The request ends and nobody gets its answer: ListChanges failed, the device
\* is no longer there, or the server died.
Vanish(q) ==
    /\ req[q].pc # "free"
    /\ req' = [req EXCEPT ![q] = Free]
    /\ wait' = [d \in Devices |-> IF wait[d] = q THEN None ELSE wait[d]]
    /\ UNCHANGED <<life, tasks, copy, seen, base, cut, queue, made, sends, carried, effects, partial>>

-----------------------------------------------------------------------------
\* The other routes: any user's tasks change under the devices.
Elsewhere ==
    /\ \E t \in Tasks :
          \/ \E u \in Users : Store!Create(t, u, None) \/ Edit(t, u)
          \/ Store!Delete(t)
    /\ UNCHANGED <<device, req, effects, partial>>

Execute(q) ==
    Create(q) \/ Update(q) \/ Delete(q) \/ Unknown(q) \/ Fails(q) \/ ListChanges(q)

Next ==
    \/ \E d \in Devices : MakeChange(d) \/ Send(d) \/ GiveUp(d) \/ Receive(d)
    \/ \E q \in Requests : Execute(q) \/ Vanish(q)
    \/ Elsewhere

Spec == Init /\ [][Next]_vars

-----------------------------------------------------------------------------
(* Properties *)

\* A copy never goes back to an older version, though requests overlap and
\* their answers are of different ages (tasks/repository.go:279-282).
CopiesAdvance == [][\A d \in Devices, t \in Tasks : copy[d][t] <= copy'[d][t]]_vars

\* What ListChanges can miss, exactly: the tasks of the user whose version is
\* no higher than the highest one the device has seen of any task and, until the
\* next whole answer, those that the last one left out because its rows stopped
\* short.  All others, deleted ones included, the device has as they were when
\* the answer was computed, and it has no task of another user.  So what was cut
\* off is made good, unless the version it stopped at hides it for ever.
MissedOnlyBelow ==
    \A d \in Devices, t \in Tasks :
        /\ copy[d][t] = base[d][t] \/ base[d][t] <= seen[d] \/ cut[d]
        /\ copy[d][t] > 0 => tasks[t].owner = UserOf[d]

\* A change takes effect, in full or in part, at most once for each request that
\* carried it: what a retry repeats is bounded by the answers given up
\* (service.go:161-195).
RetriesAccounted ==
    \A c \in Ids : effects[c] + partial[c] <= carried[c]

\* An answer that counts all the changes of a request tells this much of each
\* one of a known type, and the device may forget it: if its payload fits the
\* request, it took effect as it was made; if not, what was decoded of it did,
\* which the count does not tell apart (service.go:172-192).
FullCountIsTrue ==
    \A q \in Requests : req[q].pc = "answer" /\ req[q].count = Len(req[q].all) =>
        \A i \in 1..Len(req[q].all) :
            LET ch == req[q].all[i] IN
            \/ ch.type = "OTHER"
            \/ ch.decodes /\ effects[ch.id] > 0
            \/ ~ch.decodes /\ partial[ch.id] > 0

\* "tarefas novas ou atualizadas por outros dispositivos" (repository.go:270):
\* after a whole answer the device has the user's tasks as they were then.
NewTasksIncluded == \A d \in Devices, t \in Tasks : cut[d] \/ copy[d][t] = base[d][t]
=============================================================================
