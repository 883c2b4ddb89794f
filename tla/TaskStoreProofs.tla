--------------------------- MODULE TaskStoreProofs ---------------------------
(***************************************************************************)
(* Proofs about TaskStore, for every set of users, tasks and requests and  *)
(* every bound on the changes of a sync request.                           *)
(***************************************************************************)
EXTENDS TaskStore, TLAPS, FiniteSetTheorems

-----------------------------------------------------------------------------
(* The inductive invariant *)

Working == {"loaded", "written", "logged"}

\* A row lock is held exactly by the open transaction that wrote the row.
LocksInv ==
    /\ \A t \in Tasks : lock[t] # None =>
          InTransaction(lock[t]) /\ job[lock[t]].task = t
    /\ \A r \in Requests : InTransaction(r) => lock[job[r].task] = r

\* A request past its arrival has an actor, and a change in progress a task.
ActorInv ==
    \A r \in Requests :
        /\ InFlight(r) => actor[r] \in Users
        /\ pc[r] \in Working => n[r] < MaxChanges /\ job[r].task \in Tasks

\* A task that was never created has left no trace; any other has a version.
AbsentInv ==
    \A t \in Tasks :
        /\ life[t] = "absent" => tasks[t] = NoRow /\ EventsOf(t) = {}
        /\ life[t] # "absent" => tasks[t].version >= 1

\* The row a request computed is stale, or it is one edit of the current row;
\* a row about to be created edits the empty row.
JobOK(r) ==
    LET t == job[r].task
        v == job[r].row.version
    IN  /\ v >= 1
        /\ life[t] # "absent" =>
             /\ v <= tasks[t].version + 1
             /\ v = tasks[t].version + 1 =>
                  job[r].row = Edited(tasks[t], actor[r], job[r].fields, Change(r))
        /\ life[t] = "absent" =>
             /\ pc[r] # "loaded"
             /\ job[r].fields = Fields
             /\ job[r].row = Edited([NoRow EXCEPT !.owner = actor[r]],
                                    actor[r], Fields, Change(r))
        /\ pc[r] = "logged" =>
             /\ ~VersionTaken(r)
             /\ \A e \in EventsOf(t) : e.seq < job[r].seq

JobInv == \A r \in Requests : pc[r] \in Working => JobOK(r)

\* Events and acknowledgements name changes already dealt with.
ChangesInv ==
    /\ \A e \in events : e.change[2] <= n[e.change[1]]
    /\ \A a \in acked : a.change[2] <= n[a.change[1]]

TypeInv == TypeOK /\ ActorInv

\* What the code keeps true of the tables alone ...
LogInv ==
    /\ IsFiniteSet(events)
    /\ AbsentInv
    /\ EventLogComplete
    /\ ClockCountsEdits
    /\ RowReplaysLog
    /\ SeqFollowsVersion

\* ... and of the tables and what the clients were told.
AckInv ==
    /\ ChangesInv
    /\ AckedIsDurable
    /\ DeleteAckedOnce

IInv == TypeInv /\ LocksInv /\ JobInv /\ LogInv /\ AckInv

-----------------------------------------------------------------------------
(* Types *)

\* An edit of a row by a user yields a row.
LEMMA EditedType ==
    ASSUME NEW row \in Row, NEW u \in Users, NEW F \in SUBSET Fields, NEW c \in Changes
    PROVE  /\ Edited(row, u, F, c) \in Row
           /\ Edited(row, u, F, c).version = row.version + 1
           /\ Edited(row, u, F, c).owner = row.owner
           /\ Edited(row, u, F, c).clock = [row.clock EXCEPT ![u] = @ + 1]
           /\ Edited(row, u, F, c).content =
                 [f \in Fields |-> IF f \in F THEN c ELSE row.content[f]]
  BY DEF Edited, Row

LEMMA NoRowType ==
    /\ NoRow \in Row
    /\ \A u \in Users : [NoRow EXCEPT !.owner = u] \in Row
  BY DEF NoRow, Row

LEMMA NewJobType ==
    /\ \A t \in Tasks, row \in Row, F \in SUBSET Fields : NewJob(t, row, F) \in Job
    /\ NoJob \in Job
  BY NoRowType DEF NoJob, NewJob, Job

\* The next sequence number is a number above all those in use.
LEMMA NextSeqsType ==
    ASSUME NEW evs \in SUBSET Event, NEW s \in NextSeqs(evs)
    PROVE  s \in Nat /\ \A e \in evs : e.seq < s
  BY DEF NextSeqs, Event

LEMMA TypeInit == Init => TypeInv
  BY NoRowType, NewJobType, MaxChangesAssumption
  DEF Init, TypeInv, TypeOK, ActorInv, InFlight, Working, Job

\* What a change in progress is made of.
LEMMA ChangeType ==
    ASSUME TypeInv, NEW r \in Requests, Ready(r) \/ pc[r] \in Working
    PROVE  /\ n[r] \in 0..MaxChanges /\ n[r] < MaxChanges /\ n[r] + 1 \in 1..MaxChanges
           /\ Change(r) \in Changes
           /\ actor[r] \in Users
           /\ InFlight(r)
  <1>1. n[r] \in 0..MaxChanges /\ n[r] < MaxChanges
    BY MaxChangesAssumption DEF TypeInv, TypeOK, ActorInv, Ready
  <1>2. InFlight(r) /\ actor[r] \in Users
    BY DEF TypeInv, ActorInv, InFlight, Ready, Working
  <1> QED BY <1>1, <1>2, MaxChangesAssumption DEF Change, Changes

\* Ending a change keeps the types of the variables it writes.
LEMMA EndChangeType ==
    ASSUME TypeInv, NEW r \in Requests, Ready(r) \/ pc[r] \in Working,
           EndChange(r), actor' = actor
    PROVE  /\ n' \in [Requests -> 0..MaxChanges]
           /\ pc' \in [Requests -> {"new", "next", "loaded", "written", "logged", "done", "gone"}]
           /\ job' \in [Requests -> Job]
           /\ ActorInv'
  <1>1. n[r] < MaxChanges /\ n[r] + 1 \in 0..MaxChanges /\ actor[r] \in Users
    BY ChangeType
  <1>2. n' \in [Requests -> 0..MaxChanges] /\ job' \in [Requests -> Job]
    BY <1>1, NewJobType DEF EndChange, TypeInv, TypeOK
  <1>3. ActorInv'
    BY <1>1 DEF EndChange, TypeInv, TypeOK, ActorInv, InFlight, Working
  <1> QED BY <1>2, <1>3 DEF EndChange, TypeInv, TypeOK

LEMMA TypeStep == TypeInv /\ [Next]_vars => TypeInv'
  <1> SUFFICES ASSUME TypeInv, [Next]_vars PROVE TypeInv'
    OBVIOUS
  <1>1. ASSUME NEW r \in Requests, Arrive(r) PROVE TypeInv'
    BY <1>1 DEF Arrive, TypeInv, TypeOK, ActorInv, InFlight, Working
  <1>2. ASSUME NEW r \in Requests, InsertTask(r) PROVE TypeInv'
    <2>1. n[r] < MaxChanges /\ Change(r) \in Changes /\ actor[r] \in Users
      BY <1>2, ChangeType DEF InsertTask
    <2>2. Edited([NoRow EXCEPT !.owner = actor[r]], actor[r], Fields, Change(r)) \in Row
      BY <2>1, EditedType, NoRowType
    <2>3. job' \in [Requests -> Job]
      BY <1>2, <2>2, NewJobType DEF InsertTask, TypeInv, TypeOK
    <2>4. ActorInv'
      BY <1>2, <2>1 DEF InsertTask, TypeInv, TypeOK, ActorInv, InFlight, Working, NewJob
    <2> QED BY <1>2, <2>3, <2>4 DEF InsertTask, TypeInv, TypeOK
  <1>3. ASSUME NEW r \in Requests, FindByID(r) PROVE TypeInv'
    <2>1. n[r] < MaxChanges /\ Change(r) \in Changes /\ actor[r] \in Users
      BY <1>3, ChangeType DEF FindByID
    <2>2. \A t \in Tasks, F \in SUBSET Fields :
             Edited(tasks[t], actor[r], F, Change(r)) \in Row
      BY <2>1, EditedType DEF TypeInv, TypeOK
    <2>3. job' \in [Requests -> Job]
      BY <1>3, <2>2, NewJobType DEF FindByID, TypeInv, TypeOK
    <2>4. ActorInv'
      BY <1>3, <2>1 DEF FindByID, TypeInv, TypeOK, ActorInv, InFlight, Working, NewJob
    <2> QED BY <1>3, <2>3, <2>4 DEF FindByID, TypeInv, TypeOK
  <1>4. ASSUME NEW r \in Requests, UpdateRow(r) PROVE TypeInv'
    BY <1>4 DEF UpdateRow, TypeInv, TypeOK, ActorInv, InFlight, Working
  <1>5. ASSUME NEW r \in Requests, InsertEvent(r) PROVE TypeInv'
    <2>1. PICK s \in NextSeqs(events) : job' = [job EXCEPT ![r].seq = s]
      BY <1>5 DEF InsertEvent
    <2>0. s \in Nat
      BY NextSeqsType DEF TypeInv, TypeOK
    <2>2. job' \in [Requests -> Job] /\ \A q \in Requests : job'[q].task = job[q].task
      BY <2>0, <2>1 DEF TypeInv, TypeOK, Job
    <2>3. ActorInv'
      BY <1>5, <2>2 DEF InsertEvent, TypeInv, TypeOK, ActorInv, InFlight, Working
    <2> QED BY <1>5, <2>2, <2>3 DEF InsertEvent, TypeInv, TypeOK
  <1>6. ASSUME NEW r \in Requests, VersionConflict(r) PROVE TypeInv'
    <2>1. lock' \in [Tasks -> Requests \cup {None}]
      BY <1>6 DEF VersionConflict, Release, TypeInv, TypeOK
    <2> QED BY <1>6, <2>1, EndChangeType DEF VersionConflict, Working, TypeInv, TypeOK
  <1>7. ASSUME NEW r \in Requests, pc[r] = "logged", Apply(r), Release(r), EndChange(r),
               UNCHANGED <<actor, mode>>, acked' \subseteq Ack
        PROVE  TypeInv'
    <2>1. job[r].task \in Tasks /\ Change(r) \in Changes /\ actor[r] \in Users
      BY <1>7, ChangeType DEF Working, TypeInv, ActorInv
    <2>2. lock' \in [Tasks -> Requests \cup {None}]
      BY <1>7 DEF Release, TypeInv, TypeOK
    <2>3. tasks' \in [Tasks -> Row] /\ life' \in [Tasks -> {"absent", "live", "deleted"}]
      BY <1>7, <2>1 DEF Apply, TypeInv, TypeOK, Job
    <2>4. events' \subseteq Event
      BY <1>7, <2>1 DEF Apply, LoggedEvent, TypeInv, TypeOK, Job, Row, Event
    <2> QED BY <1>7, <2>2, <2>3, <2>4, EndChangeType DEF Working, TypeInv, TypeOK
  <1>8. ASSUME NEW r \in Requests, Commit(r) PROVE TypeInv'
    <2>1. acked' \subseteq Ack
      BY <1>8, ChangeType DEF Commit, Acknowledge, Working, TypeInv, TypeOK, ActorInv, Ack
    <2> QED BY <1>8, <2>1, <1>7 DEF Commit
  <1>9. ASSUME NEW r \in Requests, CommitReplyLost(r) PROVE TypeInv'
    BY <1>9, <1>7 DEF CommitReplyLost, TypeInv, TypeOK
  <1>10. ASSUME NEW r \in Requests, Delete(r) PROVE TypeInv'
    <2>1. acked' \subseteq Ack
      BY <1>10, ChangeType DEF Delete, Acknowledge, TypeInv, TypeOK, Ack
    <2> QED BY <1>10, <2>1, EndChangeType DEF Delete, TypeInv, TypeOK
  <1>11. ASSUME NEW r \in Requests, UnknownChange(r) PROVE TypeInv'
    <2>1. acked' \subseteq Ack
      BY <1>11, ChangeType DEF UnknownChange, Acknowledge, TypeInv, TypeOK, Ack
    <2> QED BY <1>11, <2>1, EndChangeType DEF UnknownChange, TypeInv, TypeOK
  <1>12. ASSUME NEW r \in Requests, Refuse(r) PROVE TypeInv'
    BY <1>12, EndChangeType DEF Refuse, TypeInv, TypeOK
  <1>13. ASSUME NEW r \in Requests, StatementFails(r) PROVE TypeInv'
    <2>1. lock' \in [Tasks -> Requests \cup {None}]
      BY <1>13 DEF StatementFails, Release, TypeInv, TypeOK
    <2> QED BY <1>13, <2>1, EndChangeType DEF StatementFails, Working, TypeInv, TypeOK
  <1>14. ASSUME NEW r \in Requests, Respond(r) PROVE TypeInv'
    BY <1>14 DEF Respond, TypeInv, TypeOK, ActorInv, InFlight, Working
  <1>15. CASE Crash
    BY <1>15, NewJobType DEF Crash, TypeInv, TypeOK, ActorInv, InFlight, Working
  <1>16. CASE UNCHANGED vars
    BY <1>16 DEF vars, TypeInv, TypeOK, ActorInv, InFlight, Working
  <1> QED
    BY <1>1, <1>2, <1>3, <1>4, <1>5, <1>6, <1>8, <1>9, <1>10, <1>11, <1>12,
       <1>13, <1>14, <1>15, <1>16 DEF Next, Step

\* Every reachable state of the store is well typed, whatever the numbers of
\* users, tasks, requests and changes; in particular a request never executes
\* more changes than it carries.
THEOREM TypeCorrect == Spec => []TypeOK
  <1>1. TypeInv => TypeOK
    BY DEF TypeInv
  <1> QED BY TypeInit, TypeStep, <1>1, PTL DEF Spec

-----------------------------------------------------------------------------
(* The inductive step, for the actions that leave the tables alone *)

LEMMA Initially == Init => IInv
  <1> SUFFICES ASSUME Init PROVE IInv
    OBVIOUS
  <1>1. TypeInv
    BY TypeInit
  <1>2. LocksInv /\ JobInv
    BY DEF Init, LocksInv, JobInv, InTransaction, Working
  <1>3. IsFiniteSet(events) /\ \A t \in Tasks : EventsOf(t) = {}
    BY FS_EmptySet DEF Init, EventsOf
  <1>4. AbsentInv
    BY <1>3 DEF Init, AbsentInv
  <1>5. EventLogComplete /\ RowReplaysLog /\ SeqFollowsVersion
    BY DEF Init, NoRow, EventLogComplete, RowReplaysLog, SeqFollowsVersion
  <1>6. ClockCountsEdits
    <2>1. \A t \in Tasks, u \in Users : {e \in EventsOf(t) : e.user = u} = {}
      BY <1>3
    <2> QED BY <2>1, FS_EmptySet DEF Init, NoRow, ClockCountsEdits
  <1>7. AckInv
    BY DEF Init, AckInv, ChangesInv, AckedIsDurable, DeleteAckedOnce
  <1> QED BY <1>1, <1>2, <1>3, <1>4, <1>5, <1>6, <1>7 DEF IInv, LogInv

\* The tables and the acknowledgements do not change and no count goes back.
LEMMA QuietStep ==
    ASSUME IInv, UNCHANGED <<life, tasks, events, acked>>,
           \A r \in Requests : n[r] \in Nat /\ n'[r] \in Nat /\ n'[r] >= n[r]
    PROVE  LogInv' /\ AckInv'
  <1>1. LogInv'
    BY DEF IInv, LogInv, AbsentInv, EventLogComplete, ClockCountsEdits,
           RowReplaysLog, SeqFollowsVersion, EventsOf
  <1>2. ChangesInv'
    BY DEF IInv, TypeInv, TypeOK, AckInv, ChangesInv, Event, Ack, Changes
  <1>3. AckedIsDurable' /\ DeleteAckedOnce'
    BY DEF IInv, AckInv, AckedIsDurable, DeleteAckedOnce, EventsOf
  <1> QED BY <1>1, <1>2, <1>3 DEF AckInv

\* Ending a change adds one to the count of its request.
LEMMA EndChangeCounts ==
    ASSUME IInv, NEW r \in Requests, EndChange(r)
    PROVE  \A q \in Requests : n[q] \in Nat /\ n'[q] \in Nat /\ n'[q] >= n[q]
  BY DEF IInv, TypeInv, TypeOK, EndChange

\* A transaction that ends gives its lock back and disturbs no other request.
LEMMA EndChangeLocks ==
    ASSUME IInv, NEW r \in Requests, EndChange(r),
           Release(r) \/ (UNCHANGED lock /\ ~InTransaction(r))
    PROVE  LocksInv'
  <1>1. \A t \in Tasks : lock[t] # r \/ InTransaction(r)
    BY NoneAssumption DEF IInv, LocksInv
  <1>2. \A t \in Tasks : lock'[t] \in {lock[t], None} /\ lock'[t] # r
    BY <1>1, NoneAssumption DEF Release, IInv, LocksInv, InTransaction, TypeInv, TypeOK
  <1>3. \A q \in Requests : q # r => pc'[q] = pc[q] /\ job'[q] = job[q]
    BY DEF EndChange, IInv, TypeInv, TypeOK
  <1>4. pc'[r] = "next"
    BY DEF EndChange, IInv, TypeInv, TypeOK
  <1>5. \A q \in Requests : InTransaction(q)' => lock'[job'[q].task] = q
    <2> SUFFICES ASSUME NEW q \in Requests, InTransaction(q)' PROVE lock'[job'[q].task] = q
      OBVIOUS
    <2>1. q # r /\ InTransaction(q) /\ job[q].task \in Tasks
      BY <1>3, <1>4 DEF InTransaction, IInv, TypeInv, ActorInv, Working
    <2> QED BY <2>1, <1>3 DEF IInv, LocksInv, Release
  <1> QED BY <1>2, <1>3, <1>5 DEF LocksInv, InTransaction, IInv, TypeInv, TypeOK

\* What JobInv says of a request depends on its own variables and the tables.
LEMMA JobFrame ==
    ASSUME NEW q \in Requests, JobOK(q), pc'[q] = pc[q], job'[q] = job[q],
           n'[q] = n[q], UNCHANGED <<life, tasks, events, actor>>
    PROVE  JobOK(q)'
  <1>1. Change(q)' = Change(q)
    BY DEF Change
  <1>2. VersionTaken(q)' = VersionTaken(q)
    BY DEF VersionTaken
  <1>3. \A t : EventsOf(t)' = EventsOf(t)
    BY DEF EventsOf
  <1> QED BY <1>1, <1>2, <1>3 DEF JobOK

LEMMA EndChangeJobs ==
    ASSUME IInv, NEW r \in Requests, EndChange(r), UNCHANGED <<life, tasks, events, actor>>
    PROVE  JobInv'
  <1> SUFFICES ASSUME NEW q \in Requests, pc'[q] \in Working
               PROVE  JobOK(q)'
    BY DEF JobInv
  <1>1. q # r /\ pc'[q] = pc[q] /\ job'[q] = job[q] /\ n'[q] = n[q]
    BY DEF EndChange, Working, IInv, TypeInv, TypeOK
  <1> QED BY <1>1, JobFrame DEF IInv, JobInv

\* A request that moves within a change, the others standing still.
LEMMA MoveJobs ==
    ASSUME IInv, NEW r \in Requests,
           \A q \in Requests : q # r => pc'[q] = pc[q] /\ job'[q] = job[q],
           n' = n, UNCHANGED <<life, tasks, events, actor>>,
           pc'[r] \in Working => JobOK(r)'
    PROVE  JobInv'
  <1> SUFFICES ASSUME NEW q \in Requests, pc'[q] \in Working
               PROVE  JobOK(q)'
    BY DEF JobInv
  <1>1. CASE q = r
    BY <1>1
  <1>2. CASE q # r
    BY <1>2, JobFrame DEF IInv, JobInv
  <1> QED BY <1>1, <1>2
LEMMA ArriveStep ==
    ASSUME IInv, NEW r \in Requests, Arrive(r) PROVE LocksInv' /\ JobInv'
  <1>1. \A q \in Requests : q # r => pc'[q] = pc[q] /\ actor'[q] = actor[q]
    BY DEF Arrive, IInv, TypeInv, TypeOK
  <1>2. pc[r] = "new" /\ pc'[r] = "next"
    BY DEF Arrive, IInv, TypeInv, TypeOK
  <1>3. LocksInv'
    BY <1>1, <1>2 DEF Arrive, LocksInv, InTransaction, IInv, TypeInv, TypeOK
  <1>4. ASSUME NEW q \in Requests, pc'[q] \in Working PROVE JobOK(q)'
    <2>1. q # r /\ JobOK(q)
      BY <1>1, <1>2, <1>4 DEF Working, IInv, JobInv
    <2>2. VersionTaken(q)' = VersionTaken(q) /\ Change(q)' = Change(q)
      BY DEF Arrive, VersionTaken, Change
    <2>3. \A t : EventsOf(t)' = EventsOf(t)
      BY DEF Arrive, EventsOf
    <2> QED BY <1>1, <2>1, <2>2, <2>3 DEF Arrive, JobOK
  <1> QED BY <1>3, <1>4 DEF JobInv

LEMMA InsertTaskStep ==
    ASSUME IInv, NEW r \in Requests, InsertTask(r) PROVE LocksInv' /\ JobInv'
  <1>1. PICK t \in Tasks :
          /\ life[t] = "absent"
          /\ lock[t] = None
          /\ lock' = [lock EXCEPT ![t] = r]
          /\ job' = [job EXCEPT ![r] =
                NewJob(t, Edited([NoRow EXCEPT !.owner = actor[r]],
                                 actor[r], Fields, Change(r)), Fields)]
    BY DEF InsertTask
  <1>2. pc[r] = "next" /\ pc'[r] = "written"
    BY DEF InsertTask, Ready, IInv, TypeInv, TypeOK
  <1>3. \A q \in Requests : q # r => pc'[q] = pc[q] /\ job'[q] = job[q]
    BY <1>1 DEF InsertTask, IInv, TypeInv, TypeOK
  <1>4. /\ job'[r].task = t
        /\ job'[r].fields = Fields
        /\ job'[r].row = Edited([NoRow EXCEPT !.owner = actor[r]], actor[r], Fields, Change(r))
    BY <1>1 DEF NewJob, IInv, TypeInv, TypeOK
  <1>5. \A q \in Requests : InTransaction(q) => job[q].task # t
    BY <1>1, NoneAssumption DEF IInv, LocksInv
  <1>6. LocksInv'
    <2>1. ASSUME NEW x \in Tasks, lock'[x] # None
          PROVE  InTransaction(lock[x])' /\ job'[lock'[x]].task = x
      <3>1. CASE x = t
        BY <1>1, <1>2, <1>4, <3>1 DEF InTransaction, IInv, TypeInv, TypeOK
      <3>2. CASE x # t
        <4>1. lock'[x] = lock[x] /\ lock[x] \in Requests /\ InTransaction(lock[x])
          BY <1>1, <2>1, <3>2 DEF IInv, LocksInv, TypeInv, TypeOK
        <4> QED BY <1>2, <1>3, <2>1, <4>1 DEF InTransaction, IInv, LocksInv
      <3> QED BY <3>1, <3>2
    <2>2. ASSUME NEW q \in Requests, InTransaction(q)' PROVE lock'[job'[q].task] = q
      <3>1. CASE q = r
        BY <1>1, <1>4, <3>1 DEF IInv, TypeInv, TypeOK
      <3>2. CASE q # r
        <4>1. InTransaction(q) /\ job[q].task \in Tasks
          BY <1>3, <2>2, <3>2 DEF InTransaction, IInv, TypeInv, ActorInv, Working
        <4> QED BY <1>1, <1>3, <1>5, <3>2, <4>1 DEF IInv, LocksInv, TypeInv, TypeOK
      <3> QED BY <3>1, <3>2
    <2> QED BY <2>1, <2>2, <1>1 DEF LocksInv, InTransaction
  <1>7. JobOK(r)'
    <2>1. actor[r] \in Users /\ Change(r) \in Changes /\ Change(r)' = Change(r)
      BY ChangeType DEF InsertTask, IInv, Change
    <2>2. job'[r].row.version = 1
      BY <1>4 DEF Edited, NoRow
    <2> QED BY <1>1, <1>2, <1>4, <2>1, <2>2 DEF InsertTask, JobOK
  <1> QED BY <1>3, <1>6, <1>7, MoveJobs DEF InsertTask

LEMMA FindByIDStep ==
    ASSUME IInv, NEW r \in Requests, FindByID(r) PROVE LocksInv' /\ JobInv'
  <1>1. PICK t \in Tasks, F \in SUBSET Fields :
          /\ life[t] = "live"
          /\ job' = [job EXCEPT ![r] =
                NewJob(t, Edited(tasks[t], actor[r], F, Change(r)), F)]
    BY DEF FindByID
  <1>2. pc[r] = "next" /\ pc'[r] = "loaded"
    BY DEF FindByID, Ready, IInv, TypeInv, TypeOK
  <1>3. \A q \in Requests : q # r => pc'[q] = pc[q] /\ job'[q] = job[q]
    BY <1>1 DEF FindByID, IInv, TypeInv, TypeOK
  <1>4. /\ job'[r].task = t
        /\ job'[r].fields = F
        /\ job'[r].row = Edited(tasks[t], actor[r], F, Change(r))
    BY <1>1 DEF NewJob, IInv, TypeInv, TypeOK
  <1>5. LocksInv'
    BY <1>2, <1>3 DEF FindByID, LocksInv, InTransaction, IInv, TypeInv, TypeOK
  <1>6. JobOK(r)'
    <2>1. actor[r] \in Users /\ Change(r) \in Changes /\ Change(r)' = Change(r)
      BY ChangeType DEF FindByID, IInv, Change
    <2>2. job'[r].row.version = tasks[t].version + 1 /\ tasks[t].version \in Nat
      BY <1>4 DEF Edited, IInv, TypeInv, TypeOK, Row
    <2>3. UNCHANGED <<life, tasks, events, actor>>
      BY DEF FindByID
    <2> QED BY <1>1, <1>2, <1>4, <2>1, <2>2, <2>3 DEF JobOK
  <1> QED BY <1>3, <1>5, <1>6, MoveJobs DEF FindByID

LEMMA UpdateRowStep ==
    ASSUME IInv, NEW r \in Requests, UpdateRow(r) PROVE LocksInv' /\ JobInv'
  <1> DEFINE t == job[r].task
  <1>1. t \in Tasks /\ JobOK(r)
    BY DEF UpdateRow, IInv, TypeInv, ActorInv, Working, JobInv
  <1>2. pc[r] = "loaded" /\ pc'[r] = "written" /\ life[t] # "absent"
    BY <1>1 DEF UpdateRow, JobOK, IInv, TypeInv, TypeOK
  <1>3. \A q \in Requests : q # r => pc'[q] = pc[q]
    BY DEF UpdateRow, IInv, TypeInv, TypeOK
  <1>4. LocksInv'
    <2>1. \A q \in Requests : InTransaction(q) => job[q].task # t
      BY NoneAssumption DEF UpdateRow, IInv, LocksInv
    <2>2. ASSUME NEW x \in Tasks, lock'[x] # None
          PROVE  InTransaction(lock[x])' /\ job'[lock'[x]].task = x
      BY <1>1, <1>2, <1>3, <2>2 DEF UpdateRow, InTransaction, IInv, LocksInv, TypeInv, TypeOK
    <2>3. ASSUME NEW q \in Requests, InTransaction(q)' PROVE lock'[job'[q].task] = q
      BY <1>1, <1>2, <1>3, <2>1, <2>3
      DEF UpdateRow, InTransaction, IInv, LocksInv, TypeInv, TypeOK, ActorInv, Working
    <2> QED BY <2>2, <2>3 DEF LocksInv, InTransaction
  <1>5. JobOK(r)'
    <2>1. Change(r)' = Change(r)
      BY DEF UpdateRow, Change
    <2> QED BY <1>1, <1>2, <2>1 DEF UpdateRow, JobOK
  <1> QED BY <1>3, <1>4, <1>5, MoveJobs DEF UpdateRow

LEMMA InsertEventStep ==
    ASSUME IInv, NEW r \in Requests, InsertEvent(r) PROVE LocksInv' /\ JobInv'
  <1>1. PICK s \in NextSeqs(events) : job' = [job EXCEPT ![r].seq = s]
    BY DEF InsertEvent
  <1>2. pc[r] = "written" /\ pc'[r] = "logged"
    BY DEF InsertEvent, IInv, TypeInv, TypeOK
  <1>3. \A q \in Requests : q # r => pc'[q] = pc[q] /\ job'[q] = job[q]
    BY <1>1 DEF InsertEvent, IInv, TypeInv, TypeOK
  <1>4. /\ job'[r].task = job[r].task
        /\ job'[r].fields = job[r].fields
        /\ job'[r].row = job[r].row
        /\ job'[r].seq = s
    BY <1>1 DEF IInv, TypeInv, TypeOK, Job
  <1>5. LocksInv'
    BY <1>2, <1>3, <1>4 DEF InsertEvent, LocksInv, InTransaction, IInv, TypeInv, TypeOK
  <1>6. JobOK(r)'
    <2>1. JobOK(r) /\ ~VersionTaken(r)
      BY <1>2 DEF InsertEvent, IInv, JobInv, Working
    <2>2. Change(r)' = Change(r) /\ VersionTaken(r)' = VersionTaken(r)
      BY <1>4 DEF InsertEvent, Change, VersionTaken
    <2>3. \A t : EventsOf(t)' = EventsOf(t) /\ EventsOf(t) \subseteq events
      BY DEF InsertEvent, EventsOf
    <2>4. \A e \in events : e.seq < s
      BY NextSeqsType DEF IInv, TypeInv, TypeOK
    <2> QED BY <1>2, <1>4, <2>1, <2>2, <2>3, <2>4 DEF InsertEvent, JobOK
  <1> QED BY <1>3, <1>5, <1>6, MoveJobs DEF InsertEvent

LEMMA CrashStep ==
    ASSUME IInv, Crash PROVE LocksInv' /\ JobInv'
  <1>1. \A r \in Requests : pc'[r] \notin Working
    BY DEF Crash, InFlight, Working, IInv, TypeInv, TypeOK
  <1> QED BY <1>1 DEF Crash, LocksInv, JobInv, InTransaction, Working
-----------------------------------------------------------------------------
(* The inductive step, for the commit *)

\* The row r is about to commit is one edit of the committed row of t.
EditsRow(r, t) ==
    /\ t \in Tasks /\ tasks[t] \in Row /\ job[r].row \in Row
    /\ actor[r] \in Users /\ Change(r) \in Changes
    /\ job[r].fields \in SUBSET Fields
    /\ job[r].row.version = tasks[t].version + 1
    /\ \A u \in Users : job[r].row.clock[u] =
          IF u = actor[r] THEN tasks[t].clock[u] + 1 ELSE tasks[t].clock[u]
    /\ \A f \in Fields : job[r].row.content[f] =
          IF f \in job[r].fields THEN Change(r) ELSE tasks[t].content[f]
    /\ life[t] = "absent" =>
          /\ tasks[t] = NoRow
          /\ job[r].fields = Fields
          /\ job[r].row = Edited([NoRow EXCEPT !.owner = actor[r]],
                                 actor[r], Fields, Change(r))
    /\ life[t] # "absent" =>
          job[r].row = Edited(tasks[t], actor[r], job[r].fields, Change(r))

\* With its event in, a transaction holds one edit of the row it replaces: a
\* version at or below the current one would have found its event taken.
LEMMA CommitRow ==
    ASSUME IInv, NEW r \in Requests, pc[r] = "logged",
           NEW t, t = job[r].task
    PROVE  EditsRow(r, t)
  <1>1. t \in Tasks /\ actor[r] \in Users /\ Change(r) \in Changes /\ JobOK(r)
    BY ChangeType DEF IInv, TypeInv, ActorInv, JobInv, Working
  <1>2. tasks[t] \in Row /\ job[r].row \in Row /\ job[r].fields \in SUBSET Fields
    BY <1>1 DEF IInv, TypeInv, TypeOK, Job
  <1>3. tasks[t].version \in Nat /\ job[r].row.version \in Nat
    BY <1>2 DEF Row
  <1>4. CASE life[t] = "absent"
    <2>1. /\ tasks[t] = NoRow
          /\ job[r].fields = Fields
          /\ job[r].row = Edited([NoRow EXCEPT !.owner = actor[r]],
                                 actor[r], Fields, Change(r))
      BY <1>1, <1>4 DEF JobOK, IInv, LogInv, AbsentInv
    <2> QED BY <1>1, <1>2, <1>4, <2>1 DEF EditsRow, Edited, NoRow
  <1>5. CASE life[t] # "absent"
    <2>1. job[r].row.version >= 1 /\ job[r].row.version <= tasks[t].version + 1
      BY <1>1, <1>5 DEF JobOK
    <2>2. ~VersionTaken(r)
      BY <1>1 DEF JobOK
    <2>3. job[r].row.version \notin 1..tasks[t].version
      BY <1>1, <2>2 DEF VersionTaken, IInv, LogInv, EventLogComplete, EventsOf
    <2>4. job[r].row.version = tasks[t].version + 1
      BY <1>3, <2>1, <2>3
    <2>5. job[r].row = Edited(tasks[t], actor[r], job[r].fields, Change(r))
      BY <1>1, <1>5, <2>4 DEF JobOK
    <2>6. tasks[t].clock \in [Users -> Nat]
      BY <1>2 DEF Row
    <2>7. \A u \in Users : job[r].row.clock[u] =
             IF u = actor[r] THEN tasks[t].clock[u] + 1 ELSE tasks[t].clock[u]
      BY <2>5, <2>6 DEF Edited
    <2>8. \A f \in Fields : job[r].row.content[f] =
             IF f \in job[r].fields THEN Change(r) ELSE tasks[t].content[f]
      BY <2>5 DEF Edited
    <2> QED BY <1>1, <1>2, <1>5, <2>4, <2>5, <2>7, <2>8 DEF EditsRow
  <1> QED BY <1>4, <1>5

\* The event a commit adds.
LEMMA ApplyEvents ==
    ASSUME IInv, NEW r \in Requests, pc[r] = "logged", Apply(r),
           NEW t, t = job[r].task, NEW e0, e0 = LoggedEvent(r)
    PROVE  /\ e0 \in Event /\ e0.task = t /\ e0.user = actor[r]
           /\ e0.version = tasks[t].version + 1
           /\ e0.fields = job[r].fields /\ e0.change = Change(r)
           /\ e0 \notin events
           /\ events' = events \cup {e0}
           /\ EventsOf(t)' = EventsOf(t) \cup {e0}
           /\ \A x : x # t => EventsOf(x)' = EventsOf(x)
           /\ \A e \in EventsOf(t) : e.seq < e0.seq
           /\ \A e \in events : e.change # e0.change
           /\ \A e \in EventsOf(t) : e.version \in 1..tasks[t].version
           /\ tasks' = [tasks EXCEPT ![t] = job[r].row]
           /\ life' = [life EXCEPT ![t] = IF @ = "absent" THEN "live" ELSE @]
  <1>0. EditsRow(r, t)
    BY CommitRow
  <1>1. /\ t \in Tasks /\ job[r].row.version = tasks[t].version + 1
        /\ job[r].row \in Row /\ actor[r] \in Users /\ Change(r) \in Changes
        /\ job[r].fields \in SUBSET Fields
    BY <1>0 DEF EditsRow
  <1>2. e0 \in Event
    BY <1>1 DEF LoggedEvent, Event, Row, IInv, TypeInv, TypeOK, Job
  <1>3. /\ e0.task = t /\ e0.user = actor[r] /\ e0.version = tasks[t].version + 1
        /\ e0.fields = job[r].fields /\ e0.change = Change(r) /\ e0.seq = job[r].seq
    BY <1>1 DEF LoggedEvent
  <1>4. \A e \in events : e.change # e0.change
    <2>1. \A e \in events : e.change[2] <= n[e.change[1]] /\ e.change \in Changes
      BY DEF IInv, TypeInv, TypeOK, AckInv, ChangesInv, Event
    <2>2. n[r] \in Nat /\ e0.change = <<r, n[r] + 1>>
      BY <1>3 DEF Change, IInv, TypeInv, TypeOK
    <2> QED BY <2>1, <2>2
  <1>5. events' = events \cup {e0} /\ e0 \notin events
    BY <1>4 DEF Apply
  <1>6. EventsOf(t)' = EventsOf(t) \cup {e0} /\ \A x : x # t => EventsOf(x)' = EventsOf(x)
    BY <1>3, <1>5 DEF EventsOf
  <1>7. \A e \in EventsOf(t) : e.seq < e0.seq /\ e.version \in 1..tasks[t].version
    BY <1>3 DEF IInv, JobInv, JobOK, Working, LogInv, EventLogComplete, EventsOf
  <1> QED BY <1>2, <1>3, <1>4, <1>5, <1>6, <1>7 DEF Apply

LEMMA ApplyLog ==
    ASSUME IInv, NEW r \in Requests, pc[r] = "logged", Apply(r)
    PROVE  LogInv'
  <1>a. PICK t : t = job[r].task
    OBVIOUS
  <1>b. PICK e0 : e0 = LoggedEvent(r)
    OBVIOUS
  <1>1. /\ t \in Tasks /\ tasks[t] \in Row /\ job[r].row \in Row /\ actor[r] \in Users
        /\ job[r].row.version = tasks[t].version + 1
        /\ \A u \in Users : job[r].row.clock[u] =
                 IF u = actor[r] THEN tasks[t].clock[u] + 1 ELSE tasks[t].clock[u]
        /\ \A f \in Fields : job[r].row.content[f] =
                 IF f \in job[r].fields THEN Change(r) ELSE tasks[t].content[f]
        /\ life[t] = "absent" => job[r].fields = Fields
    <2>1. EditsRow(r, t)
      BY <1>a, CommitRow
    <2> QED BY <2>1 DEF EditsRow
  <1>2. /\ e0 \in Event /\ e0.task = t /\ e0.user = actor[r]
        /\ e0.version = tasks[t].version + 1
        /\ e0.fields = job[r].fields /\ e0.change = Change(r)
        /\ e0 \notin events
        /\ events' = events \cup {e0}
        /\ EventsOf(t)' = EventsOf(t) \cup {e0}
        /\ \A x : x # t => EventsOf(x)' = EventsOf(x)
        /\ \A e \in EventsOf(t) : e.seq < e0.seq
        /\ \A e \in EventsOf(t) : e.version \in 1..tasks[t].version
        /\ tasks' = [tasks EXCEPT ![t] = job[r].row]
        /\ life' = [life EXCEPT ![t] = IF @ = "absent" THEN "live" ELSE @]
    BY <1>a, <1>b, ApplyEvents
  <1>3. /\ tasks'[t] = job[r].row /\ \A x \in Tasks : x # t => tasks'[x] = tasks[x]
        /\ life'[t] # "absent" /\ \A x \in Tasks : x # t => life'[x] = life[x]
        /\ life[t] # "absent" => life'[t] = life[t]
        /\ tasks[t].version \in Nat
    BY <1>1, <1>2 DEF IInv, TypeInv, TypeOK, Row
  <1>4. IsFiniteSet(events')
    BY <1>2, FS_AddElement DEF IInv, LogInv
  <1>5. AbsentInv'
    BY <1>1, <1>2, <1>3 DEF IInv, LogInv, AbsentInv
  <1>6. EventLogComplete'
    <2>1. ASSUME NEW x \in Tasks, NEW v \in 1..tasks'[x].version
          PROVE  \E e \in EventsOf(x)' : e.version = v
      <3>1. CASE x # t
        BY <1>2, <1>3, <2>1, <3>1 DEF IInv, LogInv, EventLogComplete
      <3>2. CASE x = t /\ v = tasks[t].version + 1
        BY <1>2, <3>2
      <3>3. CASE x = t /\ v # tasks[t].version + 1
        <4>1. v \in 1..tasks[t].version
          BY <1>1, <1>3, <2>1, <3>3
        <4> QED BY <1>1, <1>2, <3>3, <4>1 DEF IInv, LogInv, EventLogComplete
      <3> QED BY <3>1, <3>2, <3>3
    <2>2. ASSUME NEW e \in events' PROVE e.version \in 1..tasks'[e.task].version
      <3>1. CASE e = e0
        BY <1>1, <1>2, <1>3, <3>1
      <3>2. CASE e \in events /\ e.task = t
        BY <1>1, <1>2, <1>3, <3>2 DEF EventsOf
      <3>3. CASE e \in events /\ e.task # t
        BY <1>3, <3>3 DEF IInv, LogInv, EventLogComplete, TypeInv, TypeOK, Event
      <3> QED BY <1>2, <3>1, <3>2, <3>3
    <2>3. ASSUME NEW d \in events', NEW e \in events', d.task = e.task, d.version = e.version
          PROVE  d = e
      <3>1. \A x \in events : x.task = t => x.version # e0.version
        BY <1>2, <1>3 DEF EventsOf
      <3> QED BY <1>2, <2>3, <3>1 DEF IInv, LogInv, EventLogComplete
    <2> QED BY <2>1, <2>2, <2>3 DEF EventLogComplete
  <1>7. ClockCountsEdits'
    <2> SUFFICES ASSUME NEW x \in Tasks, NEW u \in Users
                 PROVE  tasks'[x].clock[u] = Cardinality({e \in EventsOf(x)' : e.user = u})
      BY DEF ClockCountsEdits
    <2>1. tasks[x].clock[u] = Cardinality({e \in EventsOf(x) : e.user = u})
      BY DEF IInv, LogInv, ClockCountsEdits
    <2>2. CASE x # t
      BY <1>2, <1>3, <2>1, <2>2
    <2>3. CASE x = t /\ u # actor[r]
      <3>1. {e \in EventsOf(x)' : e.user = u} = {e \in EventsOf(x) : e.user = u}
        BY <1>2, <2>3
      <3>2. tasks'[x].clock[u] = tasks[x].clock[u]
        BY <1>1, <1>3, <2>3 DEF Row
      <3> QED BY <2>1, <3>1, <3>2
    <2>4. CASE x = t /\ u = actor[r]
      <3> DEFINE S == {e \in EventsOf(x) : e.user = u}
      <3>1. {e \in EventsOf(x)' : e.user = u} = S \cup {e0} /\ e0 \notin S
        BY <1>2, <2>4 DEF EventsOf
      <3>2. IsFiniteSet(S)
        BY FS_Subset DEF IInv, LogInv, EventsOf
      <3>3. Cardinality(S \cup {e0}) = Cardinality(S) + 1
        BY <3>1, <3>2, FS_AddElement
      <3>4. tasks'[x].clock[u] = tasks[x].clock[u] + 1
        BY <1>1, <1>3, <2>4 DEF Row
      <3> QED BY <2>1, <3>1, <3>3, <3>4
    <2> QED BY <2>2, <2>3, <2>4
  <1>8. RowReplaysLog'
    <2> SUFFICES ASSUME NEW x \in Tasks, NEW f \in Fields, life'[x] # "absent"
                 PROVE  \E e \in EventsOf(x)' :
                            /\ f \in e.fields
                            /\ tasks'[x].content[f] = e.change
                            /\ \A d \in EventsOf(x)' : f \in d.fields => d.version <= e.version
      BY DEF RowReplaysLog
    <2>1. CASE x # t
      BY <1>2, <1>3, <2>1 DEF IInv, LogInv, RowReplaysLog
    <2>2. CASE x = t /\ f \in job[r].fields
      <3>1. tasks'[x].content[f] = e0.change
        BY <1>1, <1>2, <1>3, <2>2
      <3>2. \A d \in EventsOf(x)' : d.version <= e0.version
        BY <1>2, <1>3, <2>2
      <3> QED BY <1>2, <2>2, <3>1, <3>2
    <2>3. CASE x = t /\ f \notin job[r].fields
      <3>1. life[x] # "absent" /\ tasks'[x].content[f] = tasks[x].content[f]
        BY <1>1, <1>3, <2>3
      <3>2. PICK e \in EventsOf(x) :
                 /\ f \in e.fields
                 /\ tasks[x].content[f] = e.change
                 /\ \A d \in EventsOf(x) : f \in d.fields => d.version <= e.version
        BY <3>1 DEF IInv, LogInv, RowReplaysLog
      <3> QED BY <1>2, <2>3, <3>1, <3>2
    <2> QED BY <2>1, <2>2, <2>3
  <1>9. SeqFollowsVersion'
    <2> SUFFICES ASSUME NEW d \in events', NEW e \in events', d.task = e.task,
                        d.version < e.version
                 PROVE  d.seq < e.seq
      BY DEF SeqFollowsVersion
    <2>1. CASE d \in events /\ e \in events
      BY <2>1 DEF IInv, LogInv, SeqFollowsVersion
    <2>2. CASE d \in events /\ e = e0
      BY <1>2, <2>2 DEF EventsOf
    <2>3. CASE d = e0
      <3>1. e # e0
        BY <1>2, <1>3, <2>3
      <3>2. e \in EventsOf(t)
        BY <1>2, <2>3, <3>1 DEF EventsOf
      <3>3. e.version \in 1..tasks[t].version
        BY <1>2, <3>2
      <3> QED BY <1>2, <1>3, <2>3, <3>3
    <2> QED BY <1>2, <2>1, <2>2, <2>3
  <1> QED BY <1>4, <1>5, <1>6, <1>7, <1>8, <1>9 DEF LogInv
\* A commit makes the other rows read from its task stale, and cannot meet
\* another open transaction on that task.
LEMMA ApplyJobs ==
    ASSUME IInv, NEW r \in Requests, pc[r] = "logged", Apply(r), EndChange(r), actor' = actor
    PROVE  JobInv'
  <1> SUFFICES ASSUME NEW q \in Requests, pc'[q] \in Working PROVE JobOK(q)'
    BY DEF JobInv
  <1>a. PICK t : t = job[r].task
    OBVIOUS
  <1>b. PICK e0 : e0 = LoggedEvent(r)
    OBVIOUS
  <1>1. q # r /\ pc'[q] = pc[q] /\ job'[q] = job[q] /\ n'[q] = n[q] /\ JobOK(q)
    BY DEF EndChange, Working, IInv, TypeInv, TypeOK, JobInv
  <1>2. /\ e0.task = t
        /\ events' = events \cup {e0}
        /\ EventsOf(t)' = EventsOf(t) \cup {e0}
        /\ \A x : x # t => EventsOf(x)' = EventsOf(x)
        /\ tasks' = [tasks EXCEPT ![t] = job[r].row]
        /\ life' = [life EXCEPT ![t] = IF @ = "absent" THEN "live" ELSE @]
    BY <1>a, <1>b, ApplyEvents
  <1>3. EditsRow(r, t)
    BY <1>a, CommitRow
  <1>4. job[q].task \in Tasks /\ job[q].row.version \in Nat
    BY <1>1 DEF IInv, TypeInv, TypeOK, ActorInv, Job, Row
  <1>5. Change(q)' = Change(q)
    BY <1>1 DEF Change
  <1>6. CASE job[q].task = t
    <2>1. ~InTransaction(q) /\ pc[q] = "loaded"
      BY <1>a, <1>1, <1>6 DEF IInv, LocksInv, InTransaction, Working
    <2>2. life[t] # "absent" /\ job[q].row.version <= tasks[t].version + 1
      BY <1>1, <1>6, <2>1 DEF JobOK
    <2>3. /\ life'[t] # "absent"
          /\ tasks'[t].version = tasks[t].version + 1
          /\ tasks[t].version \in Nat
      BY <1>2, <1>3, <2>2 DEF EditsRow, Row, IInv, TypeInv, TypeOK
    <2> QED BY <1>1, <1>4, <1>6, <2>1, <2>2, <2>3 DEF JobOK
  <1>7. CASE job[q].task # t
    <2>1. VersionTaken(q)' = VersionTaken(q)
      BY <1>1, <1>2, <1>7 DEF VersionTaken
    <2>2. /\ tasks'[job[q].task] = tasks[job[q].task]
          /\ life'[job[q].task] = life[job[q].task]
      BY <1>2, <1>4, <1>7 DEF IInv, TypeInv, TypeOK
    <2>3. EventsOf(job[q].task)' = EventsOf(job[q].task)
      BY <1>1, <1>2, <1>7
    <2> QED BY <1>1, <1>5, <2>1, <2>2, <2>3 DEF JobOK
  <1> QED BY <1>6, <1>7

LEMMA ApplyAcks ==
    ASSUME IInv, NEW r \in Requests, pc[r] = "logged", Apply(r), EndChange(r),
           \/ acked' = acked
           \/ Acknowledge(r, IF life[job[r].task] = "absent" THEN "create" ELSE "update",
                          job[r].task)
    PROVE  AckInv'
  <1>a. PICK t : t = job[r].task
    OBVIOUS
  <1>b. PICK e0 : e0 = LoggedEvent(r)
    OBVIOUS
  <1>c. PICK op : op = IF life[t] = "absent" THEN "create" ELSE "update"
    OBVIOUS
  <1>d. PICK a0 : a0 = [change |-> Change(r), op |-> op, task |-> t]
    OBVIOUS
  <1>1. /\ e0 \in Event /\ e0.task = t /\ e0.change = Change(r)
        /\ e0.version = tasks[t].version + 1
        /\ events' = events \cup {e0}
        /\ EventsOf(t)' = EventsOf(t) \cup {e0}
        /\ \A x : x # t => EventsOf(x)' = EventsOf(x)
        /\ \A e \in events : e.change # e0.change
        /\ life' = [life EXCEPT ![t] = IF @ = "absent" THEN "live" ELSE @]
    BY <1>a, <1>b, ApplyEvents
  <1>2. t \in Tasks /\ Change(r) = <<r, n[r] + 1>> /\ EditsRow(r, t)
    BY <1>a, CommitRow DEF EditsRow, Change
  <1>3. acked' \subseteq acked \cup {a0}
    BY <1>a, <1>c, <1>d DEF Acknowledge
  <1>4. a0.change = Change(r) /\ a0.op = op /\ a0.task = t /\ op \in {"create", "update"}
    BY <1>c, <1>d
  <1>5. n'[r] = n[r] + 1 /\ \A q \in Requests : n'[q] >= n[q] /\ n[q] \in Nat /\ n'[q] \in Nat
    BY EndChangeCounts DEF EndChange, IInv, TypeInv, TypeOK
  <1>6. ChangesInv'
    <2>1. \A e \in events : e.change[1] \in Requests /\ e.change[2] \in Nat
      BY DEF IInv, TypeInv, TypeOK, Event, Changes
    <2>2. \A a \in acked : a.change[1] \in Requests /\ a.change[2] \in Nat
      BY DEF IInv, TypeInv, TypeOK, Ack, Changes
    <2>3. \A e \in events' : e.change[2] <= n'[e.change[1]]
      BY <1>1, <1>2, <1>5, <2>1 DEF IInv, AckInv, ChangesInv
    <2>4. \A a \in acked' : a.change[2] <= n'[a.change[1]]
      BY <1>2, <1>3, <1>4, <1>5, <2>2 DEF IInv, AckInv, ChangesInv
    <2> QED BY <2>3, <2>4 DEF ChangesInv
  <1>7. AckedIsDurable'
    <2>1. ASSUME NEW a \in acked', a.op \in {"create", "update"}
          PROVE  \E e \in EventsOf(a.task)' :
                    e.change = a.change /\ (a.op = "create" <=> e.version = 1)
      <3>1. CASE a \in acked
        <4>1. PICK e \in EventsOf(a.task) :
                   e.change = a.change /\ (a.op = "create" <=> e.version = 1)
          BY <2>1, <3>1 DEF IInv, AckInv, AckedIsDurable
        <4>2. e \in EventsOf(a.task)'
          BY <1>1
        <4> QED BY <4>1, <4>2
      <3>2. CASE a = a0
        <4>1. op = "create" <=> e0.version = 1
          <5>1. CASE life[t] = "absent"
            BY <1>1, <1>2, <1>c, <5>1 DEF EditsRow, NoRow
          <5>2. CASE life[t] # "absent"
            <6>1. tasks[t].version >= 1 /\ tasks[t].version \in Nat
              BY <1>2, <5>2 DEF IInv, LogInv, AbsentInv, TypeInv, TypeOK, Row
            <6> QED BY <1>1, <1>c, <5>2, <6>1
          <5> QED BY <5>1, <5>2
        <4>2. e0 \in EventsOf(a.task)'
          BY <1>1, <1>4, <3>2
        <4> QED BY <1>1, <1>4, <3>2, <4>1, <4>2
      <3> QED BY <1>3, <3>1, <3>2
    <2>2. ASSUME NEW a \in acked', a.op = "delete" PROVE life'[a.task] = "deleted"
      <3>1. a \in acked /\ life[a.task] = "deleted"
        BY <1>3, <1>4, <2>2 DEF IInv, AckInv, AckedIsDurable
      <3>2. a.task \in Tasks \cup {None}
        BY <3>1 DEF IInv, TypeInv, TypeOK, Ack
      <3> QED BY <1>1, <3>1, <3>2 DEF IInv, TypeInv, TypeOK
    <2>3. \A d, e \in events' : d.change = e.change => d = e
      BY <1>1 DEF IInv, AckInv, AckedIsDurable
    <2> QED BY <2>1, <2>2, <2>3 DEF AckedIsDurable
  <1>8. DeleteAckedOnce'
    BY <1>3, <1>4 DEF IInv, AckInv, DeleteAckedOnce
  <1> QED BY <1>6, <1>7, <1>8 DEF AckInv

-----------------------------------------------------------------------------
(* The inductive step, for the other actions that end a change *)

LEMMA DeleteStep ==
    ASSUME IInv, NEW r \in Requests, Delete(r)
    PROVE  LocksInv' /\ JobInv' /\ LogInv' /\ AckInv'
  <1>1. PICK t \in Tasks :
           /\ life[t] = "live"
           /\ life' = [life EXCEPT ![t] = "deleted"]
           /\ Acknowledge(r, "delete", t)
    BY DEF Delete
  <1>2. PICK a0 : a0 = [change |-> Change(r), op |-> "delete", task |-> t]
    OBVIOUS
  <1>3. acked' = acked \cup {a0} /\ a0.op = "delete" /\ a0.task = t /\ a0.change = <<r, n[r] + 1>>
    BY <1>1, <1>2 DEF Acknowledge, Change
  <1>4. \A x : EventsOf(x)' = EventsOf(x)
    BY DEF Delete, EventsOf
  <1>5. \A x \in Tasks : (life'[x] = "absent" <=> life[x] = "absent")
    BY <1>1 DEF IInv, TypeInv, TypeOK
  <1>6. LocksInv'
    BY EndChangeLocks DEF Delete, Ready, InTransaction
  <1>7. JobInv'
    <2> SUFFICES ASSUME NEW q \in Requests, pc'[q] \in Working PROVE JobOK(q)'
      BY DEF JobInv
    <2>1. q # r /\ pc'[q] = pc[q] /\ job'[q] = job[q] /\ n'[q] = n[q] /\ JobOK(q)
      BY DEF Delete, EndChange, Working, IInv, TypeInv, TypeOK, JobInv
    <2>2. Change(q)' = Change(q) /\ VersionTaken(q)' = VersionTaken(q)
      BY <2>1 DEF Delete, Change, VersionTaken
    <2>3. job[q].task \in Tasks
      BY <2>1 DEF IInv, TypeInv, ActorInv
    <2>4. tasks' = tasks /\ actor' = actor
      BY DEF Delete
    <2> QED BY <1>4, <1>5, <2>1, <2>2, <2>3, <2>4 DEF JobOK
  <1>8. LogInv'
    BY <1>4, <1>5 DEF Delete, IInv, LogInv, AbsentInv, EventLogComplete, ClockCountsEdits,
                      RowReplaysLog, SeqFollowsVersion
  <1>9. AckInv'
    <2>1. n'[r] = n[r] + 1 /\ \A q \in Requests : n'[q] >= n[q] /\ n[q] \in Nat /\ n'[q] \in Nat
      BY EndChangeCounts DEF Delete, EndChange, IInv, TypeInv, TypeOK
    <2>2. /\ \A e \in events : e.change[1] \in Requests /\ e.change[2] \in Nat
          /\ \A a \in acked : a.change[1] \in Requests /\ a.change[2] \in Nat
      BY DEF IInv, TypeInv, TypeOK, Event, Ack, Changes
    <2>3. ChangesInv'
      BY <1>3, <2>1, <2>2 DEF Delete, IInv, AckInv, ChangesInv
    <2>4. \A a \in acked : a.op = "delete" => life[a.task] = "deleted" /\ a.task # t
      BY <1>1 DEF IInv, AckInv, AckedIsDurable
    <2>5. \A a \in acked' : a.op = "delete" => life'[a.task] = "deleted"
      BY <1>1, <1>3, <2>4 DEF IInv, TypeInv, TypeOK, Ack
    <2>6. AckedIsDurable'
      BY <1>3, <1>4, <2>5 DEF Delete, IInv, AckInv, AckedIsDurable
    <2>7. DeleteAckedOnce'
      BY <1>3, <2>4 DEF IInv, AckInv, DeleteAckedOnce
    <2> QED BY <2>3, <2>6, <2>7 DEF AckInv
  <1> QED BY <1>6, <1>7, <1>8, <1>9

LEMMA UnknownChangeStep ==
    ASSUME IInv, NEW r \in Requests, UnknownChange(r)
    PROVE  LocksInv' /\ JobInv' /\ LogInv' /\ AckInv'
  <1>1. PICK a0 : a0 = [change |-> Change(r), op |-> "unknown", task |-> None]
    OBVIOUS
  <1>2. acked' = acked \cup {a0} /\ a0.op = "unknown" /\ a0.change = <<r, n[r] + 1>>
    BY <1>1 DEF UnknownChange, Acknowledge, Change
  <1>3. n'[r] = n[r] + 1 /\ \A q \in Requests : n'[q] >= n[q] /\ n[q] \in Nat /\ n'[q] \in Nat
    BY EndChangeCounts DEF UnknownChange, EndChange, IInv, TypeInv, TypeOK
  <1>4. LocksInv' /\ JobInv'
    BY EndChangeLocks, EndChangeJobs DEF UnknownChange, Ready, InTransaction
  <1>5. \A x : EventsOf(x)' = EventsOf(x)
    BY DEF UnknownChange, EventsOf
  <1>6. LogInv'
    BY <1>5 DEF UnknownChange, IInv, LogInv, AbsentInv, EventLogComplete,
                ClockCountsEdits, RowReplaysLog, SeqFollowsVersion
  <1>7. ChangesInv'
    <2>1. /\ \A e \in events : e.change[1] \in Requests /\ e.change[2] \in Nat
          /\ \A a \in acked : a.change[1] \in Requests /\ a.change[2] \in Nat
      BY DEF IInv, TypeInv, TypeOK, Event, Ack, Changes
    <2> QED BY <1>2, <1>3, <2>1 DEF UnknownChange, IInv, AckInv, ChangesInv
  <1>8. AckedIsDurable' /\ DeleteAckedOnce'
    BY <1>2, <1>5 DEF UnknownChange, IInv, AckInv, AckedIsDurable, DeleteAckedOnce
  <1> QED BY <1>4, <1>6, <1>7, <1>8 DEF AckInv

\* Rollbacks and refusals.
LEMMA AbandonStep ==
    ASSUME IInv, NEW r \in Requests,
           VersionConflict(r) \/ Refuse(r) \/ StatementFails(r)
    PROVE  LocksInv' /\ JobInv' /\ LogInv' /\ AckInv'
  <1>1. /\ EndChange(r)
        /\ Release(r) \/ (UNCHANGED lock /\ ~InTransaction(r))
        /\ UNCHANGED <<life, tasks, events, actor, acked>>
    BY DEF VersionConflict, Refuse, StatementFails, Ready, InTransaction
  <1> QED BY <1>1, EndChangeCounts, EndChangeLocks, EndChangeJobs, QuietStep

-----------------------------------------------------------------------------
(* The invariant *)

LEMMA Inductive == IInv /\ [Next]_vars => IInv'
  <1> SUFFICES ASSUME IInv, [Next]_vars PROVE IInv'
    OBVIOUS
  <1>1. TypeInv'
    BY TypeStep DEF IInv
  <1>2. ASSUME UNCHANGED <<life, tasks, events, acked, n>> PROVE LogInv' /\ AckInv'
    BY <1>2, QuietStep DEF IInv, TypeInv, TypeOK
  <1>3. ASSUME NEW r \in Requests, Arrive(r) PROVE IInv'
    BY <1>1, <1>2, <1>3, ArriveStep DEF Arrive, IInv
  <1>4. ASSUME NEW r \in Requests, InsertTask(r) PROVE IInv'
    BY <1>1, <1>2, <1>4, InsertTaskStep DEF InsertTask, IInv
  <1>5. ASSUME NEW r \in Requests, FindByID(r) PROVE IInv'
    BY <1>1, <1>2, <1>5, FindByIDStep DEF FindByID, IInv
  <1>6. ASSUME NEW r \in Requests, UpdateRow(r) PROVE IInv'
    BY <1>1, <1>2, <1>6, UpdateRowStep DEF UpdateRow, IInv
  <1>7. ASSUME NEW r \in Requests, InsertEvent(r) PROVE IInv'
    BY <1>1, <1>2, <1>7, InsertEventStep DEF InsertEvent, IInv
  <1>8. ASSUME NEW r \in Requests, Commit(r) \/ CommitReplyLost(r) PROVE IInv'
    <2>1. pc[r] = "logged" /\ Apply(r) /\ Release(r) /\ EndChange(r) /\ actor' = actor
      BY <1>8 DEF Commit, CommitReplyLost
    <2>2. AckInv'
      BY <1>8, <2>1, ApplyAcks DEF Commit, CommitReplyLost
    <2> QED BY <1>1, <2>1, <2>2, ApplyLog, ApplyJobs, EndChangeLocks DEF IInv
  <1>9. ASSUME NEW r \in Requests, Delete(r) PROVE IInv'
    BY <1>1, <1>9, DeleteStep DEF IInv
  <1>10. ASSUME NEW r \in Requests, UnknownChange(r) PROVE IInv'
    BY <1>1, <1>10, UnknownChangeStep DEF IInv
  <1>11. ASSUME NEW r \in Requests, VersionConflict(r) \/ Refuse(r) \/ StatementFails(r)
         PROVE IInv'
    BY <1>1, <1>11, AbandonStep DEF IInv
  <1>12. ASSUME NEW r \in Requests, Respond(r) PROVE IInv'
    <2>1. LocksInv'
      BY <1>12 DEF Respond, LocksInv, InTransaction, IInv, TypeInv, TypeOK
    <2>2. JobInv'
      <3>1. pc'[r] \notin Working /\ \A q \in Requests : q # r => pc'[q] = pc[q]
        BY <1>12 DEF Respond, Working, IInv, TypeInv, TypeOK
      <3> QED BY <1>12, <3>1, MoveJobs DEF Respond
    <2> QED BY <1>1, <1>2, <1>12, <2>1, <2>2 DEF Respond, IInv
  <1>13. CASE Crash
    BY <1>1, <1>2, <1>13, CrashStep DEF Crash, IInv
  <1>14. CASE UNCHANGED vars
    <2>1. LocksInv'
      BY <1>14 DEF vars, LocksInv, InTransaction, IInv
    <2>2. JobInv'
      BY <1>14, JobFrame DEF vars, JobInv, IInv
    <2> QED BY <1>1, <1>2, <1>14, <2>1, <2>2 DEF vars, IInv
  <1> QED
    BY <1>3, <1>4, <1>5, <1>6, <1>7, <1>8, <1>9, <1>10, <1>11, <1>12, <1>13, <1>14
    DEF Next, Step

\* The whole inductive invariant holds in every reachable state.
THEOREM InvariantHolds == Spec => []IInv
  BY Initially, Inductive, PTL DEF Spec

-----------------------------------------------------------------------------
(* What a reader should know of *)

\* No update is lost or logged twice: after any interleaving of requests,
\* rollbacks and crashes each version of a task has exactly one event, although
\* the version is read outside the transaction that writes it.
THEOREM NoLostUpdate == Spec => []EventLogComplete
  <1>1. IInv => EventLogComplete
    BY DEF IInv, LogInv
  <1> QED BY <1>1, InvariantHolds, PTL

\* The stored vector clock counts the logged edits of every user.
THEOREM ClockCorrect == Spec => []ClockCountsEdits
  <1>1. IInv => ClockCountsEdits
    BY DEF IInv, LogInv
  <1> QED BY <1>1, InvariantHolds, PTL

\* Rewriting every column with values read earlier never undoes a concurrent
\* partial update.
THEOREM RowCorrect == Spec => []RowReplaysLog
  <1>1. IInv => RowReplaysLog
    BY DEF IInv, LogInv
  <1> QED BY <1>1, InvariantHolds, PTL

\* The sequence numbers of one task increase with its versions.
THEOREM SequenceCorrect == Spec => []SeqFollowsVersion
  <1>1. IInv => SeqFollowsVersion
    BY DEF IInv, LogInv
  <1> QED BY <1>1, InvariantHolds, PTL

\* What a client was told is done is in the tables, exactly once, through any
\* number of crashes.
THEOREM Durability == Spec => []AckedIsDurable
  <1>1. IInv => AckedIsDurable
    BY DEF IInv, AckInv
  <1> QED BY <1>1, InvariantHolds, PTL

\* Of the requests that delete one task, one at most is told that it did.
THEOREM DeletedOnce == Spec => []DeleteAckedOnce
  <1>1. IInv => DeleteAckedOnce
    BY DEF IInv, AckInv
  <1> QED BY <1>1, InvariantHolds, PTL

\* Waiting for a row lock never goes in a circle, nor through two waits in a
\* row: the holder of a lock holds that one only and is past its last wait.
THEOREM NoDeadlock == Spec => []HoldersNeverWait
  <1>1. IInv => HoldersNeverWait
    BY DEF IInv, LocksInv, HoldersNeverWait
  <1> QED BY <1>1, InvariantHolds, PTL

LEMMA AbsInit == Init => Abs!Init
  BY DEF Init, Abs!Init, NoRow, Abs!NoRow

\* A commit is the atomic creation or edit; a delete is the atomic delete; any
\* other step leaves life and tasks alone.
LEMMA AbsStep == IInv /\ [Next]_vars => [Abs!Next]_Abs!vars
  <1> SUFFICES ASSUME IInv, [Next]_vars PROVE [Abs!Next]_Abs!vars
    OBVIOUS
  <1>1. ASSUME NEW r \in Requests, Commit(r) \/ CommitReplyLost(r) PROVE Abs!Next
    <2>a. PICK t : t = job[r].task
      OBVIOUS
    <2>b. PICK c, u, F : c = Change(r) /\ u = actor[r] /\ F = job[r].fields
      OBVIOUS
    <2>1. pc[r] = "logged" /\ Apply(r)
      BY <1>1 DEF Commit, CommitReplyLost
    <2>2. EditsRow(r, t)
      BY <2>a, <2>1, CommitRow
    <2>3. t \in Tasks /\ c \in Changes /\ u \in Users /\ F \in SUBSET Fields
      BY <2>b, <2>2 DEF EditsRow
    <2>4. /\ tasks' = [tasks EXCEPT ![t] = job[r].row]
          /\ life' = [life EXCEPT ![t] = IF @ = "absent" THEN "live" ELSE @]
      BY <2>a, <2>1 DEF Apply
    <2>5. CASE life[t] = "absent"
      <3>1. job[r].row = Edited([NoRow EXCEPT !.owner = u], u, Fields, c)
        BY <2>b, <2>2, <2>5 DEF EditsRow
      <3>2. Edited([NoRow EXCEPT !.owner = u], u, Fields, c)
              = Abs!Edited([Abs!NoRow EXCEPT !.owner = u], u, Fields, c)
        BY DEF Edited, Abs!Edited, NoRow, Abs!NoRow
      <3>3. Abs!Create(t, u, c)
        BY <2>3, <2>4, <2>5, <3>1, <3>2 DEF Abs!Create, IInv, TypeInv, TypeOK
      <3> QED BY <2>3, <3>3 DEF Abs!Next
    <2>6. CASE life[t] # "absent"
      <3>1. job[r].row = Edited(tasks[t], u, F, c)
        BY <2>b, <2>2, <2>6 DEF EditsRow
      <3>2. Edited(tasks[t], u, F, c) = Abs!Edited(tasks[t], u, F, c)
        BY DEF Edited, Abs!Edited
      <3>3. life' = life
        BY <2>3, <2>4, <2>6 DEF IInv, TypeInv, TypeOK
      <3>4. Abs!Edit(t, u, F, c)
        BY <2>3, <2>4, <2>6, <3>1, <3>2, <3>3 DEF Abs!Edit
      <3> QED BY <2>3, <3>4 DEF Abs!Next
    <2> QED BY <2>5, <2>6
  <1>2. ASSUME NEW r \in Requests, Delete(r) PROVE Abs!Next
    <2>1. PICK t \in Tasks : Abs!Delete(t)
      BY <1>2 DEF Delete, Abs!Delete
    <2> QED BY <2>1 DEF Abs!Next
  <1>3. CASE UNCHANGED <<life, tasks>>
    BY <1>3 DEF Abs!vars
  <1>4. ASSUME NEW r \in Requests,
               \/ Arrive(r) \/ InsertTask(r) \/ FindByID(r) \/ UpdateRow(r)
               \/ InsertEvent(r) \/ VersionConflict(r) \/ UnknownChange(r)
               \/ Refuse(r) \/ StatementFails(r) \/ Respond(r)
        PROVE  UNCHANGED <<life, tasks>>
    BY <1>4 DEF Arrive, InsertTask, FindByID, UpdateRow, InsertEvent, VersionConflict,
                UnknownChange, Refuse, StatementFails, Respond
  <1>5. Crash \/ UNCHANGED vars => UNCHANGED <<life, tasks>>
    BY DEF Crash, vars
  <1> QED BY <1>1, <1>2, <1>3, <1>4, <1>5 DEF Next, Step

\* The store implements the atomic one: every committed change is one edit of
\* the row the previous committed change left.
THEOREM Refinement == Spec => Atomicity
  BY InvariantHolds, AbsInit, AbsStep, PTL DEF Spec, Atomicity, Abs!Spec
=============================================================================
