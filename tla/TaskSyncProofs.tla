---------------------------- MODULE TaskSyncProofs ----------------------------
(***************************************************************************)
(* Proofs about TaskSync for any number of users, devices, tasks and       *)
(* requests at a time and any bounds: types, what a pull can miss, what a  *)
(* retry repeats, what a count tells, and that copies never go back.       *)
(***************************************************************************)
EXTENDS TaskSync, FiniteSetTheorems, SequenceTheorems, TLAPS

Types == {"CREATE", "UPDATE", "DELETE", "OTHER"}

Distinct(s) == \A i, j \in 1..Len(s) : s[i].id = s[j].id => i = j

\* e is the end of s.
IsEnd(e, s) ==
    /\ Len(e) <= Len(s)
    /\ \A i \in 1..Len(e) : e[i] = s[Len(s) - Len(e) + i]

\* A request a as it is by itself: what is left to do is the end of what was
\* sent, each change is there once and is the device's own.
Consistent(a) ==
    /\ a.pc # "free" => a.dev \in Devices
    /\ a.pc # "push" => a.todo = <<>>
    /\ IsEnd(a.todo, a.all) /\ Len(a.all) <= MaxChanges
    /\ a.count + Len(a.todo) <= Len(a.all)
    /\ Distinct(a.todo)
    /\ \A i \in 1..Len(a.all) : a.all[i].id[1] = a.dev

\* Change ch took effect, as it was made or as far as it was decoded.
Done(ch) ==
    \/ ch.type = "OTHER"
    \/ ch.decodes /\ effects[ch.id] > 0
    \/ ~ch.decodes /\ partial[ch.id] > 0

\* If all the changes so far were counted, they took effect.
Credited(a) ==
    a.count + Len(a.todo) = Len(a.all) =>
        \A i \in 1..(Len(a.all) - Len(a.todo)) : Done(a.all[i])

\* An answer is a part of what the store had then, and still has or surpasses,
\* and all that was asked for unless it was cut.
Answered(a) ==
    a.pc = "answer" => \A t \in Tasks :
        /\ a.newTasks[t] # 0 => a.newTasks[t] = a.base[t]
        /\ a.base[t] > a.min => a.newTasks[t] = a.base[t] \/ a.cut
        /\ a.base[t] <= tasks[t].version
        /\ a.base[t] > 0 => tasks[t].owner = UserOf[a.dev]

\* The request a device waits for is its own and asked for what it lacks.
Awaited(d) ==
    wait[d] # None =>
        /\ req[wait[d]].pc # "free"
        /\ req[wait[d]].dev = d
        /\ req[wait[d]].min = seen[d]
        /\ req[wait[d]].pc = "answer" =>
              \A t \in Tasks : copy[d][t] <= req[wait[d]].base[t]

\* The queue is the last changes made.
Numbered(d) ==
    /\ Len(queue[d]) <= made[d]
    /\ \A i \in 1..Len(queue[d]) : queue[d][i].id = <<d, made[d] - Len(queue[d]) + i>>

\* The store and what the devices have of it.
Stored ==
    /\ DOMAIN tasks = Tasks
    /\ \A t \in Tasks : life[t] = "absent" => tasks[t].version = 0
    /\ \A d \in Devices, t \in Tasks : copy[d][t] <= tasks[t].version

\* The requests that still have to execute change c.
Pending(c) == {q \in Requests : \E i \in 1..Len(req[q].todo) : req[q].todo[i].id = c}

\* Each request that carried a change can execute it once.
Budget ==
    \A c \in Ids :
        /\ IsFiniteSet(Pending(c))
        /\ effects[c] + partial[c] + Cardinality(Pending(c)) <= carried[c]
        /\ carried[c] <= sends[c[1]]

IInv == /\ TypeOK /\ Stored /\ MissedOnlyBelow /\ Budget
        /\ \A q \in Requests : Consistent(req[q]) /\ Credited(req[q]) /\ Answered(req[q])
        /\ \A d \in Devices : Awaited(d) /\ Numbered(d)

-----------------------------------------------------------------------------
(* Records *)

\* A change has an identity.
LEMMA ChangeFacts == \A ch \in Change : ch.id \in Ids /\ ch.decodes \in BOOLEAN
  BY DEF Change

\* The tallies are numbers that never sink.
Grows ==
    /\ effects' \in [Ids -> Nat] /\ partial' \in [Ids -> Nat]
    /\ \A c \in Ids : effects[c] <= effects'[c] /\ partial[c] <= partial'[c]

\* The tallies are numbers.
LEMMA Tallies ==
    ASSUME IInv
    PROVE  /\ effects \in [Ids -> Nat] /\ partial \in [Ids -> Nat] /\ carried \in [Ids -> Nat]
           /\ sends \in [Devices -> Nat]
  BY BoundsAssumption DEF IInv, TypeOK

\* The tallies stay as they are.
LEMMA SameTallies == ASSUME IInv, UNCHANGED <<effects, partial>> PROVE Grows
  BY Tallies DEF Grows

\* What took effect did so for good.
LEMMA DoneKept ==
    ASSUME IInv, Grows, NEW ch \in Change, Done(ch)
    PROVE  Done(ch)'
  <1>1. ch.id \in Ids
    BY ChangeFacts
  <1>2. /\ effects[ch.id] \in Nat /\ effects'[ch.id] \in Nat /\ effects[ch.id] <= effects'[ch.id]
        /\ partial[ch.id] \in Nat /\ partial'[ch.id] \in Nat /\ partial[ch.id] <= partial'[ch.id]
    BY <1>1, Tallies DEF Grows
  <1>3. \A x, y \in Nat : x > 0 /\ x <= y => y > 0
    OBVIOUS
  <1>4. /\ effects[ch.id] > 0 => effects'[ch.id] > 0
        /\ partial[ch.id] > 0 => partial'[ch.id] > 0
    BY <1>2, <1>3, Zenon
  <1> QED BY <1>4, Zenon DEF Done

\* No versions at all.
LEMMA None0Facts == None0 \in Versions /\ \A t \in Tasks : None0[t] = 0
  BY BoundsAssumption DEF None0, Versions

\* A request that is not there is consistent.
LEMMA FreeFacts ==
    /\ Free \in Request /\ Consistent(Free)
    /\ Free.pc = "free" /\ Free.todo = <<>> /\ Free.all = <<>> /\ Free.count = 0
  <1>1. <<>> \in Seq(Change) /\ Len(<<>>) = 0
    BY EmptySeq
  <1>2. Free \in Request
    BY <1>1, None0Facts, BoundsAssumption DEF Free, Request
  <1>3. /\ Free.pc = "free" /\ Free.todo = <<>> /\ Free.all = <<>> /\ Free.count = 0
    BY DEF Free
  <1>4. 1..0 = {}
    OBVIOUS
  <1>5. Distinct(<<>>)
    BY <1>1, <1>4 DEF Distinct
  <1>6. Consistent(Free)
    BY <1>1, <1>3, <1>4, <1>5, BoundsAssumption DEF Consistent, IsEnd
  <1> QED BY <1>2, <1>3, <1>6

\* The end of a sequence without its first element is an end of it.
LEMMA EndFacts ==
    ASSUME NEW S, NEW s \in Seq(S), NEW e \in Seq(S), e # <<>>, IsEnd(e, s)
    PROVE  IsEnd(Tail(e), s) /\ Head(e) = s[Len(s) - Len(e) + 1]
  <1>1. /\ Len(Tail(e)) = Len(e) - 1 /\ Len(s) \in Nat /\ Len(e) \in Nat \ {0}
        /\ \A i \in 1..(Len(e) - 1) : Tail(e)[i] = e[i + 1]
        /\ Head(e) = e[1]
    BY HeadTailProperties, LenProperties, EmptySeq
  <1>2. \A i \in 1..(Len(e) - 1) : Tail(e)[i] = s[Len(s) - (Len(e) - 1) + i]
    <2> SUFFICES ASSUME NEW i \in 1..(Len(e) - 1)
                 PROVE  Tail(e)[i] = s[Len(s) - (Len(e) - 1) + i]
      OBVIOUS
    <2>1. i + 1 \in 1..Len(e) /\ Len(s) - Len(e) + (i + 1) = Len(s) - (Len(e) - 1) + i
      BY <1>1
    <2>2. e[i + 1] = s[Len(s) - Len(e) + (i + 1)]
      BY <2>1 DEF IsEnd
    <2> QED BY <1>1, <2>1, <2>2
  <1>3. e[1] = s[Len(s) - Len(e) + 1]
    BY <1>1 DEF IsEnd
  <1> QED BY <1>1, <1>2, <1>3 DEF IsEnd

\* What counting the first change of request a makes of it.
Tallied(a, ok) == [a EXCEPT !.todo = Tail(@), !.count = IF ok THEN @ + 1 ELSE @]

Advanced(a, b, ok) ==
    /\ b.pc = a.pc /\ b.dev = a.dev /\ b.min = a.min /\ b.all = a.all
    /\ b.todo = Tail(a.todo) /\ Len(b.todo) = Len(a.todo) - 1
    /\ b.count = IF ok THEN a.count + 1 ELSE a.count
    /\ Head(a.todo) = a.all[Len(a.all) - Len(a.todo) + 1]

\* A request with one change less to do is consistent.
LEMMA TalliedFacts ==
    ASSUME NEW a \in Request, Consistent(a), a.todo # <<>>, NEW ok \in BOOLEAN,
           NEW b, b = Tallied(a, ok)
    PROVE  b \in Request /\ Consistent(b) /\ Advanced(a, b, ok)
  <1>1. /\ a.todo \in Seq(Change) /\ a.all \in Seq(Change) /\ a.count \in Nat
        /\ Len(a.all) \in Nat /\ Len(a.todo) \in Nat /\ a.count <= MaxChanges
    BY LenProperties, BoundsAssumption DEF Request
  <1>2. /\ Tail(a.todo) \in Seq(Change) /\ Len(Tail(a.todo)) = Len(a.todo) - 1
        /\ \A i \in 1..(Len(a.todo) - 1) : Tail(a.todo)[i] = a.todo[i + 1]
        /\ Head(a.todo) = a.todo[1] /\ Len(a.todo) > 0
    BY <1>1, HeadTailProperties, EmptySeq
  <1>3. /\ b.pc = a.pc /\ b.dev = a.dev /\ b.min = a.min /\ b.all = a.all
        /\ b.newTasks = a.newTasks /\ b.base = a.base
        /\ b.todo = Tail(a.todo) /\ b.count = IF ok THEN a.count + 1 ELSE a.count
    BY DEF Tallied, Request
  <1>4. b.count \in 0..MaxChanges
    <2>1. a.count + Len(a.todo) <= Len(a.all) /\ Len(a.all) <= MaxChanges
      BY DEF Consistent
    <2>2. a.count + 1 <= MaxChanges
      <3>1. PICK m \in Nat, l \in Nat, c \in Nat :
               m = Len(a.todo) /\ l = Len(a.all) /\ c = a.count
        BY <1>1
      <3>2. c + m <= l /\ l <= MaxChanges /\ m > 0
        BY <2>1, <3>1, <1>2, Zenon
      <3>3. m \in Nat /\ l \in Nat /\ c \in Nat
        BY <3>1
      <3>4. c + 1 <= MaxChanges
        BY <3>2, <3>3, BoundsAssumption
      <3> QED BY <3>1, <3>4, Zenon
    <2>3. CASE ok
      <3>1. b.count = a.count + 1
        BY <2>3, <1>3
      <3>2. \A c \in Nat : c + 1 <= MaxChanges => c + 1 \in 0..MaxChanges
        BY BoundsAssumption
      <3> QED BY <1>1, <2>2, <3>1, <3>2, Zenon
    <2>4. CASE ~ok
      <3>1. b.count = a.count
        BY <2>4, <1>3
      <3> QED BY <3>1 DEF Request
    <2> QED BY <2>3, <2>4
  <1>5. b \in Request
    BY <1>2, <1>3, <1>4 DEF Tallied, Request
  <1>6. b.count + Len(b.todo) <= Len(b.all)
    <2>1. a.count + Len(a.todo) <= Len(a.all) /\ Len(b.todo) = Len(a.todo) - 1
      BY <1>2, <1>3 DEF Consistent
    <2>2. \A c, m, l \in Nat : c + m <= l => (c + 1) + (m - 1) <= l /\ c + (m - 1) <= l
      OBVIOUS
    <2>3. /\ (a.count + 1) + (Len(a.todo) - 1) <= Len(a.all)
          /\ a.count + (Len(a.todo) - 1) <= Len(a.all)
      BY <1>1, <2>1, <2>2, Zenon
    <2>4. CASE ok
      BY <2>1, <2>3, <2>4, <1>3, Zenon
    <2>5. CASE ~ok
      BY <2>1, <2>3, <2>5, <1>3, Zenon
    <2> QED BY <2>4, <2>5
  <1>7. Distinct(b.todo)
    <2> SUFFICES ASSUME NEW i \in 1..Len(b.todo), NEW j \in 1..Len(b.todo),
                        b.todo[i].id = b.todo[j].id
                 PROVE  i = j
      BY DEF Distinct
    <2>1. i \in 1..(Len(a.todo) - 1) /\ j \in 1..(Len(a.todo) - 1)
      BY <1>2, <1>3
    <2>2. b.todo[i] = a.todo[i + 1] /\ b.todo[j] = a.todo[j + 1]
      BY <2>1, <1>2, <1>3
    <2>3. \A m \in Nat : \A x \in 1..(m - 1) : x + 1 \in 1..m
      OBVIOUS
    <2>4. i + 1 \in 1..Len(a.todo) /\ j + 1 \in 1..Len(a.todo)
      BY <2>1, <2>3, <1>1, Zenon
    <2>5. i + 1 = j + 1
      BY <2>2, <2>4 DEF Consistent, Distinct
    <2> QED BY <2>1, <2>5
  <1>8. IsEnd(Tail(a.todo), a.all) /\ Head(a.todo) = a.all[Len(a.all) - Len(a.todo) + 1]
    BY <1>1, EndFacts DEF Consistent
  <1>9. Consistent(b)
    <2>1. a.pc = "push"
      BY DEF Consistent
    <2>2. /\ b.pc # "free" => b.dev \in Devices
          /\ \A i \in 1..Len(b.all) : b.all[i].id[1] = b.dev
      BY <1>3 DEF Consistent
    <2>3. IsEnd(b.todo, b.all) /\ Len(b.all) <= MaxChanges
      BY <1>3, <1>8 DEF Consistent
    <2> QED BY <2>1, <2>2, <2>3, <1>3, <1>6, <1>7 DEF Consistent
  <1> QED BY <1>2, <1>3, <1>5, <1>8, <1>9 DEF Advanced

-----------------------------------------------------------------------------
(* The store *)

\* What a step of the store, or none, can do to it.
Moves ==
    /\ life' \in [Tasks -> {"absent", "live", "deleted"}]
    /\ DOMAIN tasks' = Tasks
    /\ \A t \in Tasks :
          /\ tasks'[t].version \in 0..MaxVersion
          /\ tasks[t].version <= tasks'[t].version
          /\ tasks[t].version > 0 => tasks'[t].owner = tasks[t].owner
          /\ life'[t] = "absent" => tasks'[t].version = 0

\* The store stays as it is.
LEMMA NoMove == ASSUME IInv, UNCHANGED <<life, tasks>> PROVE Moves
  <1>1. \A t \in Tasks : tasks[t].version \in Nat
    BY BoundsAssumption DEF IInv, TypeOK
  <1> QED BY <1>1 DEF IInv, TypeOK, Stored, Moves

\* Each operation of the store raises versions and keeps owners.
LEMMA StoreMoves ==
    ASSUME IInv, NEW t, NEW u,
           Store!Create(t, u, None) \/ Edit(t, u) \/ Store!Delete(t)
    PROVE  Moves
  <1>1. /\ life \in [Tasks -> {"absent", "live", "deleted"}] /\ DOMAIN tasks = Tasks
        /\ MaxVersion \in Nat \ {0}
        /\ \A s \in Tasks : tasks[s].version \in 0..MaxVersion
        /\ \A s \in Tasks : life[s] = "absent" => tasks[s].version = 0
    BY BoundsAssumption DEF IInv, TypeOK, Stored
  <1>2. CASE Store!Create(t, u, None)
    <2> DEFINE row == Store!Edited([Store!NoRow EXCEPT !.owner = u], u, {}, None)
    <2>1. row.version = 1
      BY DEF Store!Edited, Store!NoRow
    <2> HIDE DEF row
    <2>2. /\ life' = [life EXCEPT ![t] = "live"] /\ life[t] = "absent"
          /\ tasks' = [tasks EXCEPT ![t] = row]
      BY <1>2 DEF Store!Create, row
    <2>3. \A s \in Tasks :
             /\ tasks'[s] = IF s = t THEN row ELSE tasks[s]
             /\ life'[s] = IF s = t THEN "live" ELSE life[s]
      BY <1>1, <2>2
    <2>4. \A s \in Tasks : s = t => tasks[s].version = 0
      BY <1>1, <2>2
    <2>5. life' \in [Tasks -> {"absent", "live", "deleted"}] /\ DOMAIN tasks' = Tasks
      BY <1>1, <2>2
    <2>6. ASSUME NEW s \in Tasks
          PROVE  /\ tasks'[s].version \in 0..MaxVersion
                 /\ tasks[s].version <= tasks'[s].version
                 /\ tasks[s].version > 0 => tasks'[s].owner = tasks[s].owner
                 /\ life'[s] = "absent" => tasks'[s].version = 0
      <3>1. CASE s = t
        <4>1. tasks'[s] = row /\ life'[s] = "live" /\ tasks[s].version = 0
          BY <2>3, <2>4, <3>1
        <4> QED BY <1>1, <2>1, <4>1
      <3>2. CASE s # t
        <4>1. tasks'[s] = tasks[s] /\ life'[s] = life[s]
          BY <2>3, <3>2
        <4> QED BY <1>1, <4>1
      <3> QED BY <3>1, <3>2
    <2> QED BY <2>5, <2>6 DEF Moves
  <1>3. CASE Edit(t, u)
    <2> DEFINE row == Store!Edited(tasks[t], u, {}, None)
    <2>1. row.version = tasks[t].version + 1 /\ row.owner = tasks[t].owner
      BY DEF Store!Edited
    <2> HIDE DEF row
    <2>2. /\ UNCHANGED life /\ life[t] # "absent" /\ tasks[t].version < MaxVersion
          /\ tasks' = [tasks EXCEPT ![t] = row]
      BY <1>3 DEF Edit, Store!Edit, row
    <2> QED BY <1>1, <2>1, <2>2 DEF Moves
  <1>4. CASE Store!Delete(t)
    <2>1. life[t] = "live" /\ life' = [life EXCEPT ![t] = "deleted"] /\ UNCHANGED tasks
      BY <1>4 DEF Store!Delete
    <2>2. \A s \in Tasks : life'[s] = IF s = t THEN "deleted" ELSE life[s]
      BY <1>1, <2>1
    <2>3. life' \in [Tasks -> {"absent", "live", "deleted"}]
      BY <1>1, <2>1
    <2> QED BY <1>1, <2>1, <2>2, <2>3 DEF Moves
  <1> QED BY <1>2, <1>3, <1>4

-----------------------------------------------------------------------------
(* What requests and devices keep while others move *)

\* A request that stays as it is.
LEMMA RequestKept ==
    ASSUME IInv, Moves, Grows, NEW q \in Requests, req'[q] = req[q]
    PROVE  /\ Consistent(req[q])' /\ Credited(req[q])' /\ Answered(req[q])'
           /\ req'[q] \in Request
  <1>1. req[q] \in Request /\ Consistent(req[q]) /\ Credited(req[q]) /\ Answered(req[q])
    BY DEF IInv, TypeOK
  <1>2. Consistent(req[q])'
    BY <1>1 DEF Consistent
  <1>3. Credited(req[q])'
    <2> SUFFICES ASSUME req[q].count + Len(req[q].todo) = Len(req[q].all),
                        NEW i \in 1..(Len(req[q].all) - Len(req[q].todo))
                 PROVE  Done(req[q].all[i])'
      BY DEF Credited
    <2>1. i \in 1..Len(req[q].all)
      BY <1>1, LenProperties DEF Request
    <2>2. req[q].all[i] \in Change
      <3>1. req[q].all \in Seq(Change)
        BY <1>1 DEF Request
      <3> QED BY <2>1, <3>1, ElementOfSeq
    <2>3. Done(req[q].all[i])
      BY <1>1 DEF Credited
    <2>4. PICK ch \in Change : ch = req[q].all[i]
      BY <2>2
    <2>5. Done(ch)'
      BY <2>3, <2>4, DoneKept
    <2>6. ch = req'[q].all[i]
      BY <2>4
    <2> QED BY <2>5, <2>6 DEF Done
  <1>4. Answered(req[q])'
    <2> SUFFICES ASSUME req[q].pc = "answer", NEW t \in Tasks
                 PROVE  /\ req[q].newTasks[t] # 0 => req[q].newTasks[t] = req[q].base[t]
                        /\ req[q].base[t] > req[q].min =>
                              req[q].newTasks[t] = req[q].base[t] \/ req[q].cut
                        /\ req[q].base[t] <= tasks'[t].version
                        /\ req[q].base[t] > 0 => tasks'[t].owner = UserOf[req[q].dev]
      BY DEF Answered
    <2>1. /\ req[q].newTasks[t] # 0 => req[q].newTasks[t] = req[q].base[t]
          /\ req[q].base[t] > req[q].min => req[q].newTasks[t] = req[q].base[t] \/ req[q].cut
          /\ req[q].base[t] <= tasks[t].version
          /\ req[q].base[t] > 0 => tasks[t].owner = UserOf[req[q].dev]
      BY <1>1 DEF Answered
    <2>2. req[q].base[t] \in Nat /\ tasks[t].version \in Nat /\ tasks'[t].version \in Nat
      <3>1. req[q].base[t] \in 0..MaxVersion
        BY <1>1 DEF Request, Versions
      <3>2. tasks[t].version \in 0..MaxVersion
        BY DEF IInv, TypeOK
      <3>3. tasks'[t].version \in 0..MaxVersion
        BY DEF Moves
      <3> QED BY <3>1, <3>2, <3>3, BoundsAssumption
    <2>3. /\ tasks[t].version <= tasks'[t].version
          /\ tasks[t].version > 0 => tasks'[t].owner = tasks[t].owner
      BY DEF Moves
    <2> QED BY <2>1, <2>2, <2>3
  <1> QED BY <1>1, <1>2, <1>3, <1>4

\* The copies while the store moves.
LEMMA CopiesKept ==
    ASSUME IInv, Moves, UNCHANGED <<copy, seen, base, cut>>
    PROVE  Stored' /\ MissedOnlyBelow'
  <1>1. \A d \in Devices, t \in Tasks :
          /\ copy[d][t] \in Nat /\ tasks[t].version \in Nat /\ tasks'[t].version \in Nat
          /\ copy[d][t] <= tasks[t].version /\ tasks[t].version <= tasks'[t].version
          /\ tasks[t].version > 0 => tasks'[t].owner = tasks[t].owner
          /\ copy[d][t] > 0 => tasks[t].owner = UserOf[d]
          /\ copy[d][t] = base[d][t] \/ base[d][t] <= seen[d] \/ cut[d]
    BY BoundsAssumption DEF IInv, TypeOK, Versions, Stored, Moves, MissedOnlyBelow
  <1>2. Stored'
    BY <1>1 DEF Moves, Stored
  <1>3. MissedOnlyBelow'
    BY <1>1 DEF MissedOnlyBelow
  <1> QED BY <1>2, <1>3

\* A device whose request stays as it is, or is not there.
LEMMA DeviceKept ==
    ASSUME IInv, NEW d \in Devices, UNCHANGED <<copy, seen, queue, made>>,
           wait'[d] # None => wait'[d] = wait[d] /\ req'[wait[d]] = req[wait[d]]
    PROVE  Awaited(d)' /\ Numbered(d)'
  <1>1. Awaited(d) /\ Numbered(d)
    BY DEF IInv
  <1>2. Awaited(d)'
    BY <1>1 DEF Awaited
  <1>3. Numbered(d)'
    BY <1>1 DEF Numbered
  <1> QED BY <1>2, <1>3

-----------------------------------------------------------------------------
(* What retries repeat *)

\* The budget bounds what took effect.
LEMMA BudgetTypes ==
    ASSUME Budget', effects' \in [Ids -> Nat], partial' \in [Ids -> Nat],
           carried' \in [Ids -> Nat], sends' \in [Devices -> 0..MaxSends]
    PROVE  /\ effects' \in [Ids -> 0..MaxSends] /\ partial' \in [Ids -> 0..MaxSends]
           /\ carried' \in [Ids -> 0..MaxSends]
  <1>1. ASSUME NEW c \in Ids
        PROVE  effects'[c] \in 0..MaxSends /\ partial'[c] \in 0..MaxSends /\ carried'[c] \in 0..MaxSends
    <2>1. Cardinality(Pending(c)') \in Nat
      BY FS_CardinalityType DEF Budget
    <2>2. sends'[c[1]] \in 0..MaxSends
      BY DEF Ids
    <2>3. /\ effects'[c] + partial'[c] + Cardinality(Pending(c)') <= carried'[c]
          /\ carried'[c] <= sends'[c[1]]
      BY DEF Budget
    <2>4. effects'[c] \in Nat /\ partial'[c] \in Nat /\ carried'[c] \in Nat
      OBVIOUS
    <2>5. \A x, y, k, n, m, b \in Nat : x + y + k <= n /\ n <= m /\ m <= b =>
             x \in 0..b /\ y \in 0..b /\ n \in 0..b
      OBVIOUS
    <2>6. sends'[c[1]] \in Nat /\ sends'[c[1]] <= MaxSends /\ MaxSends \in Nat
      BY <2>2, BoundsAssumption
    <2> QED BY <2>1, <2>3, <2>4, <2>5, <2>6, Zenon
  <1> QED BY <1>1

\* No request has more to do than before.
LEMMA BudgetLess ==
    ASSUME IInv, UNCHANGED <<effects, partial, carried, sends>>,
           \A q \in Requests : req'[q].todo = req[q].todo \/ req'[q].todo = <<>>
    PROVE  Budget'
  <1> SUFFICES ASSUME NEW c \in Ids
               PROVE  /\ IsFiniteSet(Pending(c)')
                      /\ effects[c] + partial[c] + Cardinality(Pending(c)') <= carried[c]
                      /\ carried[c] <= sends[c[1]]
    BY DEF Budget
  <1>1. Pending(c)' \subseteq Pending(c)
    <2>1. Len(<<>>) = 0 /\ 1..0 = {}
      BY EmptySeq
    <2> QED BY <2>1 DEF Pending
  <1>2. /\ IsFiniteSet(Pending(c)) /\ carried[c] <= sends[c[1]]
        /\ effects[c] + partial[c] + Cardinality(Pending(c)) <= carried[c]
    BY DEF IInv, Budget
  <1>3. IsFiniteSet(Pending(c)') /\ Cardinality(Pending(c)') <= Cardinality(Pending(c))
    BY <1>1, <1>2, FS_Subset
  <1>4. effects[c] \in Nat /\ partial[c] \in Nat /\ carried[c] \in Nat
    BY Tallies
  <1>5. Cardinality(Pending(c)) \in Nat /\ Cardinality(Pending(c)') \in Nat
    BY <1>2, <1>3, FS_CardinalityType
  <1>6. \A x, y, k, l, n \in Nat : x + y + k <= n /\ l <= k => x + y + l <= n
    OBVIOUS
  <1>7. effects[c] + partial[c] + Cardinality(Pending(c)') <= carried[c]
    BY <1>2, <1>3, <1>4, <1>5, <1>6, Zenon
  <1> QED BY <1>2, <1>3, <1>7

\* Request q has executed its first change, which took effect or not.
LEMMA BudgetSpent ==
    ASSUME IInv, NEW q \in Requests, req[q].todo # <<>>, UNCHANGED <<sends, carried>>,
           req'[q].todo = Tail(req[q].todo),
           \A s \in Requests \ {q} : req'[s] = req[s],
           UNCHANGED <<effects, partial>> \/ TookEffect(q)
    PROVE  Budget' /\ Grows
  <1> DEFINE todo == req[q].todo
             h == Head(todo).id
  <1>1. todo \in Seq(Change) /\ Distinct(todo)
    BY DEF IInv, TypeOK, Request, Consistent
  <1>2. /\ Head(todo) = todo[1] /\ Len(todo) \in Nat /\ 1 \in 1..Len(todo)
        /\ Len(Tail(todo)) = Len(todo) - 1
        /\ \A i \in 1..(Len(todo) - 1) : Tail(todo)[i] = todo[i + 1]
        /\ h \in Ids
    BY <1>1, HeadTailProperties, EmptySeq, LenProperties, ChangeFacts
  <1>3. effects \in [Ids -> Nat] /\ partial \in [Ids -> Nat]
    BY Tallies
  <1>4. /\ effects' \in [Ids -> Nat] /\ partial' \in [Ids -> Nat]
        /\ \A c \in Ids :
              \/ effects'[c] = effects[c] /\ partial'[c] = partial[c]
              \/ c = h /\ effects'[c] = effects[c] + 1 /\ partial'[c] = partial[c]
              \/ c = h /\ effects'[c] = effects[c] /\ partial'[c] = partial[c] + 1
    <2>1. CASE UNCHANGED <<effects, partial>>
      BY <1>3, <2>1
    <2>2. CASE TookEffect(q)
      <3>1. CASE Head(todo).decodes
        <4>1. effects' = [effects EXCEPT ![h] = @ + 1] /\ partial' = partial
          BY <1>2, <1>3, <2>2, <3>1 DEF TookEffect
        <4> HIDE DEF h, todo
        <4> QED BY <4>1, <1>2, <1>3
      <3>2. CASE ~Head(todo).decodes
        <4>1. partial' = [partial EXCEPT ![h] = @ + 1] /\ effects' = effects
          BY <1>2, <1>3, <2>2, <3>2 DEF TookEffect
        <4> HIDE DEF h, todo
        <4> QED BY <4>1, <1>2, <1>3
      <3> QED BY <3>1, <3>2
    <2> QED BY <2>1, <2>2
  <1>5. \A c \in Ids : q \in Pending(c)' => q \in Pending(c) /\ c # h
    <2> SUFFICES ASSUME NEW c \in Ids, NEW i \in 1..Len(Tail(todo)), Tail(todo)[i].id = c
                 PROVE  q \in Pending(c) /\ c # h
      BY DEF Pending
    <2>1. i + 1 \in 1..Len(todo) /\ todo[i + 1].id = c /\ i + 1 # 1
      BY <1>2
    <2> QED BY <1>1, <1>2, <2>1 DEF Pending, Distinct
  <1>6. q \in Pending(h)
    BY <1>2 DEF Pending
  <1> HIDE DEF h
  <1>7. ASSUME NEW c \in Ids
        PROVE  /\ IsFiniteSet(Pending(c)') /\ carried[c] <= sends[c[1]]
               /\ effects'[c] + partial'[c] + Cardinality(Pending(c)') <= carried[c]
    <2>1. /\ IsFiniteSet(Pending(c)) /\ carried[c] <= sends[c[1]]
          /\ effects[c] + partial[c] + Cardinality(Pending(c)) <= carried[c]
      BY DEF IInv, Budget
    <2>2. /\ Cardinality(Pending(c)) \in Nat /\ carried[c] \in Nat
          /\ effects[c] \in Nat /\ partial[c] \in Nat
      BY <2>1, FS_CardinalityType, Tallies
    <2>3. Pending(c)' \subseteq Pending(c)
      <3>1. \A s \in Requests \ {q} : s \in Pending(c)' => s \in Pending(c)
        BY DEF Pending
      <3>2. Pending(c)' \subseteq Requests
        BY DEF Pending
      <3> QED BY <1>5, <3>1, <3>2
    <2>4. CASE c # h
      <3>1. effects'[c] = effects[c] /\ partial'[c] = partial[c]
        BY <1>4, <2>4
      <3>2. IsFiniteSet(Pending(c)') /\ Cardinality(Pending(c)') <= Cardinality(Pending(c))
        BY <2>1, <2>3, FS_Subset
      <3>3. Cardinality(Pending(c)') \in Nat
        BY <3>2, FS_CardinalityType
      <3>4. \A x, y, k, l, n \in Nat : x + y + k <= n /\ l <= k => x + y + l <= n
        OBVIOUS
      <3>5. effects[c] + partial[c] + Cardinality(Pending(c)') <= carried[c]
        BY <2>1, <2>2, <3>2, <3>3, <3>4, Zenon
      <3> QED BY <2>1, <3>1, <3>2, <3>5
    <2>5. CASE c = h
      <3>1. q \in Pending(c) /\ q \notin Pending(c)'
        BY <1>5, <1>6, <2>5
      <3>2. Pending(c)' \in SUBSET (Pending(c) \ {q})
        BY <2>3, <3>1
      <3>3. /\ IsFiniteSet(Pending(c) \ {q})
            /\ Cardinality(Pending(c) \ {q}) = Cardinality(Pending(c)) - 1
        BY <2>1, <3>1, FS_RemoveElement
      <3>4. /\ IsFiniteSet(Pending(c)')
            /\ Cardinality(Pending(c)') <= Cardinality(Pending(c)) - 1
        BY <3>2, <3>3, FS_Subset
      <3>5. Cardinality(Pending(c)') \in Nat /\ effects'[c] \in Nat /\ partial'[c] \in Nat
        BY <1>4, <3>4, FS_CardinalityType
      <3>6. effects'[c] + partial'[c] <= effects[c] + partial[c] + 1
        <4>1. \A x, y \in Nat : /\ x + y <= x + y + 1 /\ (x + 1) + y <= x + y + 1
                               /\ x + (y + 1) <= x + y + 1
          OBVIOUS
        <4> QED BY <1>4, <2>2, <4>1, Zenon
      <3>7. PICK x \in Nat, y \in Nat, v \in Nat, w \in Nat, k \in Nat, l \in Nat, n \in Nat :
               /\ x = effects[c] /\ y = partial[c] /\ v = effects'[c] /\ w = partial'[c]
               /\ k = Cardinality(Pending(c)) /\ l = Cardinality(Pending(c)') /\ n = carried[c]
        BY <2>2, <3>5, Zenon
      <3>a. x + y + k <= n /\ v + w <= x + y + 1 /\ l <= k - 1
        BY <2>1, <3>4, <3>6, <3>7, Zenon
      <3>b. v + w + l <= n
        BY <3>a
      <3>8. effects'[c] + partial'[c] + Cardinality(Pending(c)') <= carried[c]
        BY <3>7, <3>b, Zenon
      <3> QED BY <2>1, <3>4, <3>8
    <2> QED BY <2>4, <2>5
  <1>8. Budget'
    BY <1>7 DEF Budget
  <1>9. \A c \in Ids : effects[c] <= effects'[c] /\ partial[c] <= partial'[c]
    <2>1. \A x \in Nat : x <= x /\ x <= x + 1
      OBVIOUS
    <2> QED BY <1>3, <1>4, <2>1, Zenon
  <1> QED BY <1>4, <1>8, <1>9 DEF Grows

-----------------------------------------------------------------------------
(* What a count tells *)

\* A change that takes effect is done.
LEMMA TookIsDone ==
    ASSUME IInv, NEW q \in Requests, TookEffect(q), NEW ch \in Change, ch = Head(req[q].todo)
    PROVE  Done(ch)'
  <1>1. ch.id \in Ids /\ ch.decodes \in BOOLEAN
    BY ChangeFacts
  <1>2. effects \in [Ids -> Nat] /\ partial \in [Ids -> Nat]
    BY Tallies
  <1>3. /\ effects' = [effects EXCEPT ![ch.id] = IF ch.decodes THEN @ + 1 ELSE @]
        /\ partial' = [partial EXCEPT ![ch.id] = IF ch.decodes THEN @ ELSE @ + 1]
    BY DEF TookEffect
  <1>4. CASE ch.decodes
    <2>1. effects'[ch.id] = effects[ch.id] + 1
      BY <1>1, <1>2, <1>3, <1>4
    <2>2. effects'[ch.id] > 0
      BY <1>1, <1>2, <2>1
    <2> QED BY <1>4, <2>2 DEF Done
  <1>5. CASE ~ch.decodes
    <2>1. partial'[ch.id] = partial[ch.id] + 1
      BY <1>1, <1>2, <1>3, <1>5
    <2>2. partial'[ch.id] > 0
      BY <1>1, <1>2, <2>1
    <2> QED BY <1>5, <2>2 DEF Done
  <1> QED BY <1>4, <1>5

\* The changes so far have all been counted after one more step only if they
\* had been before it and this one succeeded.
LEMMA CreditedNext ==
    ASSUME IInv, NEW q \in Requests, NEW ok \in BOOLEAN,
           NEW a \in Request, a = req[q], Consistent(a), Credited(a), a.todo # <<>>,
           NEW b, Advanced(a, b, ok), Grows,
           ok => Head(a.todo).type = "OTHER" \/ TookEffect(q)
    PROVE  Credited(b)'
  <1> SUFFICES ASSUME b.count + Len(b.todo) = Len(b.all),
                      NEW i \in 1..(Len(b.all) - Len(b.todo))
               PROVE  Done(b.all[i])'
    BY DEF Credited
  <1>0. /\ b.all = a.all /\ Len(b.todo) = Len(a.todo) - 1
        /\ b.count = IF ok THEN a.count + 1 ELSE a.count
        /\ Head(a.todo) = a.all[Len(a.all) - Len(a.todo) + 1]
    BY DEF Advanced
  <1>1. a.all \in Seq(Change) /\ a.todo \in Seq(Change)
    BY DEF Request
  <1>a. PICK n \in Nat : n = Len(a.all)
    BY <1>1, LenProperties
  <1>b. PICK m \in Nat : m + 1 = Len(a.todo)
    <2>1. Len(a.todo) \in Nat \ {0}
      BY <1>1, EmptySeq
    <2>2. \A x \in Nat \ {0} : x - 1 \in Nat /\ (x - 1) + 1 = x
      OBVIOUS
    <2> QED BY <2>1, <2>2, Zenon
  <1>c. PICK k \in Nat : k = a.count
    BY BoundsAssumption DEF Request
  <1>2. m + 1 <= n /\ k + (m + 1) <= n
    BY <1>a, <1>b, <1>c DEF Consistent, IsEnd
  <1>3. ok /\ k + (m + 1) = n /\ i \in 1..(n - m)
    <2>1. Len(b.todo) = m
      BY <1>0, <1>b
    <2>2. (IF ok THEN k + 1 ELSE k) + m = n /\ i \in 1..(n - m)
      BY <2>1, <1>0, <1>c, <1>a
    <2>5. k \in Nat /\ n \in Nat /\ m \in Nat
      BY <1>a, <1>b, <1>c
    <2>3. CASE ok
      <3>1. (k + 1) + m = n
        BY <2>2, <2>3
      <3>2. k + (m + 1) = n
        BY <3>1, <2>5
      <3> QED BY <2>2, <2>3, <3>2
    <2>4. CASE ~ok
      <3>1. k + m = n
        BY <2>2, <2>4
      <3> QED BY <3>1, <1>2, <1>a, <1>b, <1>c
    <2> QED BY <2>3, <2>4
  <1>d. n \in Nat /\ m \in Nat
    BY <1>a, <1>b
  <1>5. CASE i = n - m
    <2>1. b.all[i] = Head(a.todo) /\ Head(a.todo) \in Change
      <3>1. Len(a.all) - Len(a.todo) + 1 = n - m
        <4>1. n - (m + 1) + 1 = n - m
          BY <1>d
        <4> QED BY <4>1, <1>a, <1>b, Zenon
      <3>2. Head(a.todo) \in Change
        BY <1>1, <1>b, HeadTailProperties
      <3> QED BY <3>1, <3>2, <1>0, <1>5
    <2>2. PICK ch \in Change : ch = b.all[i]
      BY <2>1
    <2>3. ch = Head(req[q].todo)
      BY <2>1, <2>2, Zenon
    <2>4. TookEffect(q) => Done(ch)'
      BY <2>3, TookIsDone
    <2>5. ch.type = "OTHER" => Done(ch)'
      BY DEF Done
    <2>6. ch.type = "OTHER" \/ TookEffect(q)
      BY <1>3, <2>3, Zenon
    <2>7. Done(ch)'
      BY <2>4, <2>5, <2>6
    <2> QED BY <2>2, <2>7 DEF Done
  <1>6. CASE i # n - m
    <2>1. i \in 1..(n - (m + 1)) /\ i \in 1..n
      BY <1>2, <1>3, <1>d, <1>6
    <2>2. Done(a.all[i])
      BY <2>1, <1>3, <1>a, <1>b, <1>c DEF Credited
    <2>3. a.all[i] \in Change
      BY <2>1, <1>1, <1>a, ElementOfSeq
    <2>4. PICK ch \in Change : ch = a.all[i]
      BY <2>3
    <2>5. Done(ch)'
      BY <2>2, <2>4, DoneKept
    <2>6. b.all[i] = ch
      BY <1>0, <2>4, Zenon
    <2> QED BY <2>5, <2>6 DEF Done
  <1> QED BY <1>5, <1>6

-----------------------------------------------------------------------------
(* The server's steps *)

\* One change is executed or fails.
LEMMA ExecuteStep ==
    ASSUME IInv, NEW q \in Requests, NEW ok \in BOOLEAN,
           req[q].pc = "push", req[q].todo # <<>>, Counted(q, ok),
           Moves, UNCHANGED device, UNCHANGED <<effects, partial>> \/ TookEffect(q),
           ok => Head(req[q].todo).type = "OTHER" \/ TookEffect(q)
    PROVE  IInv'
  <1>1. req[q] \in Request /\ Consistent(req[q]) /\ Credited(req[q])
    BY DEF IInv, TypeOK
  <1>2. PICK a \in Request : a = req[q]
    BY <1>1
  <1>3. PICK b : b = req'[q]
    OBVIOUS
  <1>4. /\ b = Tallied(a, ok) /\ req' = [req EXCEPT ![q] = b]
        /\ \A s \in Requests \ {q} : req'[s] = req[s]
    <2>1. req' = [req EXCEPT ![q] = Tallied(req[q], ok)]
      BY DEF Counted, Tallied
    <2> HIDE DEF Tallied
    <2>2. req \in [Requests -> Request]
      BY DEF IInv, TypeOK
    <2> QED BY <2>1, <2>2, <1>2, <1>3
  <1>5. b \in Request /\ Consistent(b) /\ Advanced(a, b, ok)
    <2>1. Consistent(a) /\ a.todo # <<>>
      BY <1>1, <1>2
    <2> QED BY <2>1, <1>2, <1>4, TalliedFacts
  <1>6. Budget' /\ Grows
    <2>1. req[q].todo # <<>> /\ req'[q].todo = Tail(req[q].todo) /\ UNCHANGED <<sends, carried>>
      BY <1>2, <1>3, <1>5 DEF device, Advanced
    <2> QED BY <2>1, <1>4, BudgetSpent
  <1>7. Credited(b)'
    BY <1>1, <1>2, <1>5, <1>6, CreditedNext
  <1>8. Answered(b)'
    BY <1>2, <1>5 DEF Answered, Advanced
  <1>9. ASSUME NEW s \in Requests
        PROVE  Consistent(req[s])' /\ Credited(req[s])' /\ Answered(req[s])' /\ req'[s] \in Request
    <2>1. CASE s = q
      BY <2>1, <1>3, <1>5, <1>7, <1>8
    <2>2. CASE s # q
      BY <2>2, <1>4, <1>6, RequestKept
    <2> QED BY <2>1, <2>2
  <1>10. ASSUME NEW d \in Devices PROVE Awaited(d)' /\ Numbered(d)'
    <2>1. CASE wait[d] = q
      <3>1. Awaited(d) /\ q # None
        BY NoneAssumption DEF IInv
      <3>2. b.pc = "push" /\ b.dev = d /\ b.min = seen[d]
        BY <3>1, <2>1, <1>2, <1>5 DEF Awaited, Advanced
      <3>3. wait'[d] = q /\ seen' = seen
        BY <2>1 DEF device
      <3>4. Awaited(d)'
        BY <3>2, <3>3, <1>3 DEF Awaited
      <3>5. Numbered(d)'
        BY DEF IInv, Numbered, device
      <3> QED BY <3>4, <3>5
    <2>2. CASE wait[d] # q
      <3>1. wait' = wait /\ (wait[d] # None => wait[d] \in Requests \ {q})
        BY <2>2 DEF device, IInv, TypeOK
      <3>2. wait'[d] # None => wait'[d] = wait[d] /\ req'[wait[d]] = req[wait[d]]
        BY <3>1, <1>4
      <3> QED BY <3>2, DeviceKept DEF device
    <2> QED BY <2>1, <2>2
  <1>11. Stored' /\ MissedOnlyBelow'
    BY CopiesKept DEF device
  <1>12. TypeOK'
    <2>1. /\ effects' \in [Ids -> 0..MaxSends] /\ partial' \in [Ids -> 0..MaxSends]
          /\ carried' \in [Ids -> 0..MaxSends]
      <3>1. sends' \in [Devices -> 0..MaxSends] /\ carried' \in [Ids -> Nat]
        BY Tallies DEF IInv, TypeOK, device
      <3> QED BY <3>1, <1>6, BudgetTypes DEF Grows
    <2>2. req' \in [Requests -> Request]
      BY <1>9, <1>4 DEF IInv, TypeOK
    <2> QED BY <2>1, <2>2 DEF IInv, TypeOK, Moves, device
  <1> QED BY <1>6, <1>9, <1>10, <1>11, <1>12 DEF IInv

\* A request that ends.
LEMMA FreeIsKept ==
    ASSUME NEW q, req'[q] = Free
    PROVE  Consistent(req[q])' /\ Credited(req[q])' /\ Answered(req[q])'
  <1>1. Consistent(req'[q]) /\ req'[q].pc = "free" /\ req'[q].all = <<>> /\ req'[q].todo = <<>>
    BY FreeFacts
  <1>2. Len(<<>>) = 0 /\ 1..(0 - 0) = {}
    BY EmptySeq
  <1>3. Credited(req[q])'
    BY <1>1, <1>2 DEF Credited
  <1>4. Answered(req[q])'
    BY <1>1 DEF Answered
  <1>5. Consistent(req[q])'
    BY <1>1 DEF Consistent
  <1> QED BY <1>3, <1>4, <1>5

\* The answer is computed from the store as it is.
LEMMA ListStep ==
    ASSUME IInv, NEW q \in Requests, ListChanges(q) PROVE IInv'
  <1>1. req[q] \in Request /\ Consistent(req[q]) /\ Credited(req[q])
    BY DEF IInv, TypeOK
  <1>2. PICK a \in Request : a = req[q]
    BY <1>1
  <1>3. PICK b : b = req'[q]
    OBVIOUS
  <1> DEFINE sel == {t \in Tasks : Selected(t, UserOf[a.dev], a.min)}
             new(part) == [t \in Tasks |-> IF t \in part THEN tasks[t].version ELSE 0]
             all == [t \in Tasks |-> IF tasks[t].owner = UserOf[a.dev] THEN tasks[t].version ELSE 0]
  <1>4. PICK part \in SUBSET sel :
          /\ b = [a EXCEPT !.pc = "answer", !.newTasks = new(part), !.base = all,
                           !.cut = (part # sel)]
          /\ req' = [req EXCEPT ![q] = b] /\ a.pc = "push" /\ a.todo = <<>>
          /\ \A s \in Requests \ {q} : req'[s] = req[s]
    <2>1. req \in [Requests -> Request]
      BY DEF IInv, TypeOK
    <2>2. a.pc = "push" /\ a.todo = <<>>
      BY <1>2 DEF ListChanges
    <2>3. PICK part \in SUBSET {t \in Tasks : Selected(t, UserOf[req[q].dev], req[q].min)} :
             req' = [req EXCEPT ![q].pc = "answer",
                ![q].newTasks = [t \in Tasks |-> IF t \in part THEN tasks[t].version ELSE 0],
                ![q].base = [t \in Tasks |-> IF tasks[t].owner = UserOf[req[q].dev]
                                             THEN tasks[t].version ELSE 0],
                ![q].cut = (part # {t \in Tasks : Selected(t, UserOf[req[q].dev], req[q].min)})]
      BY Zenon DEF ListChanges
    <2>4. part \in SUBSET sel
      BY <2>3, <1>2
    <2>5. req' = [req EXCEPT ![q].pc = "answer", ![q].newTasks = new(part),
                             ![q].base = all, ![q].cut = (part # sel)]
      BY <2>3, <1>2, Zenon
    <2> HIDE DEF sel, new, all
    <2>6. req' = [req EXCEPT ![q] = [a EXCEPT !.pc = "answer", !.newTasks = new(part),
                                              !.base = all, !.cut = (part # sel)]]
      BY <2>1, <2>5, <1>2
    <2>7. /\ b = [a EXCEPT !.pc = "answer", !.newTasks = new(part), !.base = all,
                           !.cut = (part # sel)]
          /\ req' = [req EXCEPT ![q] = b]
          /\ \A s \in Requests \ {q} : req'[s] = req[s]
      BY <2>1, <2>6, <1>3
    <2> QED BY <2>2, <2>4, <2>7
  <1>5. new(part) \in Versions /\ all \in Versions
    <2>1. \A t \in Tasks : tasks[t].version \in 0..MaxVersion
      BY DEF IInv, TypeOK
    <2> QED BY <2>1, BoundsAssumption DEF Versions
  <1>10. \A t \in Tasks : /\ all[t] = IF tasks[t].owner = UserOf[a.dev] THEN tasks[t].version ELSE 0
                          /\ new(part)[t] # 0 => new(part)[t] = all[t]
                          /\ all[t] > a.min => new(part)[t] = all[t] \/ part # sel
                          /\ all[t] \in Nat /\ tasks[t].version \in Nat
    <2>1. \A t \in Tasks : tasks[t].version \in Nat
      BY BoundsAssumption DEF IInv, TypeOK
    <2>2. a.min \in Nat
      BY BoundsAssumption DEF Request
    <2>3. ASSUME NEW t \in Tasks
          PROVE  /\ all[t] = IF tasks[t].owner = UserOf[a.dev] THEN tasks[t].version ELSE 0
                 /\ new(part)[t] # 0 => new(part)[t] = all[t]
                 /\ all[t] > a.min => new(part)[t] = all[t] \/ part # sel
      <3>1. all[t] = IF tasks[t].owner = UserOf[a.dev] THEN tasks[t].version ELSE 0
        OBVIOUS
      <3>2. new(part)[t] = IF t \in part THEN tasks[t].version ELSE 0
        OBVIOUS
      <3>3. t \in sel <=> tasks[t].owner = UserOf[a.dev] /\ tasks[t].version > a.min
        BY DEF Selected
      <3>4. all[t] > a.min => t \in sel
        BY <2>1, <2>2, <3>1, <3>3
      <3> HIDE DEF sel, new, all
      <3> QED BY <3>1, <3>2, <3>3, <3>4, <1>4
    <2>4. \A t \in Tasks : all[t] \in Nat
      BY <2>1, <2>3
    <2> HIDE DEF sel, new, all
    <2> QED BY <2>1, <2>3, <2>4
  <1> HIDE DEF sel, new, all
  <1>6. /\ b.pc = "answer" /\ b.dev = a.dev /\ b.min = a.min /\ b.all = a.all
        /\ b.todo = a.todo /\ b.count = a.count /\ b.newTasks = new(part) /\ b.base = all
        /\ b.cut = (part # sel) /\ b \in Request
    BY <1>4, <1>5 DEF Request
  <1>7. Consistent(b)
    BY <1>1, <1>2, <1>4, <1>6 DEF Consistent
  <1>8. Credited(b)'
    BY <1>1, <1>2, <1>6 DEF Credited, Done, ListChanges
  <1>9. UNCHANGED <<life, tasks, device, effects, partial>> /\ Moves
    BY NoMove DEF ListChanges
  <1>11. Answered(b)'
    <2>1. ASSUME NEW t \in Tasks
          PROVE  /\ b.newTasks[t] # 0 => b.newTasks[t] = b.base[t]
                 /\ b.base[t] > b.min => b.newTasks[t] = b.base[t] \/ b.cut
                 /\ b.base[t] <= tasks[t].version
                 /\ b.base[t] > 0 => tasks[t].owner = UserOf[b.dev]
      <3>1. b.newTasks[t] # 0 => b.newTasks[t] = b.base[t]
        BY <1>6, <1>10, Zenon
      <3>2. b.base[t] > b.min => b.newTasks[t] = b.base[t] \/ b.cut
        BY <1>6, <1>10, Zenon
      <3>3. b.base[t] = all[t] /\ b.dev = a.dev
        BY <1>6, Zenon
      <3>4. all[t] <= tasks[t].version /\ (all[t] > 0 => tasks[t].owner = UserOf[a.dev])
        BY <1>10
      <3> QED BY <3>1, <3>2, <3>3, <3>4
    <2>2. tasks' = tasks
      BY <1>9
    <2> QED BY <2>1, <2>2 DEF Answered
  <1>12. Grows
    BY <1>9, SameTallies
  <1>13. ASSUME NEW s \in Requests
         PROVE  Consistent(req[s])' /\ Credited(req[s])' /\ Answered(req[s])' /\ req'[s] \in Request
    <2>1. CASE s = q
      BY <2>1, <1>3, <1>6, <1>7, <1>8, <1>11
    <2>2. CASE s # q
      BY <2>2, <1>4, <1>9, <1>12, RequestKept
    <2> QED BY <2>1, <2>2
  <1>14. ASSUME NEW d \in Devices PROVE Awaited(d)' /\ Numbered(d)'
    <2>1. CASE wait[d] = q
      <3>1. Awaited(d) /\ q # None
        BY NoneAssumption DEF IInv
      <3>2. b.dev = d /\ b.min = seen[d]
        BY <3>1, <2>1, <1>2, <1>6 DEF Awaited
      <3>3. \A t \in Tasks : copy[d][t] <= all[t]
        <4> SUFFICES ASSUME NEW t \in Tasks PROVE copy[d][t] <= all[t]
          OBVIOUS
        <4>1. /\ copy[d][t] \in Nat /\ copy[d][t] <= tasks[t].version
              /\ copy[d][t] > 0 => tasks[t].owner = UserOf[d]
          BY BoundsAssumption DEF IInv, TypeOK, Versions, Stored, MissedOnlyBelow
        <4> QED BY <4>1, <3>2, <1>6, <1>10
      <3>4. wait'[d] = q /\ seen' = seen /\ copy' = copy
        BY <2>1, <1>9 DEF device
      <3>5. Awaited(d)'
        BY <3>2, <3>3, <3>4, <1>3, <1>6 DEF Awaited
      <3>6. Numbered(d)'
        BY <1>9 DEF IInv, Numbered, device
      <3> QED BY <3>5, <3>6
    <2>2. CASE wait[d] # q
      <3>1. wait' = wait /\ (wait[d] # None => wait[d] \in Requests \ {q})
        BY <2>2, <1>9 DEF device, IInv, TypeOK
      <3>2. wait'[d] # None => wait'[d] = wait[d] /\ req'[wait[d]] = req[wait[d]]
        BY <3>1, <1>4
      <3> QED BY <3>2, <1>9, DeviceKept DEF device
    <2> QED BY <2>1, <2>2
  <1>15. Stored' /\ MissedOnlyBelow'
    BY <1>9, CopiesKept DEF device
  <1>16. Budget'
    <2>1. \A s \in Requests : req'[s].todo = req[s].todo
      BY <1>2, <1>3, <1>4, <1>6
    <2> QED BY <2>1, <1>9, BudgetLess DEF device
  <1>17. TypeOK'
    <2>1. req' \in [Requests -> Request]
      BY <1>4, <1>13 DEF IInv, TypeOK
    <2> QED BY <2>1, <1>9 DEF IInv, TypeOK, device
  <1> QED BY <1>13, <1>14, <1>15, <1>16, <1>17 DEF IInv

\* A request is forgotten, and no device waits for it any more.
LEMMA VanishStep ==
    ASSUME IInv, NEW q \in Requests, Vanish(q) PROVE IInv'
  <1>1. /\ req' = [req EXCEPT ![q] = Free]
        /\ wait' = [d \in Devices |-> IF wait[d] = q THEN None ELSE wait[d]]
        /\ UNCHANGED <<life, tasks, copy, seen, base, cut, queue, made, sends, carried,
                       effects, partial>>
    BY DEF Vanish
  <1>2. /\ req' \in [Requests -> Request] /\ req'[q] = Free
        /\ \A s \in Requests \ {q} : req'[s] = req[s]
    BY <1>1, FreeFacts DEF IInv, TypeOK
  <1>3. Moves /\ Grows
    BY <1>1, NoMove, SameTallies
  <1>4. ASSUME NEW s \in Requests
        PROVE  Consistent(req[s])' /\ Credited(req[s])' /\ Answered(req[s])'
    <2>1. CASE s = q
      BY <2>1, <1>2, FreeIsKept
    <2>2. CASE s # q
      BY <2>2, <1>1, <1>2, <1>3, RequestKept
    <2> QED BY <2>1, <2>2
  <1>5. ASSUME NEW d \in Devices PROVE Awaited(d)' /\ Numbered(d)'
    <2>1. wait[d] # None => wait[d] \in Requests
      BY DEF IInv, TypeOK
    <2>2. wait'[d] # None => wait'[d] = wait[d] /\ req'[wait[d]] = req[wait[d]]
      BY <2>1, <1>1, <1>2
    <2> QED BY <2>2, <1>1, DeviceKept
  <1>6. Stored' /\ MissedOnlyBelow'
    BY <1>1, <1>3, CopiesKept
  <1>7. Budget'
    <2>1. \A s \in Requests : req'[s].todo = req[s].todo \/ req'[s].todo = <<>>
      BY <1>2, FreeFacts
    <2> QED BY <2>1, <1>1, BudgetLess
  <1>8. TypeOK'
    <2>1. wait' \in [Devices -> Requests \cup {None}]
      BY <1>1 DEF IInv, TypeOK
    <2> QED BY <2>1, <1>1, <1>2 DEF IInv, TypeOK
  <1> QED BY <1>4, <1>5, <1>6, <1>7, <1>8 DEF IInv

\* The store moves elsewhere.
LEMMA ElsewhereStep == ASSUME IInv, Elsewhere PROVE IInv'
  <1>1. UNCHANGED <<device, req, effects, partial>> /\ Grows
    BY SameTallies DEF Elsewhere
  <1>2. Moves
    <2>1. PICK t \in Tasks : \/ \E u \in Users : Store!Create(t, u, None) \/ Edit(t, u)
                             \/ Store!Delete(t)
      BY DEF Elsewhere
    <2>2. PICK u : Store!Create(t, u, None) \/ Edit(t, u) \/ Store!Delete(t)
      BY <2>1
    <2> QED BY <2>2, StoreMoves
  <1>3. ASSUME NEW s \in Requests
        PROVE  Consistent(req[s])' /\ Credited(req[s])' /\ Answered(req[s])'
    BY <1>1, <1>2, RequestKept
  <1>4. ASSUME NEW d \in Devices PROVE Awaited(d)' /\ Numbered(d)'
    BY <1>1, DeviceKept DEF device
  <1>5. Stored' /\ MissedOnlyBelow'
    BY <1>1, <1>2, CopiesKept DEF device
  <1>6. Budget'
    BY <1>1, BudgetLess DEF device
  <1>7. TypeOK'
    BY <1>1, <1>2 DEF IInv, TypeOK, Moves, device
  <1> QED BY <1>3, <1>4, <1>5, <1>6, <1>7 DEF IInv

-----------------------------------------------------------------------------
(* The devices' steps *)

\* What a step of a device d that leaves the store and the requests keeps.
LEMMA DeviceAlone ==
    ASSUME IInv, NEW d \in Devices,
           UNCHANGED <<life, tasks, copy, seen, base, cut, req, sends, carried, effects, partial>>,
           wait' \in [Devices -> Requests \cup {None}],
           made' \in [Devices -> 0..MaxChanges], queue' \in [Devices -> Seq(Change)],
           \A e \in Devices : wait'[e] = wait[e] \/ wait'[e] = None,
           \A e \in Devices : Numbered(e)'
    PROVE  IInv'
  <1>1. Moves /\ Grows
    BY NoMove, SameTallies
  <1>2. ASSUME NEW s \in Requests
        PROVE  Consistent(req[s])' /\ Credited(req[s])' /\ Answered(req[s])'
    BY <1>1, RequestKept
  <1>3. ASSUME NEW e \in Devices PROVE Awaited(e)'
    BY DEF IInv, Awaited
  <1>4. Stored' /\ MissedOnlyBelow'
    BY <1>1, CopiesKept
  <1>5. Budget'
    BY BudgetLess
  <1>6. TypeOK'
    BY DEF IInv, TypeOK
  <1> QED BY <1>2, <1>3, <1>4, <1>5, <1>6 DEF IInv

\* A change made offline is the next in number and the last in the queue.
LEMMA MakeChangeStep ==
    ASSUME IInv, NEW d \in Devices, MakeChange(d) PROVE IInv'
  <1>1. PICK type \in Types, t \in Tasks \cup {None}, fits \in BOOLEAN :
          queue' = [queue EXCEPT ![d] = Append(@,
              [id |-> <<d, made'[d]>>, type |-> type, task |-> t, decodes |-> fits])]
    BY DEF MakeChange, Types
  <1> DEFINE ch == [id |-> <<d, made'[d]>>, type |-> type, task |-> t, decodes |-> fits]
  <1>2. /\ made \in [Devices -> 0..MaxChanges] /\ queue \in [Devices -> Seq(Change)]
        /\ made[d] < MaxChanges /\ made' = [made EXCEPT ![d] = @ + 1]
        /\ UNCHANGED <<life, tasks, copy, seen, base, cut, wait, req, sends, carried,
                       effects, partial>>
    BY DEF MakeChange, IInv, TypeOK
  <1>3. made'[d] = made[d] + 1 /\ made'[d] \in 1..MaxChanges /\ made' \in [Devices -> 0..MaxChanges]
    BY <1>2, BoundsAssumption
  <1>4. ch \in Change /\ ch.id = <<d, made'[d]>>
    BY <1>3 DEF Change, Ids, Types
  <1> HIDE DEF ch
  <1>5. /\ queue' \in [Devices -> Seq(Change)] /\ queue'[d] = Append(queue[d], ch)
        /\ \A e \in Devices \ {d} : queue'[e] = queue[e] /\ made'[e] = made[e]
    <2>1. queue' = [queue EXCEPT ![d] = Append(@, ch)]
      BY <1>1 DEF ch
    <2>2. Append(queue[d], ch) \in Seq(Change)
      BY <1>2, <1>4, AppendProperties
    <2> QED BY <2>1, <2>2, <1>2
  <1>6. ASSUME NEW e \in Devices PROVE Numbered(e)'
    <2>1. CASE e = d
      <3>1. PICK s \in Seq(Change) : s = queue[d]
        BY <1>2
      <3>2. PICK n \in Nat : n = Len(s)
        BY <3>1, LenProperties
      <3>3. PICK k \in Nat : k = made[d]
        BY <1>2, BoundsAssumption
      <3>4. n <= k /\ \A i \in 1..n : s[i].id = <<d, k - n + i>>
        BY <3>1, <3>2, <3>3 DEF IInv, Numbered
      <3>5. PICK a : a = queue'[d]
        OBVIOUS
      <3>6. Len(a) = n + 1 /\ a[n + 1] = ch /\ \A i \in 1..n : a[i] = s[i]
        BY <3>1, <3>2, <3>5, <1>4, <1>5, AppendProperties
      <3>7. \A i \in 1..(n + 1) : a[i].id = <<d, (k + 1) - (n + 1) + i>>
        <4> SUFFICES ASSUME NEW i \in 1..(n + 1) PROVE a[i].id = <<d, (k + 1) - (n + 1) + i>>
          OBVIOUS
        <4>0. n \in Nat /\ k \in Nat
          BY <3>2, <3>3, Zenon
        <4>1. n \in Nat /\ k \in Nat /\ (k + 1) - (n + 1) + i = k - n + i
          BY <4>0
        <4>2. CASE i = n + 1
          <5>1. k - n + i = k + 1
            BY <4>1, <4>2
          <5> QED BY <4>1, <4>2, <5>1, <3>3, <3>6, <1>3, <1>4
        <4>3. CASE i # n + 1
          <5>1. i \in 1..n
            BY <4>1, <4>3
          <5> QED BY <5>1, <4>1, <3>4, <3>6
        <4> QED BY <4>2, <4>3
      <3>8. made'[d] = k + 1 /\ n + 1 <= k + 1
        BY <1>3, <3>2, <3>3, <3>4
      <3> QED BY <2>1, <3>5, <3>6, <3>7, <3>8 DEF Numbered
    <2>2. CASE e # d
      BY <2>2, <1>5 DEF IInv, Numbered
    <2> QED BY <2>1, <2>2
  <1>7. wait' \in [Devices -> Requests \cup {None}]
    BY <1>2 DEF IInv, TypeOK
  <1> QED BY <1>2, <1>3, <1>5, <1>6, <1>7, DeviceAlone

\* The device stops waiting.
LEMMA GiveUpStep ==
    ASSUME IInv, NEW d \in Devices, GiveUp(d) PROVE IInv'
  <1>1. /\ wait \in [Devices -> Requests \cup {None}] /\ wait' = [wait EXCEPT ![d] = None]
        /\ UNCHANGED <<life, tasks, copy, seen, base, cut, queue, req, made, sends, carried,
                       effects, partial>>
    BY DEF GiveUp, IInv, TypeOK
  <1>2. \A e \in Devices : Numbered(e)'
    BY <1>1 DEF IInv, Numbered
  <1>3. made' \in [Devices -> 0..MaxChanges] /\ queue' \in [Devices -> Seq(Change)]
    BY <1>1 DEF IInv, TypeOK
  <1>4. wait' \in [Devices -> Requests \cup {None}] /\ \A e \in Devices : wait'[e] = wait[e] \/ wait'[e] = None
    BY <1>1
  <1> QED BY <1>1, <1>2, <1>3, <1>4, DeviceAlone

\* The request a device sends.
Sent(d) == [Free EXCEPT !.pc = "push", !.dev = d, !.min = seen[d],
                        !.todo = queue[d], !.all = queue[d]]

\* A request as it is sent is consistent.
LEMMA SentFacts ==
    ASSUME IInv, NEW d \in Devices, NEW a, a = Sent(d)
    PROVE  /\ a \in Request /\ Consistent(a)
           /\ a.pc = "push" /\ a.dev = d /\ a.min = seen[d] /\ a.count = 0
           /\ a.todo = queue[d] /\ a.all = queue[d]
           /\ \A i \in 1..Len(a.todo) : a.todo[i].id[1] = d
           /\ Distinct(a.todo)
  <1>1. PICK s \in Seq(Change) : s = queue[d]
    BY DEF IInv, TypeOK
  <1>2. /\ a.pc = "push" /\ a.dev = d /\ a.min = seen[d] /\ a.count = 0
        /\ a.todo = s /\ a.all = s
        /\ a.newTasks = Free.newTasks /\ a.base = Free.base /\ a.cut = Free.cut
    BY <1>1 DEF Sent, Free
  <1>3. PICK n \in Nat : n = Len(s)
    BY <1>1, LenProperties
  <1>4. PICK k \in 0..MaxChanges : k = made[d]
    BY DEF IInv, TypeOK
  <1>5. n <= k /\ \A i \in 1..n : s[i].id = <<d, k - n + i>>
    BY <1>1, <1>3, <1>4 DEF IInv, Numbered
  <1>6. n \in Nat /\ k \in Nat /\ k <= MaxChanges
    BY <1>3, <1>4, BoundsAssumption
  <1>7. Distinct(s)
    <2> SUFFICES ASSUME NEW i \in 1..n, NEW j \in 1..n, s[i].id = s[j].id PROVE i = j
      BY <1>3 DEF Distinct
    <2>1. k - n + i = k - n + j
      BY <1>5
    <2> QED BY <2>1, <1>6
  <1>8. \A i \in 1..n : s[i].id[1] = d
    BY <1>5
  <1>9. IsEnd(s, s)
    <2>1. n <= n /\ \A i \in 1..n : n - n + i = i
      BY <1>6
    <2> QED BY <2>1, <1>3 DEF IsEnd
  <1>10. a \in Request
    <2>1. seen[d] \in 0..MaxVersion
      BY DEF IInv, TypeOK
    <2>2. a = [pc |-> "push", dev |-> d, min |-> seen[d], todo |-> s, all |-> s,
               count |-> 0, newTasks |-> None0, base |-> None0, cut |-> FALSE]
      BY <1>1 DEF Sent, Free
    <2>3. 0 \in 0..MaxChanges /\ None0 \in Versions
      BY BoundsAssumption, None0Facts
    <2>4. d \in Devices \cup {None} /\ s \in Seq(Change)
      BY <1>1
    <2> QED BY <2>1, <2>2, <2>3, <2>4 DEF Request
  <1>11. Len(s) <= MaxChanges /\ 0 + Len(s) <= Len(s)
    <2>1. n <= MaxChanges /\ 0 + n <= n
      BY <1>5, <1>6, BoundsAssumption
    <2> QED BY <2>1, <1>3, Zenon
  <1>12. Consistent(a)
    BY <1>2, <1>3, <1>7, <1>8, <1>9, <1>11 DEF Consistent
  <1> QED BY <1>1, <1>2, <1>3, <1>7, <1>8, <1>10, <1>12

\* One more request carries the changes of the queue: the budget of each grows by one.
LEMMA SendStep ==
    ASSUME IInv, NEW d \in Devices, Send(d) PROVE IInv'
  <1>1. PICK q \in Requests : /\ req[q].pc = "free"
                              /\ wait' = [wait EXCEPT ![d] = q]
                              /\ req' = [req EXCEPT ![q] = Sent(d)]
    BY DEF Send, Sent
  <1>2. PICK a : a = Sent(d)
    OBVIOUS
  <1>3. /\ a \in Request /\ Consistent(a)
        /\ a.pc = "push" /\ a.dev = d /\ a.min = seen[d] /\ a.count = 0
        /\ a.todo = queue[d] /\ a.all = queue[d]
        /\ \A i \in 1..Len(a.todo) : a.todo[i].id[1] = d
    BY <1>2, SentFacts
  <1>4. /\ req' \in [Requests -> Request] /\ req'[q] = a
        /\ \A s \in Requests \ {q} : req'[s] = req[s]
    BY <1>1, <1>2, <1>3 DEF IInv, TypeOK
  <1>5. /\ wait[d] = None /\ sends[d] < MaxSends /\ sends' = [sends EXCEPT ![d] = @ + 1]
        /\ carried' = [c \in Ids |-> carried[c] + (IF c \in Queued(d) THEN 1 ELSE 0)]
        /\ UNCHANGED <<life, tasks, copy, seen, base, cut, queue, made, effects, partial>>
        /\ wait \in [Devices -> Requests \cup {None}] /\ sends \in [Devices -> 0..MaxSends]
    BY DEF Send, IInv, TypeOK
  <1>6. Moves /\ Grows
    BY <1>5, NoMove, SameTallies
  <1>7. ASSUME NEW s \in Requests
        PROVE  Consistent(req[s])' /\ Credited(req[s])' /\ Answered(req[s])'
    <2>1. CASE s = q
      <3>1. Consistent(a)
        BY <1>3
      <3>2. 1..(Len(a.all) - Len(a.todo)) = {}
        <4>1. PICK n \in Nat : n = Len(queue[d])
          BY LenProperties DEF IInv, TypeOK
        <4>2. 1..(n - n) = {}
          BY <4>1
        <4> QED BY <4>1, <4>2, <1>3
      <3>3. Credited(a)'
        BY <3>2 DEF Credited
      <3>4. Answered(a)'
        BY <1>3 DEF Answered
      <3> QED BY <2>1, <3>1, <3>3, <3>4, <1>4
    <2>2. CASE s # q
      BY <2>2, <1>4, <1>5, <1>6, RequestKept
    <2> QED BY <2>1, <2>2
  <1>8. ASSUME NEW e \in Devices PROVE Awaited(e)' /\ Numbered(e)'
    <2>1. CASE e = d
      <3>1. wait'[d] = q
        BY <1>1, <1>5
      <3>2. Awaited(d)'
        BY <3>1, <1>3, <1>4, <1>5 DEF Awaited
      <3>3. Numbered(d)'
        BY <1>5 DEF IInv, Numbered
      <3> QED BY <2>1, <3>2, <3>3
    <2>2. CASE e # d
      <3>1. wait'[e] = wait[e] /\ Awaited(e)
        BY <2>2, <1>1, <1>5 DEF IInv
      <3>2. wait[e] # None => wait[e] # q /\ wait[e] \in Requests
        BY <3>1, <1>1, <1>5 DEF Awaited
      <3>3. wait'[e] # None => wait'[e] = wait[e] /\ req'[wait[e]] = req[wait[e]]
        BY <3>1, <3>2, <1>4
      <3> QED BY <3>3, <1>5, DeviceKept
    <2> QED BY <2>1, <2>2
  <1>9. Stored' /\ MissedOnlyBelow'
    BY <1>5, <1>6, CopiesKept
  <1>10. /\ sends' \in [Devices -> 0..MaxSends] /\ sends'[d] = sends[d] + 1
         /\ \A e \in Devices \ {d} : sends'[e] = sends[e]
    BY <1>5, BoundsAssumption
  <1>11. Budget'
    <2> SUFFICES ASSUME NEW c \in Ids
                 PROVE  /\ IsFiniteSet(Pending(c)') /\ carried'[c] <= sends'[c[1]]
                        /\ effects[c] + partial[c] + Cardinality(Pending(c)') <= carried'[c]
      BY <1>5 DEF Budget
    <2>1. /\ IsFiniteSet(Pending(c)) /\ carried[c] <= sends[c[1]]
          /\ effects[c] + partial[c] + Cardinality(Pending(c)) <= carried[c]
      BY DEF IInv, Budget
    <2>2. /\ Cardinality(Pending(c)) \in Nat /\ effects[c] \in Nat /\ partial[c] \in Nat
          /\ carried[c] \in Nat
          /\ c[1] \in Devices /\ sends[c[1]] \in Nat /\ sends'[c[1]] \in Nat
      BY <1>5, <1>10, <2>1, FS_CardinalityType, Tallies, BoundsAssumption DEF Ids
    <2>3. Pending(c)' \subseteq Pending(c) \cup {q}
      <3>1. \A s \in Requests \ {q} : s \in Pending(c)' => s \in Pending(c)
        BY <1>4 DEF Pending
      <3>2. Pending(c)' \subseteq Requests
        BY DEF Pending
      <3> QED BY <3>1, <3>2
    <2>a. q \in Pending(c)' <=> c \in Queued(d)
      BY <1>3, <1>4 DEF Pending, Queued
    <2>b. c \in Queued(d) => c[1] = d
      BY <1>3 DEF Queued
    <2>4. CASE c \in Queued(d)
      <3>1. /\ IsFiniteSet(Pending(c) \cup {q})
            /\ Cardinality(Pending(c) \cup {q}) <= Cardinality(Pending(c)) + 1
        <4>1. PICK P : P = Pending(c)
          OBVIOUS
        <4>2. IsFiniteSet(P) /\ Cardinality(P) \in Nat
          BY <2>1, <2>2, <4>1
        <4>3. /\ IsFiniteSet(P \cup {q})
              /\ Cardinality(P \cup {q}) = IF q \in P THEN Cardinality(P) ELSE Cardinality(P) + 1
          BY <4>2, FS_AddElement
        <4>4. Cardinality(P \cup {q}) <= Cardinality(P) + 1
          BY <4>2, <4>3
        <4> QED BY <4>1, <4>3, <4>4
      <3>2. /\ IsFiniteSet(Pending(c)')
            /\ Cardinality(Pending(c)') <= Cardinality(Pending(c) \cup {q})
        BY <2>3, <3>1, FS_Subset
      <3>3. Cardinality(Pending(c)') \in Nat /\ Cardinality(Pending(c) \cup {q}) \in Nat
        BY <3>1, <3>2, FS_CardinalityType
      <3>4. sends'[c[1]] = sends[c[1]] + 1
        BY <2>4, <2>b, <1>10
      <3>5. carried'[c] = carried[c] + 1
        BY <2>4, <1>5
      <3>6. PICK x \in Nat, y \in Nat, k \in Nat, l \in Nat, n \in Nat, u \in Nat, m \in Nat :
               /\ x = effects[c] /\ y = partial[c] /\ k = Cardinality(Pending(c))
               /\ l = Cardinality(Pending(c)') /\ n = carried[c]
               /\ u = Cardinality(Pending(c) \cup {q}) /\ m = sends[c[1]]
        BY <2>2, <3>3, Zenon
      <3>a. x + y + k <= n /\ u <= k + 1 /\ l <= u /\ n <= m
        BY <2>1, <3>1, <3>2, <3>6, Zenon
      <3>b. x + y + l <= n + 1 /\ n + 1 <= m + 1
        BY <3>a
      <3>7. /\ effects[c] + partial[c] + Cardinality(Pending(c)') <= carried[c] + 1
            /\ carried[c] + 1 <= sends[c[1]] + 1
        BY <3>6, <3>b, Zenon
      <3> QED BY <3>2, <3>4, <3>5, <3>7
    <2>5. CASE c \notin Queued(d)
      <3>1. q \notin Pending(c)'
        BY <2>5, <2>a
      <3>2. Pending(c)' \in SUBSET Pending(c)
        BY <2>3, <3>1
      <3>3. IsFiniteSet(Pending(c)') /\ Cardinality(Pending(c)') <= Cardinality(Pending(c))
        BY <2>1, <3>2, FS_Subset
      <3>4. Cardinality(Pending(c)') \in Nat
        BY <3>3, FS_CardinalityType
      <3>5. carried'[c] = carried[c]
        <4>1. carried'[c] = carried[c] + 0
          BY <2>5, <1>5
        <4> QED BY <4>1, <2>2
      <3>6. sends[c[1]] <= sends'[c[1]]
        <4>1. sends'[c[1]] = sends[c[1]] \/ sends'[c[1]] = sends[c[1]] + 1
          BY <2>2, <1>10
        <4> QED BY <4>1, <2>2
      <3>7. PICK x \in Nat, y \in Nat, k \in Nat, l \in Nat, n \in Nat, m \in Nat, b \in Nat :
               /\ x = effects[c] /\ y = partial[c] /\ k = Cardinality(Pending(c))
               /\ l = Cardinality(Pending(c)') /\ n = carried[c]
               /\ m = sends[c[1]] /\ b = sends'[c[1]]
        BY <2>2, <3>4, Zenon
      <3>a. x + y + k <= n /\ l <= k /\ n <= m /\ m <= b
        BY <2>1, <3>3, <3>6, <3>7, Zenon
      <3>b. x + y + l <= n /\ n <= b
        BY <3>a
      <3>8. /\ effects[c] + partial[c] + Cardinality(Pending(c)') <= carried[c]
            /\ carried[c] <= sends'[c[1]]
        BY <3>7, <3>b, Zenon
      <3> QED BY <3>3, <3>5, <3>8
    <2> QED BY <2>4, <2>5
  <1>12. TypeOK'
    <2>1. wait' \in [Devices -> Requests \cup {None}]
      BY <1>1, <1>5
    <2>2. carried' \in [Ids -> Nat]
      <3>1. \A c \in Ids : carried[c] + 1 \in Nat /\ carried[c] + 0 \in Nat
        BY Tallies
      <3>2. \A c \in Ids : carried[c] + (IF c \in Queued(d) THEN 1 ELSE 0) \in Nat
        BY <3>1
      <3> QED BY <3>2, <1>5
    <2>3. /\ effects' \in [Ids -> 0..MaxSends] /\ partial' \in [Ids -> 0..MaxSends]
          /\ carried' \in [Ids -> 0..MaxSends]
      BY <2>2, <1>6, <1>10, <1>11, BudgetTypes DEF Grows
    <2> QED BY <2>1, <2>3, <1>4, <1>5, <1>10 DEF IInv, TypeOK
  <1> QED BY <1>7, <1>8, <1>9, <1>11, <1>12 DEF IInv

NumberedAs(s, d, k) ==
    Len(s) <= k /\ \A i \in 1..Len(s) : s[i].id = <<d, k - Len(s) + i>>

\* What is left of the queue when some of it is done with.
LEMMA RestOfQueue ==
    ASSUME NEW d, NEW s \in Seq(Change), NEW k \in Nat, NEW l \in Nat, NumberedAs(s, d, k),
           NEW r, r = SubSeq(s, l + 1, Len(s))
    PROVE  r \in Seq(Change) /\ NumberedAs(r, d, k)
  <1>1. PICK n \in Nat : n = Len(s)
    BY LenProperties
  <1>2. n <= k /\ \A i \in 1..n : s[i].id = <<d, k - n + i>>
    BY <1>1, Zenon DEF NumberedAs
  <1>3. r = SubSeq(s, l + 1, n)
    BY <1>1, Zenon
  <1>4. \A i \in (l + 1)..n : s[i] \in Change
    <2>1. \A i \in (l + 1)..n : i \in 1..n
      OBVIOUS
    <2> QED BY <1>1, <2>1, ElementOfSeq
  <1>5. /\ r \in Seq(Change)
        /\ Len(r) = IF l + 1 <= n THEN n - (l + 1) + 1 ELSE 0
        /\ \A i \in 1..(n - (l + 1) + 1) : r[i] = s[(l + 1) + i - 1]
    BY <1>3, <1>4, SubSeqProperties
  <1>6. CASE l + 1 <= n
    <2>0. n - l \in Nat
      BY <1>6
    <2>1. PICK j \in Nat : j = n - l
      BY <2>0, Zenon
    <2>2. Len(r) = j /\ j <= k /\ \A i \in 1..j : r[i] = s[l + i]
      <3>1. n <= k
        BY <1>2
      <3>2. j <= k /\ j = n - (l + 1) + 1 /\ \A i \in 1..j : (l + 1) + i - 1 = l + i
        BY <3>1, <1>6, <2>1
      <3>3. Len(r) = j /\ \A i \in 1..j : r[i] = s[(l + 1) + i - 1]
        BY <1>5, <1>6, <3>2, Zenon
      <3>4. \A i \in 1..j : r[i] = s[l + i]
        BY <3>2, <3>3, Zenon
      <3> QED BY <3>2, <3>3, <3>4, Zenon
    <2>3. \A i \in 1..j : l + i \in 1..n /\ k - n + (l + i) = k - j + i
      BY <2>1, <1>6
    <2>4. \A i \in 1..j : r[i].id = <<d, k - j + i>>
      BY <1>2, <2>2, <2>3
    <2> QED BY <1>5, <2>2, <2>4, Zenon DEF NumberedAs
  <1>7. CASE ~(l + 1 <= n)
    <2>1. Len(r) = 0
      BY <1>5, <1>7
    <2> QED BY <1>5, <2>1 DEF NumberedAs
  <1> QED BY <1>6, <1>7

\* An answer is taken.
LEMMA ReceiveStep ==
    ASSUME IInv, NEW d \in Devices, Receive(d)
    PROVE  IInv' /\ \A e \in Devices, t \in Tasks : copy[e][t] <= copy'[e][t]
  <1>1. PICK q \in Requests : q = wait[d]
    BY DEF Receive, IInv, TypeOK
  <1>2. PICK a \in Request : a = req[q]
    BY DEF IInv, TypeOK
  <1> DEFINE new == [t \in Tasks |-> IF a.newTasks[t] > 0 THEN a.newTasks[t] ELSE copy[d][t]]
             left == SubSeq(queue[d], Len(a.all) + 1, Len(queue[d]))
  <1>3. PICK m \in Highest(seen[d], a.newTasks) : seen' = [seen EXCEPT ![d] = m]
    BY <1>1, <1>2 DEF Receive
  <1>4. /\ a.pc = "answer" /\ q # None
        /\ copy' = [copy EXCEPT ![d] = new]
        /\ base' = [base EXCEPT ![d] = a.base] /\ cut' = [cut EXCEPT ![d] = a.cut]
        /\ queue' = [queue EXCEPT ![d] = left]
        /\ req' = [req EXCEPT ![q] = Free]
        /\ wait' = [wait EXCEPT ![d] = None]
        /\ UNCHANGED <<life, tasks, made, sends, carried, effects, partial>>
    BY <1>1, <1>2 DEF Receive
  <1>5. Awaited(d) /\ Answered(a) /\ Consistent(a)
    BY <1>1, <1>2 DEF IInv
  <1>6. a.dev = d /\ a.min = seen[d] /\ \A t \in Tasks : copy[d][t] <= a.base[t]
    BY <1>1, <1>2, <1>4, <1>5 DEF Awaited
  <1>7. ASSUME NEW t \in Tasks
        PROVE  /\ a.newTasks[t] # 0 => a.newTasks[t] = a.base[t]
               /\ a.base[t] > seen[d] => a.newTasks[t] = a.base[t] \/ a.cut
               /\ a.base[t] <= tasks[t].version /\ (a.base[t] > 0 => tasks[t].owner = UserOf[d])
               /\ copy[d][t] <= a.base[t]
               /\ a.base[t] \in 0..MaxVersion /\ a.newTasks[t] \in 0..MaxVersion
               /\ copy[d][t] \in 0..MaxVersion /\ tasks[t].version \in 0..MaxVersion
    <2>1. /\ a.newTasks[t] # 0 => a.newTasks[t] = a.base[t]
          /\ a.base[t] > a.min => a.newTasks[t] = a.base[t] \/ a.cut
          /\ a.base[t] <= tasks[t].version /\ (a.base[t] > 0 => tasks[t].owner = UserOf[a.dev])
      BY <1>4, <1>5 DEF Answered
    <2>2. a.base[t] \in 0..MaxVersion /\ a.newTasks[t] \in 0..MaxVersion
      BY DEF Request, Versions
    <2>3. copy[d][t] \in 0..MaxVersion /\ tasks[t].version \in 0..MaxVersion
      BY DEF IInv, TypeOK, Versions
    <2> QED BY <2>1, <2>2, <2>3, <1>6
  <1>8. /\ m \in 0..MaxVersion /\ seen[d] <= m /\ seen[d] \in 0..MaxVersion
        /\ \A t \in Tasks : a.newTasks[t] <= m
    <2>1. seen[d] \in 0..MaxVersion
      BY DEF IInv, TypeOK
    <2>2. m \in {seen[d]} \cup {a.newTasks[t] : t \in Tasks}
      BY <1>3 DEF Highest
    <2>3. m \in 0..MaxVersion
      BY <2>1, <2>2, <1>7
    <2> QED BY <2>1, <2>3, <1>3 DEF Highest
  <1>9. ASSUME NEW t \in Tasks
        PROVE  /\ new[t] \in 0..MaxVersion /\ copy[d][t] <= new[t] /\ new[t] <= tasks[t].version
               /\ new[t] = a.base[t] \/ a.base[t] <= m \/ a.cut
               /\ new[t] > 0 => tasks[t].owner = UserOf[d]
    <2>1. new[t] = IF a.newTasks[t] > 0 THEN a.newTasks[t] ELSE copy[d][t]
      OBVIOUS
    <2>2. copy[d][t] > 0 => tasks[t].owner = UserOf[d]
      BY DEF IInv, MissedOnlyBelow
    <2>3. CASE a.newTasks[t] # 0
      <3>1. a.newTasks[t] = a.base[t] /\ a.newTasks[t] > 0
        BY <2>3, <1>7, BoundsAssumption
      <3>2. new[t] = a.base[t]
        BY <2>1, <3>1
      <3> QED BY <3>1, <3>2, <1>7
    <2>4. CASE a.newTasks[t] = 0
      <3>1. new[t] = copy[d][t]
        BY <2>1, <2>4
      <3>2. copy[d][t] <= copy[d][t] /\ copy[d][t] <= tasks[t].version
        BY <1>7, BoundsAssumption
      <3>3. a.base[t] <= m \/ a.cut
        <4>1. CASE a.base[t] > seen[d]
          <5>1. a.base[t] # 0
            BY <4>1, <1>8
          <5> QED BY <5>1, <4>1, <2>4, <1>7
        <4>2. CASE ~(a.base[t] > seen[d])
          BY <4>2, <1>7, <1>8, BoundsAssumption
        <4> QED BY <4>1, <4>2
      <3> QED BY <2>2, <3>1, <3>2, <3>3, <1>7
    <2> QED BY <2>3, <2>4
  <1> HIDE DEF new
  <1>10. new \in Versions
    BY <1>9 DEF Versions, new
  <1>11. /\ copy' \in [Devices -> Versions] /\ copy'[d] = new
         /\ \A e \in Devices \ {d} : copy'[e] = copy[e]
    BY <1>4, <1>10 DEF IInv, TypeOK
  <1>12. /\ base' \in [Devices -> Versions] /\ base'[d] = a.base
         /\ \A e \in Devices \ {d} : base'[e] = base[e]
    <2>1. a.base \in Versions
      BY DEF Request
    <2> QED BY <2>1, <1>4 DEF IInv, TypeOK
  <1>a. /\ cut' \in [Devices -> BOOLEAN] /\ cut'[d] = a.cut
        /\ \A e \in Devices \ {d} : cut'[e] = cut[e]
    <2>1. a.cut \in BOOLEAN
      BY DEF Request
    <2> QED BY <2>1, <1>4 DEF IInv, TypeOK
  <1>13. /\ seen' \in [Devices -> 0..MaxVersion] /\ seen'[d] = m
         /\ \A e \in Devices \ {d} : seen'[e] = seen[e]
    BY <1>3, <1>8 DEF IInv, TypeOK
  <1>14. /\ req' \in [Requests -> Request] /\ req'[q] = Free
         /\ \A s \in Requests \ {q} : req'[s] = req[s]
    BY <1>4, FreeFacts DEF IInv, TypeOK
  <1>15. /\ wait' \in [Devices -> Requests \cup {None}] /\ wait'[d] = None
         /\ \A e \in Devices \ {d} : wait'[e] = wait[e]
    BY <1>4 DEF IInv, TypeOK
  <1>16. Moves /\ Grows
    BY <1>4, NoMove, SameTallies
  <1>17. ASSUME NEW s \in Requests
         PROVE  Consistent(req[s])' /\ Credited(req[s])' /\ Answered(req[s])'
    <2>1. CASE s = q
      BY <2>1, <1>14, FreeIsKept
    <2>2. CASE s # q
      BY <2>2, <1>4, <1>14, <1>16, RequestKept
    <2> QED BY <2>1, <2>2
  <1> HIDE DEF left
  <1>18. /\ queue' \in [Devices -> Seq(Change)] /\ Numbered(d)'
         /\ \A e \in Devices \ {d} : queue'[e] = queue[e]
    <2>1. PICK s \in Seq(Change) : s = queue[d]
      BY DEF IInv, TypeOK
    <2>2. PICK k \in Nat : k = made[d]
      BY BoundsAssumption DEF IInv, TypeOK
    <2>3. NumberedAs(s, d, k)
      BY <2>1, <2>2 DEF IInv, Numbered, NumberedAs
    <2>4. PICK l \in Nat : l = Len(a.all)
      BY LenProperties DEF Request
    <2>5. PICK r : r = SubSeq(s, l + 1, Len(s))
      OBVIOUS
    <2>6. r = left
      BY <2>1, <2>4, <2>5, Zenon DEF left
    <2>7. r \in Seq(Change) /\ NumberedAs(r, d, k)
      BY <2>3, <2>5, RestOfQueue
    <2>8. queue' \in [Devices -> Seq(Change)] /\ queue'[d] = r
      BY <2>6, <2>7, <1>4 DEF IInv, TypeOK
    <2>9. made'[d] = k
      BY <2>2, <1>4
    <2>10. Numbered(d)'
      BY <2>7, <2>8, <2>9 DEF Numbered, NumberedAs
    <2>11. \A e \in Devices \ {d} : queue'[e] = queue[e]
      BY <1>4 DEF IInv, TypeOK
    <2> QED BY <2>8, <2>10, <2>11
  <1>19. ASSUME NEW e \in Devices PROVE Awaited(e)' /\ Numbered(e)'
    <2>1. CASE e = d
      <3>1. Awaited(d)'
        BY <1>15 DEF Awaited
      <3> QED BY <2>1, <3>1, <1>18
    <2>2. CASE e # d
      <3>1. Awaited(e) /\ Numbered(e)
        BY DEF IInv
      <3>2. wait[e] # None => wait[e] \in Requests /\ wait[e] # q
        BY <2>2, <3>1, <1>2, <1>6 DEF Awaited, IInv, TypeOK
      <3>3. wait[e] # None => req'[wait[e]] = req[wait[e]]
        BY <3>2, <1>14
      <3>4. wait'[e] = wait[e] /\ seen'[e] = seen[e] /\ copy'[e] = copy[e]
        BY <2>2, <1>11, <1>13, <1>15
      <3>5. Awaited(e)'
        BY <3>1, <3>3, <3>4 DEF Awaited
      <3>6. queue'[e] = queue[e] /\ made'[e] = made[e]
        BY <2>2, <1>4, <1>18
      <3>7. Numbered(e)'
        BY <3>1, <3>6 DEF Numbered
      <3> QED BY <3>5, <3>7
    <2> QED BY <2>1, <2>2
  <1>20. ASSUME NEW e \in Devices, NEW t \in Tasks
         PROVE  /\ copy[e][t] <= copy'[e][t] /\ copy'[e][t] <= tasks'[t].version
                /\ copy'[e][t] = base'[e][t] \/ base'[e][t] <= seen'[e] \/ cut'[e]
                /\ copy'[e][t] > 0 => tasks'[t].owner = UserOf[e]
    <2>1. tasks' = tasks
      BY <1>4
    <2>2. CASE e = d
      BY <2>1, <2>2, <1>9, <1>11, <1>12, <1>a, <1>13
    <2>3. CASE e # d
      <3>1. copy'[e] = copy[e] /\ base'[e] = base[e] /\ seen'[e] = seen[e] /\ cut'[e] = cut[e]
        BY <2>3, <1>11, <1>12, <1>a, <1>13
      <3>2. copy[e][t] \in Nat
        BY BoundsAssumption DEF IInv, TypeOK, Versions
      <3>3. /\ copy[e][t] <= tasks[t].version
            /\ copy[e][t] = base[e][t] \/ base[e][t] <= seen[e] \/ cut[e]
            /\ copy[e][t] > 0 => tasks[t].owner = UserOf[e]
        BY DEF IInv, Stored, MissedOnlyBelow
      <3>4. copy[e][t] <= copy[e][t]
        BY <3>2
      <3> QED BY <2>1, <3>1, <3>3, <3>4
    <2> QED BY <2>2, <2>3
  <1>21. Stored' /\ MissedOnlyBelow'
    <2>1. Stored'
      BY <1>20, <1>16 DEF Stored, Moves
    <2>2. MissedOnlyBelow'
      BY <1>20 DEF MissedOnlyBelow
    <2> QED BY <2>1, <2>2
  <1>22. Budget'
    <2>1. \A s \in Requests : req'[s].todo = req[s].todo \/ req'[s].todo = <<>>
      BY <1>14, FreeFacts
    <2> QED BY <2>1, <1>4, BudgetLess
  <1>23. TypeOK'
    BY <1>4, <1>11, <1>12, <1>a, <1>13, <1>14, <1>15, <1>18 DEF IInv, TypeOK
  <1>24. IInv'
    BY <1>17, <1>19, <1>21, <1>22, <1>23 DEF IInv
  <1> QED BY <1>20, <1>24

-----------------------------------------------------------------------------
(* The invariant *)

\* The invariant holds before anything happens.
LEMMA Initial == Init => IInv
  <1> SUFFICES ASSUME Init PROVE IInv
    OBVIOUS
  <1>1. /\ copy = [d \in Devices |-> None0] /\ base = [d \in Devices |-> None0]
        /\ seen = [d \in Devices |-> 0] /\ queue = [d \in Devices |-> <<>>]
        /\ wait = [d \in Devices |-> None] /\ req = [q \in Requests |-> Free]
        /\ made = [d \in Devices |-> 0] /\ sends = [d \in Devices |-> 0]
        /\ cut = [d \in Devices |-> FALSE] /\ carried = [c \in Ids |-> 0]
        /\ effects = [c \in Ids |-> 0] /\ partial = [c \in Ids |-> 0]
    BY DEF Init
  <1>2. /\ life = [t \in Tasks |-> "absent"] /\ DOMAIN tasks = Tasks
        /\ \A t \in Tasks : tasks[t].version = 0
    BY DEF Init, Store!Init, Store!NoRow
  <1>3. <<>> \in Seq(Change) /\ Len(<<>>) = 0
    BY EmptySeq
  <1>4. TypeOK
    <2>1. copy \in [Devices -> Versions] /\ base \in [Devices -> Versions]
      BY <1>1, None0Facts
    <2>2. req \in [Requests -> Request]
      BY <1>1, FreeFacts
    <2>3. 0 \in 0..MaxVersion /\ 0 \in 0..MaxChanges /\ 0 \in 0..MaxSends
      BY BoundsAssumption
    <2> QED BY <1>1, <1>2, <1>3, <2>1, <2>2, <2>3 DEF TypeOK
  <1>5. \A d \in Devices, t \in Tasks : copy[d][t] = 0 /\ base[d][t] = 0
    BY <1>1, None0Facts
  <1>6. Stored /\ MissedOnlyBelow
    BY <1>2, <1>5 DEF Stored, MissedOnlyBelow
  <1>7. Budget
    <2> SUFFICES ASSUME NEW c \in Ids
                 PROVE  /\ IsFiniteSet(Pending(c))
                        /\ effects[c] + partial[c] + Cardinality(Pending(c)) <= carried[c]
                        /\ carried[c] <= sends[c[1]]
      BY DEF Budget
    <2>1. \A q \in Requests : req[q].todo = <<>>
      BY <1>1, FreeFacts
    <2>2. 1..0 = {}
      OBVIOUS
    <2>3. Pending(c) = {}
      BY <1>3, <2>1, <2>2 DEF Pending
    <2>4. effects[c] = 0 /\ partial[c] = 0 /\ carried[c] = 0 /\ sends[c[1]] = 0
      BY <1>1 DEF Ids
    <2> QED BY <2>3, <2>4, FS_EmptySet
  <1>8. ASSUME NEW q \in Requests PROVE Consistent(req[q]) /\ Credited(req[q]) /\ Answered(req[q])
    <2>1. /\ Consistent(Free) /\ Free.pc = "free" /\ Free.all = <<>> /\ Free.todo = <<>>
          /\ req[q] = Free
      BY <1>1, FreeFacts
    <2>2. Len(<<>>) = 0 /\ 1..(0 - 0) = {}
      BY EmptySeq
    <2>3. Credited(Free)
      BY <2>1, <2>2 DEF Credited
    <2>4. Answered(Free)
      BY <2>1 DEF Answered
    <2> QED BY <2>1, <2>3, <2>4
  <1>9. ASSUME NEW d \in Devices PROVE Awaited(d) /\ Numbered(d)
    <2>1. wait[d] = None /\ queue[d] = <<>> /\ made[d] = 0
      BY <1>1
    <2>2. 1..0 = {}
      OBVIOUS
    <2>3. Awaited(d)
      BY <2>1 DEF Awaited
    <2>4. Numbered(d)
      BY <1>3, <2>1, <2>2 DEF Numbered
    <2> QED BY <2>3, <2>4
  <1> QED BY <1>4, <1>6, <1>7, <1>8, <1>9 DEF IInv

\* A change executed, with or without an effect.
LEMMA ExecutesStep == ASSUME IInv, NEW q \in Requests, Execute(q) PROVE IInv'
  <1>1. CASE Create(q)
    <2>1. PICK t \in Tasks : Store!Create(t, UserOf[req[q].dev], None)
      BY <1>1 DEF Create
    <2>2. PICK ok \in BOOLEAN : Counted(q, ok)
      BY <1>1 DEF Create
    <2>3. Moves
      BY <2>1, StoreMoves
    <2> QED BY <1>1, <2>2, <2>3, ExecuteStep DEF Create, Executing
  <1>2. CASE Update(q)
    <2>1. PICK ok \in BOOLEAN : Counted(q, ok)
      BY <1>2 DEF Update
    <2>2. Moves
      BY <1>2, StoreMoves DEF Update
    <2> QED BY <1>2, <2>1, <2>2, ExecuteStep DEF Update, Executing
  <1>3. CASE Delete(q)
    <2>1. PICK ok \in BOOLEAN : Counted(q, ok)
      BY <1>3 DEF Delete
    <2>2. Moves
      BY <1>3, StoreMoves DEF Delete
    <2> QED BY <1>3, <2>1, <2>2, ExecuteStep DEF Delete, Executing
  <1>4. CASE Unknown(q)
    <2>1. Moves
      BY <1>4, NoMove DEF Unknown
    <2> QED BY <1>4, <2>1, ExecuteStep DEF Unknown, Executing
  <1>5. CASE Fails(q)
    <2>1. Moves
      BY <1>5, NoMove DEF Fails
    <2> QED BY <1>5, <2>1, ExecuteStep DEF Fails
  <1>6. CASE ListChanges(q)
    BY <1>6, ListStep
  <1> QED BY <1>1, <1>2, <1>3, <1>4, <1>5, <1>6 DEF Execute

\* The invariant is about the variables alone.
LEMMA Stutters == ASSUME IInv, UNCHANGED vars PROVE IInv'
  <1>1. UNCHANGED <<life, tasks, copy, seen, base, cut, queue, wait, made, sends, carried, req,
                    effects, partial>>
    BY DEF vars, device
  <1>2. Moves /\ Grows
    BY <1>1, NoMove, SameTallies
  <1>3. ASSUME NEW s \in Requests
        PROVE  Consistent(req[s])' /\ Credited(req[s])' /\ Answered(req[s])'
    BY <1>1, <1>2, RequestKept
  <1>4. ASSUME NEW d \in Devices PROVE Awaited(d)' /\ Numbered(d)'
    BY <1>1, DeviceKept
  <1>5. Stored' /\ MissedOnlyBelow'
    BY <1>1, <1>2, CopiesKept
  <1>6. Budget'
    BY <1>1, BudgetLess
  <1>7. TypeOK'
    BY <1>1 DEF IInv, TypeOK
  <1> QED BY <1>3, <1>4, <1>5, <1>6, <1>7 DEF IInv

\* The invariant holds in every behaviour.
LEMMA Invariant == Spec => []IInv
  <1>1. ASSUME IInv, [Next]_vars PROVE IInv'
    <2>1. ASSUME NEW d \in Devices, MakeChange(d) PROVE IInv'
      BY <1>1, <2>1, MakeChangeStep
    <2>2. ASSUME NEW d \in Devices, Send(d) PROVE IInv'
      BY <1>1, <2>2, SendStep
    <2>3. ASSUME NEW d \in Devices, GiveUp(d) PROVE IInv'
      BY <1>1, <2>3, GiveUpStep
    <2>4. ASSUME NEW d \in Devices, Receive(d) PROVE IInv'
      BY <1>1, <2>4, ReceiveStep
    <2>5. ASSUME NEW q \in Requests, Execute(q) PROVE IInv'
      BY <1>1, <2>5, ExecutesStep
    <2>6. ASSUME NEW q \in Requests, Vanish(q) PROVE IInv'
      BY <1>1, <2>6, VanishStep
    <2>7. CASE Elsewhere
      BY <1>1, <2>7, ElsewhereStep
    <2>8. CASE UNCHANGED vars
      BY <1>1, <2>8, Stutters
    <2> QED BY <1>1, <2>1, <2>2, <2>3, <2>4, <2>5, <2>6, <2>7, <2>8 DEF Next
  <1> QED BY Initial, <1>1, PTL DEF Spec

-----------------------------------------------------------------------------
(* Theorems *)

\* Every variable keeps its type, and the bounds on versions, sends and changes
\* hold of all that is derived from them.
THEOREM TypeCorrect == Spec => []TypeOK
  <1>1. IInv => TypeOK
    BY DEF IInv
  <1> QED BY <1>1, Invariant, PTL

\* A device lacks only what is below the highest version it has seen and, until
\* its next whole answer, what an answer whose rows stopped short left out; nobody
\* else's task reaches it (ListChanges, tasks/repository.go:271-308).
THEOREM PullComplete == Spec => []MissedOnlyBelow
  <1>1. IInv => MissedOnlyBelow
    BY DEF IInv
  <1> QED BY <1>1, Invariant, PTL

\* A change takes effect, in full or in part, no more often than a request
\* carried it: each of them executes it once (ProcessSync, service.go:146-203).
THEOREM RetriesBounded == Spec => []RetriesAccounted
  <1>1. ASSUME IInv PROVE RetriesAccounted
    <2> SUFFICES ASSUME NEW c \in Ids PROVE effects[c] + partial[c] <= carried[c]
      BY DEF RetriesAccounted
    <2>1. /\ IsFiniteSet(Pending(c))
          /\ effects[c] + partial[c] + Cardinality(Pending(c)) <= carried[c]
      BY <1>1 DEF IInv, Budget
    <2>2. PICK n \in Nat : n = Cardinality(Pending(c))
      BY <2>1, FS_CardinalityType
    <2>3. effects[c] \in Nat /\ partial[c] \in Nat /\ carried[c] \in Nat
      BY <1>1, Tallies
    <2>4. \A x, y, k, m \in Nat : x + y + k <= m => x + y <= m
      OBVIOUS
    <2> QED BY <2>1, <2>2, <2>3, <2>4, Zenon
  <1> QED BY <1>1, Invariant, PTL

\* A full count is true of every known change whose payload fits the request; of
\* one whose payload does not, what was decoded took effect (service.go:172-192).
THEOREM CountsTrue == Spec => []FullCountIsTrue
  <1>1. ASSUME IInv PROVE FullCountIsTrue
    <2> SUFFICES ASSUME NEW q \in Requests, req[q].pc = "answer",
                        req[q].count = Len(req[q].all)
                 PROVE  \A i \in 1..Len(req[q].all) : Done(req[q].all[i])
      BY DEF FullCountIsTrue, Done
    <2>1. PICK a \in Request : a = req[q]
      BY <1>1 DEF IInv, TypeOK
    <2>2. Consistent(a) /\ Credited(a) /\ a.pc = "answer" /\ a.count = Len(a.all)
      BY <1>1, <2>1 DEF IInv
    <2>3. PICK n \in Nat : n = Len(a.all)
      BY LenProperties DEF Request
    <2>4. a.todo = <<>> /\ Len(a.todo) = 0
      BY <2>2, EmptySeq DEF Consistent
    <2>5. n + 0 = n /\ n - 0 = n
      BY <2>3
    <2>6. a.count + Len(a.todo) = Len(a.all) /\ Len(a.all) - Len(a.todo) = n
      BY <2>2, <2>3, <2>4, <2>5, Zenon
    <2>7. \A i \in 1..n : Done(a.all[i])
      BY <2>2, <2>6, Zenon DEF Credited
    <2> QED BY <2>1, <2>3, <2>7, Zenon
  <1> QED BY <1>1, Invariant, PTL

\* No copy goes back to an older version: an answer a device still waits for
\* was asked with all that it has seen (Receive against tasks/repository.go:280).
THEOREM CopiesNeverGoBack == Spec => CopiesAdvance
  <1>1. ASSUME IInv, [Next]_vars
        PROVE  [\A d \in Devices, t \in Tasks : copy[d][t] <= copy'[d][t]]_vars
    <2>1. \A d \in Devices, t \in Tasks : copy[d][t] \in Nat
      BY <1>1, BoundsAssumption DEF IInv, TypeOK, Versions
    <2>2. ASSUME NEW d \in Devices, Receive(d)
          PROVE  \A e \in Devices, t \in Tasks : copy[e][t] <= copy'[e][t]
      BY <1>1, <2>2, ReceiveStep
    <2>3. ASSUME UNCHANGED copy
          PROVE  \A e \in Devices, t \in Tasks : copy[e][t] <= copy'[e][t]
      BY <2>1, <2>3
    <2>4. Next => UNCHANGED copy \/ \E d \in Devices : Receive(d)
      BY DEF Next, MakeChange, Send, GiveUp, Execute, Create, Update, Delete, Unknown,
             Fails, ListChanges, Vanish, Elsewhere, device
    <2> QED BY <1>1, <2>2, <2>3, <2>4
  <1> QED BY <1>1, Invariant, PTL DEF Spec, CopiesAdvance
=============================================================================
