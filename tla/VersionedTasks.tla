--------------------------- MODULE VersionedTasks ---------------------------
(***************************************************************************)
(* What the task store promises to its callers, with no transactions in    *)
(* it: a task is created once, every accepted edit applies to the row the  *)
(* previous edit left, raises the version by one, counts one more edit of  *)
(* its author in the vector clock and replaces only the fields it names,   *)
(* and a soft delete happens once and is never undone.  TaskStore is the   *)
(* code that has to keep this promise with concurrent requests, each one   *)
(* made of several statements on its own database connection.              *)
(***************************************************************************)
EXTENDS Naturals

CONSTANTS
    Users,      \* ids of the users that author requests
    Tasks,      \* snowflake ids
    Changes,    \* identities of the changes requested by clients
    Fields,     \* the editable columns of a task
    None        \* no user, no change

VARIABLES
    life,       \* "absent", "live" or "deleted" (deleted_at is set)
    tasks       \* the row of every task

vars == <<life, tasks>>

NoRow == [owner   |-> None,
          version |-> 0,
          clock   |-> [u \in Users |-> 0],
          content |-> [f \in Fields |-> None]]

Init == /\ life = [t \in Tasks |-> "absent"]
        /\ tasks = [t \in Tasks |-> NoRow]

\* A change c written by u over row: only the fields in F take its values.
Edited(row, u, F, c) ==
    [owner   |-> row.owner,
     version |-> row.version + 1,
     clock   |-> [row.clock EXCEPT ![u] = @ + 1],
     content |-> [f \in Fields |-> IF f \in F THEN c ELSE row.content[f]]]

Create(t, u, c) ==
    /\ life[t] = "absent"
    /\ life' = [life EXCEPT ![t] = "live"]
    /\ tasks' = [tasks EXCEPT ![t] = Edited([NoRow EXCEPT !.owner = u], u, Fields, c)]

\* An edit accepted while the task was live may take effect after a delete:
\* the UPDATE statement does not look at deleted_at.
Edit(t, u, F, c) ==
    /\ life[t] # "absent"
    /\ tasks' = [tasks EXCEPT ![t] = Edited(@, u, F, c)]
    /\ UNCHANGED life

Delete(t) ==
    /\ life[t] = "live"
    /\ life' = [life EXCEPT ![t] = "deleted"]
    /\ UNCHANGED tasks

Next == \E t \in Tasks :
           \/ \E u \in Users, c \in Changes :
                 \/ Create(t, u, c)
                 \/ \E F \in SUBSET Fields : Edit(t, u, F, c)
           \/ Delete(t)

Spec == Init /\ [][Next]_vars
=============================================================================
