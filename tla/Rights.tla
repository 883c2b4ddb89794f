------------------------------- MODULE Rights -------------------------------
(***************************************************************************)
(* What access control promises for one resource, with no rows, cache,     *)
(* trigger or statements in it.  Users hold permissions.  A request that   *)
(* is checked is let through when its user holds what it needs, or held it *)
(* less than a Lifetime ago, or is the owner of the resource while it is   *)
(* alive.  A sync is let through to the update and the delete, and only to *)
(* these, unchecked.  Only a request let through to the delete deletes.    *)
(* What users hold grows only by a request that was checked as one that    *)
(* may share or administer; otherwise it only runs out.  AclService is the *)
(* code that has to keep this promise.                                     *)
(***************************************************************************)
EXTENDS Naturals

CONSTANTS Users, Owner, Permissions, Requests,
          Lifetime  \* how long a permission that was lost may still be used

VARIABLES
    alive,      \* the resource was not deleted
    held,       \* per user: the permissions held
    age,        \* per user and permission: ticks since it was held
    serving,    \* requests let through, with what they need and whether it
                \* was checked
    writing     \* requests let through that may change what users hold

vars == <<alive, held, age, serving, writing>>

\* The task was just created and its owner is about to share it.
Init ==
    /\ alive = TRUE
    /\ held = [u \in Users |-> {}]
    /\ age = [u \in Users |-> [p \in Permissions |-> Lifetime]]
    /\ serving = {}
    /\ \E r \in Requests : writing = {[req |-> r, user |-> Owner]}

Owns(u) == alive /\ u = Owner

Lately(u, p) == age[u][p] < Lifetime

New(r) == \A a \in serving \cup writing : a.req # r

Admit(r, u, p) ==
    /\ Owns(u) \/ Lately(u, p)
    /\ New(r)
    /\ serving' = serving \cup {[req |-> r, user |-> u, need |-> {p}, checked |-> TRUE]}
    /\ UNCHANGED <<alive, held, age, writing>>

\* Whoever the user is.
AdmitUnchecked(r, u, p) ==
    /\ p \in {"WRITE", "DELETE"}
    /\ New(r)
    /\ serving' = serving \cup {[req |-> r, user |-> u, need |-> {p}, checked |-> FALSE]}
    /\ UNCHANGED <<alive, held, age, writing>>

AdmitWriter(r, u) ==
    /\ New(r)
    /\ Owns(u) \/ Lately(u, "SHARE") \/ Lately(u, "ADMIN")
    /\ writing' = writing \cup {[req |-> r, user |-> u]}
    /\ UNCHANGED <<alive, held, age, serving>>

\* The writer may be done, or go on.
Change(a) ==
    /\ a \in writing
    /\ held' \in [Users -> SUBSET Permissions]
    /\ LET now == held' IN
          age' = [u \in Users |-> [p \in Permissions |->
                     IF p \in now[u] THEN 0 ELSE age[u][p]]]
    /\ writing' \in {writing, writing \ {a}}
    /\ UNCHANGED <<alive, serving>>

End(a) ==
    /\ serving' = serving \ {a} /\ writing' = writing \ {a}
    /\ UNCHANGED <<alive, held, age>>

Delete ==
    /\ alive /\ \E a \in serving : a.need = {"DELETE"}
    /\ alive' = FALSE
    /\ UNCHANGED <<held, age, serving, writing>>

\* Time passes between requests; what is held may run out.
Tick ==
    /\ serving = {} /\ writing = {}
    /\ LET before == held IN
          /\ age' = [u \in Users |-> [p \in Permissions |->
                        IF p \in before[u] THEN 0
                        ELSE IF age[u][p] = Lifetime THEN Lifetime ELSE age[u][p] + 1]]
          /\ held' \in [Users -> SUBSET Permissions]
          /\ \A u \in Users : held'[u] \subseteq before[u]
    /\ UNCHANGED <<alive, serving, writing>>

Next ==
    \/ /\ serving' # serving
       /\ \E r \in Requests, u \in Users, p \in Permissions :
             Admit(r, u, p) \/ AdmitUnchecked(r, u, p)
    \/ /\ writing' # writing
       /\ \E r \in Requests, u \in Users : AdmitWriter(r, u)
    \/ \E a \in serving \cup writing : Change(a) \/ End(a)
    \/ Delete \/ Tick

Spec == Init /\ [][Next]_vars
=============================================================================
