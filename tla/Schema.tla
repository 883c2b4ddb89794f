------------------------------- MODULE Schema -------------------------------
(***************************************************************************)
(* What the start of the server promises to whoever runs it, with no       *)
(* table of migrations, transactions or queries in it: the schema of the   *)
(* database climbs one level at a time and is never taken back, a server   *)
(* that has the migrations opens on the last level, whoever reached it,    *)
(* and an admin is added by a server on its way up, never next to another  *)
(* one of that email.  Startup is the code that has to keep this promise   *)
(* with several servers that start at once and die anywhere.               *)
(***************************************************************************)
EXTENDS Naturals

CONSTANTS
    Instances,
    Migrating,  \* those that have the migrations
    Files       \* the last level

VARIABLES
    level,      \* migrations applied
    named,      \* one of the users has the admin's email
    admins,     \* admins that were added
    starting,   \* servers on their way up
    up          \* servers that serve

vars == <<level, named, admins, starting, up>>

Init == level = 0 /\ named = FALSE /\ admins = 0 /\ starting = {} /\ up = {}

Start(i) ==
    /\ i \notin starting \cup up
    /\ starting' = starting \cup {i}
    /\ UNCHANGED <<level, named, admins, up>>

\* The server may not hear of its success and give up.
Upgrade(i) ==
    /\ i \in starting \cap Migrating
    /\ level < Files /\ level' = level + 1
    /\ starting' \in {starting, starting \ {i}}
    /\ UNCHANGED <<named, admins, up>>

Open(i) ==
    /\ i \in starting
    /\ i \in Migrating => level = Files
    /\ starting' = starting \ {i} /\ up' = up \cup {i}
    /\ UNCHANGED level

\* The table of the users is there from the first level on.
Seeds ==
    /\ level > 0 /\ ~named
    /\ named' = TRUE /\ admins' = admins + 1

Stop(i) ==
    /\ starting' = starting \ {i} /\ up' = up \ {i}
    /\ UNCHANGED <<level, named, admins>>

RenameAdmin ==
    /\ named /\ up # {}
    /\ named' = FALSE
    /\ UNCHANGED <<level, admins, starting, up>>

\* An account takes the admin's email, through a server that serves.
TakeEmail ==
    /\ level > 0 /\ ~named /\ up # {}
    /\ named' = TRUE
    /\ UNCHANGED <<level, admins, starting, up>>

Next ==
    \/ \E i \in Instances :
          \/ Start(i) \/ Upgrade(i) \/ Stop(i)
          \/ Open(i) /\ (Seeds \/ UNCHANGED <<named, admins>>)
    \/ RenameAdmin \/ TakeEmail

Spec == Init /\ [][Next]_vars
=============================================================================
