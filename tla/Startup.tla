------------------------------- MODULE Startup -------------------------------
(***************************************************************************)
(* From the start of the process to its first request: RunMigrations and   *)
(* seedSuperAdmin (internal/database/migrations.go, cmd/api/main.go), run  *)
(* by several instances of the server on one database.                     *)
(*                                                                         *)
(* Nothing but the database orders the instances.  Whether a file of       *)
(* migrations/ was applied is asked in a statement of its own; the file    *)
(* and the row of schema_migrations that records it are one transaction,   *)
(* and PostgreSQL makes the second of two inserts of one version wait for  *)
(* the end of the first one's transaction.  Whoever finds the row there is *)
(* refused and the process exits; nothing in it starts again by itself.    *)
(* The super admin is sought by email and inserted in another statement,   *)
(* and errors there are only logged.                                       *)
(***************************************************************************)
EXTENDS Naturals, Sequences

CONSTANTS
    Instances,
    Migrating,      \* those started where ./migrations exists
    Files,          \* number of files in migrations/, applied in order
    MaxStarts,      \* bound: times an instance is started
    MaxFaults,      \* bound: crashes and failing statements
    MaxRenames      \* bound: changes of the super admin's email

ASSUME MigratingAssumption == Migrating \subseteq Instances
ASSUME BoundsAssumption ==
    Files \in Nat \ {0} /\ MaxStarts \in Nat /\ MaxFaults \in Nat /\ MaxRenames \in Nat

VARIABLES
    (* the database *)
    created,    \* the table schema_migrations exists
    applied,    \* the versions in schema_migrations, in the order of their commits
    admins,     \* rows of users that seedSuperAdmin inserted
    named,      \* one of the rows of users has ADMIN_EMAIL
    (* the instances *)
    pc,         \* what the instance does next
    file,       \* the file it has come to
    starts,     \* times it was started
    (* history *)
    faults, renames,
    taken,      \* times an account of the routes took ADMIN_EMAIL
    overtaken   \* instances hit by a fault, or by a commit of another, since they started

vars == <<created, applied, admins, named, pc, file, starts, faults, renames, taken, overtaken>>

TypeOK ==
    /\ created \in BOOLEAN /\ applied \in Seq(1..Files)
    /\ admins \in Nat /\ named \in BOOLEAN
    /\ pc \in [Instances -> {"down", "table", "test", "exec", "record", "commit",
                             "seed", "create", "serve", "exited"}]
    /\ file \in [Instances -> 1..(Files + 1)]
    /\ starts \in [Instances -> 0..MaxStarts]
    /\ faults \in 0..MaxFaults /\ renames \in 0..MaxRenames
    /\ taken \in Nat /\ overtaken \subseteq Instances

Init ==
    /\ created = FALSE /\ applied = <<>>
    /\ admins = 0 /\ named = FALSE
    /\ pc = [i \in Instances |-> "down"]
    /\ file = [i \in Instances |-> 1]
    /\ starts = [i \in Instances |-> 0]
    /\ faults = 0 /\ renames = 0 /\ taken = 0 /\ overtaken = {}

-----------------------------------------------------------------------------
(* Helpers *)

Applied(f) == \E k \in 1..Len(applied) : applied[k] = f

\* The schema that the code behind the routes relies on; seedSuperAdmin needs
\* the table users of 001 only.
Migrated == \A f \in 1..Files : Applied(f)

Goto(i, a) == pc' = [pc EXCEPT ![i] = a]

Fault == faults < MaxFaults /\ faults' = faults + 1

Overtake(I) == overtaken' = overtaken \cup I

-----------------------------------------------------------------------------
(* Start *)

\* The process runs main into RunMigrations, which returns nil at once without
\* the directory, up to CREATE TABLE IF NOT EXISTS or, if the table is there,
\* past it.
Start(i) ==
    /\ pc[i] \in {"down", "exited"}
    /\ starts[i] < MaxStarts
    /\ starts' = [starts EXCEPT ![i] = @ + 1]
    /\ Goto(i, IF i \notin Migrating THEN "seed" ELSE IF created THEN "test" ELSE "table")
    /\ file' = [file EXCEPT ![i] = 1]
    /\ overtaken' = overtaken \ {i}
    /\ UNCHANGED <<created, applied, admins, named, faults, renames, taken>>

-----------------------------------------------------------------------------
(* RunMigrations *)

\* Faulty variant of CreateTable: a table that is there is replaced.
CreateTableAfresh(i) ==
    /\ pc[i] = "table"
    /\ created' = TRUE /\ applied' = <<>>
    /\ Goto(i, "test")
    /\ Overtake(Instances \ {i})
    /\ UNCHANGED <<admins, named, file, starts, faults, renames, taken>>

\* Of two instances that create the table at the same time the second may be
\* refused: PostgreSQL looks for the name before it inserts it.
CreateTable(i) ==
    /\ pc[i] = "table"
    /\ created' = TRUE
    /\ \/ Goto(i, "test")
       \/ created /\ Goto(i, "exited")
    /\ Overtake(IF created THEN {} ELSE Instances \ {i})
    /\ UNCHANGED <<applied, admins, named, file, starts, faults, renames, taken>>

\* Faulty variant of TestFile: a file that was applied is an error.
TestFileStrictly(i) ==
    /\ pc[i] = "test" /\ file[i] <= Files
    /\ Goto(i, IF Applied(file[i]) THEN "exited" ELSE "exec")
    /\ UNCHANGED <<created, applied, admins, named, file, starts, faults, renames, taken, overtaken>>

\* SELECT COUNT(*): go on with the next file or execute this one.
TestFile(i) ==
    /\ pc[i] = "test" /\ file[i] <= Files
    /\ IF Applied(file[i])
       THEN file' = [file EXCEPT ![i] = @ + 1] /\ UNCHANGED pc
       ELSE Goto(i, "exec") /\ UNCHANGED file
    /\ UNCHANGED <<created, applied, admins, named, starts, faults, renames, taken, overtaken>>

AllTested(i) ==
    /\ pc[i] = "test" /\ file[i] > Files
    /\ Goto(i, "seed")
    /\ UNCHANGED <<created, applied, admins, named, file, starts, faults, renames, taken, overtaken>>

\* tx.Exec of the file.  One that meets its own effects may do nothing or fail
\* (CREATE INDEX of 004 has no IF NOT EXISTS).
ExecFile(i) ==
    /\ pc[i] = "exec"
    /\ \/ Goto(i, "record")
       \/ Applied(file[i]) /\ Goto(i, "exited")
    /\ UNCHANGED <<created, applied, admins, named, file, starts, faults, renames, taken, overtaken>>

\* Faulty variants of RecordFile: schema_migrations has no primary key; the
\* insert waits for any transaction of another instance.
RecordFileAgain(i) ==
    /\ pc[i] = "record"
    /\ Goto(i, "commit")
    /\ UNCHANGED <<created, applied, admins, named, file, starts, faults, renames, taken, overtaken>>

RecordFileAlone(i) ==
    /\ pc[i] = "record"
    /\ \A j \in Instances \ {i} : pc[j] \notin {"record", "commit"}
    /\ Goto(i, IF Applied(file[i]) THEN "exited" ELSE "commit")
    /\ UNCHANGED <<created, applied, admins, named, file, starts, faults, renames, taken, overtaken>>

\* INSERT INTO schema_migrations waits for others that insert this version,
\* and is refused when one of them has committed.
RecordFile(i) ==
    /\ pc[i] = "record"
    /\ \A j \in Instances : ~(pc[j] = "commit" /\ file[j] = file[i])
    /\ Goto(i, IF Applied(file[i]) THEN "exited" ELSE "commit")
    /\ UNCHANGED <<created, applied, admins, named, file, starts, faults, renames, taken, overtaken>>

CommitFile(i) ==
    /\ pc[i] = "commit"
    /\ applied' = Append(applied, file[i])
    /\ Goto(i, "test")
    /\ file' = [file EXCEPT ![i] = @ + 1]
    /\ Overtake(Instances \ {i})
    /\ UNCHANGED <<created, admins, named, starts, faults, renames, taken>>

\* The reply of COMMIT is lost: the file is applied and the process exits.
CommitReplyLost(i) ==
    /\ pc[i] = "commit"
    /\ Fault
    /\ applied' = Append(applied, file[i])
    /\ Goto(i, "exited")
    /\ Overtake(Instances)
    /\ UNCHANGED <<created, admins, named, file, starts, renames, taken>>

\* Faulty variant of MigrationFails: the error is logged and the loop goes on.
MigrationSkipped(i) ==
    /\ pc[i] \in {"table", "test", "exec", "record", "commit"} /\ file[i] <= Files
    /\ Fault /\ Overtake({i})
    /\ Goto(i, "test")
    /\ file' = [file EXCEPT ![i] = @ + 1]
    /\ UNCHANGED <<created, applied, admins, named, starts, renames, taken>>

\* A statement fails: rollback, and log.Fatal.
MigrationFails(i) ==
    /\ pc[i] \in {"table", "test", "exec", "record", "commit"} /\ file[i] <= Files
    /\ Fault /\ Overtake({i})
    /\ Goto(i, "exited")
    /\ UNCHANGED <<created, applied, admins, named, file, starts, renames, taken>>

-----------------------------------------------------------------------------
(* seedSuperAdmin *)

\* EmailExists.
EmailExists(i) ==
    /\ pc[i] = "seed" /\ Applied(1)
    /\ Goto(i, IF named THEN "serve" ELSE "create")
    /\ UNCHANGED <<created, applied, admins, named, file, starts, faults, renames, taken, overtaken>>

\* Faulty variant of Create: users.email is not unique.
CreateAgain(i) ==
    /\ pc[i] = "create"
    /\ named' = TRUE /\ admins' = admins + 1
    /\ Goto(i, "serve")
    /\ UNCHANGED <<created, applied, file, starts, faults, renames, taken, overtaken>>

\* Repository.Create, refused when another row has the email by now.
Create(i) ==
    /\ pc[i] = "create"
    /\ named' = TRUE
    /\ admins' = IF named THEN admins ELSE admins + 1
    /\ Goto(i, "serve")
    /\ UNCHANGED <<created, applied, file, starts, faults, renames, taken, overtaken>>

\* An error is logged and the server starts without its admin; so it does
\* when there is no table users.
SeedFails(i) ==
    /\ \/ pc[i] \in {"seed", "create"} /\ Fault
       \/ pc[i] = "seed" /\ ~Applied(1) /\ UNCHANGED faults
    /\ UNCHANGED overtaken
    /\ Goto(i, "serve")
    /\ UNCHANGED <<created, applied, admins, named, file, starts, renames, taken>>

-----------------------------------------------------------------------------
\* The process dies; an open transaction is rolled back.
Crash(i) ==
    /\ pc[i] \notin {"down", "exited"}
    /\ Fault /\ Overtake({i})
    /\ Goto(i, "exited")
    /\ UNCHANGED <<created, applied, admins, named, file, starts, renames, taken>>

\* PUT /users/{id} gives the account with ADMIN_EMAIL another email.
RenameAdmin ==
    /\ named /\ renames < MaxRenames
    /\ \E i \in Instances : pc[i] = "serve"
    /\ named' = FALSE /\ renames' = renames + 1
    /\ UNCHANGED <<created, applied, admins, pc, file, starts, faults, taken, overtaken>>

\* POST /users registers an account with ADMIN_EMAIL, or a PUT gives it to one,
\* on an instance that serves: without the migrations, or while others start.
TakeEmail ==
    /\ ~named /\ Applied(1)
    /\ \E i \in Instances : pc[i] = "serve"
    /\ named' = TRUE /\ taken' = taken + 1
    /\ UNCHANGED <<created, applied, admins, pc, file, starts, faults, renames, overtaken>>

\* What the process does by itself.
Step(i) ==
    \/ CreateTable(i)
    \/ TestFile(i) \/ AllTested(i) \/ ExecFile(i) \/ RecordFile(i) \/ CommitFile(i)
    \/ EmailExists(i) \/ Create(i) \/ SeedFails(i)

Next ==
    \/ \E i \in Instances :
          Start(i) \/ Step(i) \/ CommitReplyLost(i) \/ MigrationFails(i) \/ Crash(i)
    \/ RenameAdmin \/ TakeEmail

Spec == Init /\ [][Next]_vars

\* A process that can run does, and PostgreSQL ends the wait for a transaction
\* that has ended.  Starts, faults and requests are not assumed.
Fairness == \A i \in Instances : WF_vars(Step(i))

FairSpec == Spec /\ Fairness

-----------------------------------------------------------------------------
(* Properties *)

\* However many instances start at once and wherever they die, each file is
\* applied once and after the ones before it (migrations.go:43-93).
AppliedOnceInOrder ==
    \A k \in 1..Len(applied) : applied[k] = k

\* An instance that found the migrations serves only on the complete schema,
\* though another one applied most of it (migrations.go:52-60, main.go:55).
ServesMigrated ==
    \A i \in Migrating : pc[i] \in {"seed", "create", "serve"} => Migrated

\* A process gives up only when something failed or another instance got ahead
\* of it meanwhile: as there are finitely many files, starting it again in the
\* end gets it through (migrations.go:42-92, main.go:55-57).
ExitsOvertaken ==
    \A i \in Instances : pc[i] = "exited" => i \in overtaken

\* Each holder of ADMIN_EMAIL but one was renamed; and while nothing failed and
\* nobody was renamed, a migrating instance serves with exactly one: the admin
\* of the seed or, when a request came first, the account that took its email,
\* which the seed mistakes for the admin (main.go:176-205).
AdminSeededOnce ==
    /\ admins + taken <= 1 + renames
    /\ faults = 0 /\ renames = 0 =>
          \A i \in Migrating : pc[i] = "serve" => admins + taken = 1

\* "Super Admin já existe" (main.go:182): a start without fault or rename ends
\* with the admin there.
AdminExists ==
    faults = 0 /\ renames = 0 => \A i \in Migrating : pc[i] = "serve" => admins = 1

\* Seen from outside, the schema climbs one level at a time, servers with the
\* migrations open on the last one, and each seeds at most the admin that is
\* missing when its insert takes effect (the doc of Schema says the promise).
Climb == INSTANCE Schema WITH
            level <- Len(applied),
            starting <- {i \in Instances : pc[i] \notin {"down", "exited", "serve"}},
            up <- {i \in Instances : pc[i] = "serve"}
ClimbsSchema == Climb!Spec

\* The wait for another instance's insert ends: whoever starts serves or exits.
StartEnds ==
    \A i \in Instances : pc[i] \in {"table", "test", "seed"} ~> pc[i] \in {"serve", "exited"}
=============================================================================
