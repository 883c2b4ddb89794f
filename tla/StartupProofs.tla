---------------------------- MODULE StartupProofs ----------------------------
(***************************************************************************)
(* Proofs about Startup for any number of instances, files, starts, faults *)
(* and renames: the type invariant and the safety invariants that TLC      *)
(* checks on three instances.                                              *)
(***************************************************************************)
EXTENDS Startup, TLAPS

\* No instance is ahead of the table by more than the next file; the one whose
\* insert has gone through has exactly the next, and it is alone.
Progress ==
    /\ AppliedOnceInOrder
    /\ Len(applied) <= Files
    /\ \A i \in Instances :
          /\ file[i] <= Len(applied) + 1
          /\ pc[i] \in {"exec", "record", "commit"} => file[i] <= Files
          /\ pc[i] = "commit" => file[i] = Len(applied) + 1
    /\ \A i, j \in Instances : pc[i] = "commit" /\ pc[j] = "commit" => i = j

\* What will make an instance exit has happened to it after its start.
OvertakenInv ==
    /\ ExitsOvertaken
    /\ \A i \in Instances :
          /\ pc[i] = "table" /\ created => i \in overtaken
          /\ pc[i] \in {"exec", "record"} /\ Applied(file[i]) => i \in overtaken

\* Every holder of the email was seeded or took it, and all but the one that
\* holds it now were renamed.
SeedInv ==
    /\ admins + taken = renames + (IF named THEN 1 ELSE 0)
    /\ faults = 0 /\ renames = 0 =>
          \A i \in Migrating : pc[i] = "serve" => named

IInv == TypeOK /\ Progress /\ OvertakenInv /\ ServesMigrated /\ SeedInv

-----------------------------------------------------------------------------
(* The table schema_migrations *)

\* The files applied are the first ones.
LEMMA AppliedIsPrefix ==
    ASSUME TypeOK, AppliedOnceInOrder, NEW f \in Nat \ {0}
    PROVE  Applied(f) <=> f <= Len(applied)
  BY DEF Applied, AppliedOnceInOrder, TypeOK

\* The schema is complete when all the files are applied.
LEMMA MigratedIsAll ==
    ASSUME TypeOK, AppliedOnceInOrder
    PROVE  Migrated <=> Files <= Len(applied)
  <1>1. \A f \in 1..Files : Applied(f) <=> f <= Len(applied)
    BY AppliedIsPrefix, BoundsAssumption
  <1>2. Len(applied) \in Nat
    BY DEF TypeOK
  <1>3. Files \in 1..Files
    BY BoundsAssumption
  <1> QED BY <1>1, <1>2, <1>3, BoundsAssumption DEF Migrated

\* An instance that commits appends the next file.
LEMMA AppendNext ==
    ASSUME TypeOK, Progress, NEW i \in Instances, pc[i] = "commit",
           applied' = Append(applied, file[i])
    PROVE  /\ applied' \in Seq(1..Files)
           /\ Len(applied') = Len(applied) + 1 /\ Len(applied') <= Files
           /\ \A k \in 1..Len(applied') : applied'[k] = k
  BY BoundsAssumption DEF TypeOK, Progress, AppliedOnceInOrder

-----------------------------------------------------------------------------
(* The steps *)

\* Types.
LEMMA TypeStep ==
    ASSUME TypeOK, Progress, [Next]_vars
    PROVE  TypeOK'
  <1> USE BoundsAssumption
  <1>1. ASSUME NEW i \in Instances, Start(i) PROVE TypeOK'
    BY <1>1 DEF TypeOK, Start, Goto
  <1>2. ASSUME NEW i \in Instances, CreateTable(i) PROVE TypeOK'
    BY <1>2 DEF TypeOK, CreateTable, Goto, Overtake
  <1>3. ASSUME NEW i \in Instances, TestFile(i) PROVE TypeOK'
    <2>0. file[i] \in Nat /\ file[i] + 1 \in 1..(Files + 1)
      BY <1>3 DEF TypeOK, TestFile
    <2>1. file' \in [Instances -> 1..(Files + 1)]
      <3>1. CASE Applied(file[i])
        BY <1>3, <2>0, <3>1 DEF TypeOK, TestFile
      <3>2. CASE ~Applied(file[i])
        BY <1>3, <3>2 DEF TypeOK, TestFile
      <3> QED BY <3>1, <3>2
    <2>2. pc' = pc \/ pc' = [pc EXCEPT ![i] = "exec"]
      BY <1>3 DEF TestFile, Goto
    <2>3. UNCHANGED <<created, applied, admins, named, starts, faults, renames, taken, overtaken>>
      BY <1>3 DEF TestFile
    <2> QED BY <2>1, <2>2, <2>3 DEF TypeOK
  <1>4. ASSUME NEW i \in Instances, AllTested(i) PROVE TypeOK'
    BY <1>4 DEF TypeOK, AllTested, Goto
  <1>5. ASSUME NEW i \in Instances, ExecFile(i) PROVE TypeOK'
    BY <1>5 DEF TypeOK, ExecFile, Goto
  <1>6. ASSUME NEW i \in Instances, RecordFile(i) PROVE TypeOK'
    BY <1>6 DEF TypeOK, RecordFile, Goto
  <1>7. ASSUME NEW i \in Instances, CommitFile(i) PROVE TypeOK'
    <2>1. applied' \in Seq(1..Files)
      BY <1>7, AppendNext DEF CommitFile
    <2> QED BY <2>1, <1>7 DEF TypeOK, Progress, CommitFile, Goto, Overtake
  <1>8. ASSUME NEW i \in Instances, EmailExists(i) PROVE TypeOK'
    BY <1>8 DEF TypeOK, EmailExists, Goto
  <1>9. ASSUME NEW i \in Instances, Create(i) PROVE TypeOK'
    BY <1>9 DEF TypeOK, Create, Goto
  <1>10. ASSUME NEW i \in Instances, SeedFails(i) PROVE TypeOK'
    BY <1>10 DEF TypeOK, SeedFails, Goto, Fault
  <1>11. ASSUME NEW i \in Instances, CommitReplyLost(i) PROVE TypeOK'
    <2>1. applied' \in Seq(1..Files)
      BY <1>11, AppendNext DEF CommitReplyLost
    <2> QED BY <2>1, <1>11 DEF TypeOK, Progress, CommitReplyLost, Goto, Fault, Overtake
  <1>12. ASSUME NEW i \in Instances, MigrationFails(i) PROVE TypeOK'
    BY <1>12 DEF TypeOK, MigrationFails, Goto, Fault, Overtake
  <1>13. ASSUME NEW i \in Instances, Crash(i) PROVE TypeOK'
    BY <1>13 DEF TypeOK, Crash, Goto, Fault, Overtake
  <1>14. ASSUME RenameAdmin PROVE TypeOK'
    <2>1. renames' \in 0..MaxRenames
      BY <1>14 DEF TypeOK, RenameAdmin
    <2>2. /\ named' = FALSE
          /\ UNCHANGED <<created, applied, admins, pc, file, starts, faults, taken, overtaken>>
      BY <1>14 DEF RenameAdmin
    <2> QED BY <2>1, <2>2 DEF TypeOK
  <1>16. ASSUME TakeEmail PROVE TypeOK'
    BY <1>16 DEF TypeOK, TakeEmail
  <1>15. CASE UNCHANGED vars
    BY <1>15 DEF TypeOK, vars
  <1> QED
    BY <1>1, <1>2, <1>3, <1>4, <1>5, <1>6, <1>7, <1>8, <1>9, <1>10, <1>11, <1>12, <1>13,
       <1>14, <1>15, <1>16
       DEF Next, Step

\* Progress.
LEMMA ProgressStep ==
    ASSUME TypeOK, Progress, [Next]_vars, TypeOK'
    PROVE  Progress'
  <1> USE BoundsAssumption
  <1>1. ASSUME NEW i \in Instances, Start(i) PROVE Progress'
    BY <1>1 DEF TypeOK, Progress, AppliedOnceInOrder, Start, Goto
  <1>2. ASSUME NEW i \in Instances, CreateTable(i) PROVE Progress'
    BY <1>2 DEF TypeOK, Progress, AppliedOnceInOrder, CreateTable, Goto, Overtake
  <1>3. ASSUME NEW i \in Instances, TestFile(i) PROVE Progress'
    <2>0. file[i] \in Nat \ {0} /\ AppliedOnceInOrder
      BY DEF TypeOK, Progress
    <2>1. Applied(file[i]) <=> file[i] <= Len(applied)
      BY <2>0, AppliedIsPrefix
    <2>2. UNCHANGED applied /\ AppliedOnceInOrder'
      BY <1>3 DEF Progress, AppliedOnceInOrder, TestFile
    <2>3. CASE Applied(file[i])
      <3>1. UNCHANGED pc /\ file' = [file EXCEPT ![i] = @ + 1]
        BY <1>3, <2>3 DEF TestFile
      <3>2. file'[i] <= Len(applied) + 1 /\ pc[i] = "test"
        BY <1>3, <2>1, <2>3, <3>1 DEF TypeOK, TestFile
      <3>3. \A j \in Instances : j # i => file'[j] = file[j]
        BY <3>1 DEF TypeOK
      <3> QED BY <2>2, <3>1, <3>2, <3>3 DEF Progress
    <2>4. CASE ~Applied(file[i])
      <3>1. UNCHANGED file /\ pc' = [pc EXCEPT ![i] = "exec"] /\ file[i] <= Files
        BY <1>3, <2>4 DEF TestFile, Goto
      <3>2. /\ pc'[i] = "exec"
            /\ \A j \in Instances : j # i => pc'[j] = pc[j]
        BY <3>1 DEF TypeOK
      <3> QED BY <2>2, <3>1, <3>2 DEF Progress
    <2> QED BY <2>3, <2>4
  <1>4. ASSUME NEW i \in Instances, AllTested(i) PROVE Progress'
    BY <1>4 DEF TypeOK, Progress, AppliedOnceInOrder, AllTested, Goto
  <1>5. ASSUME NEW i \in Instances, ExecFile(i) PROVE Progress'
    BY <1>5 DEF TypeOK, Progress, AppliedOnceInOrder, ExecFile, Goto
  <1>6. ASSUME NEW i \in Instances, RecordFile(i) PROVE Progress'
    <2>0. file[i] \in Nat \ {0} /\ AppliedOnceInOrder
      BY DEF TypeOK, Progress
    <2>1. Applied(file[i]) <=> file[i] <= Len(applied)
      BY <2>0, AppliedIsPrefix
    <2> QED BY SMTT(30), <2>1, <1>6 DEF TypeOK, Progress, AppliedOnceInOrder, RecordFile, Goto
  <1>7. ASSUME NEW i \in Instances, CommitFile(i) PROVE Progress'
    <2>1. /\ Len(applied') = Len(applied) + 1 /\ Len(applied') <= Files
          /\ \A k \in 1..Len(applied') : applied'[k] = k
      BY <1>7, AppendNext DEF CommitFile
    <2>2. /\ pc[i] = "commit" /\ pc' = [pc EXCEPT ![i] = "test"]
          /\ file' = [file EXCEPT ![i] = @ + 1]
      BY <1>7 DEF CommitFile, Goto
    <2>3. file[i] = Len(applied) + 1 /\ file'[i] = Len(applied) + 2
      BY <2>2 DEF TypeOK, Progress
    <2>4. \A j \in Instances : j # i => file'[j] = file[j] /\ pc'[j] = pc[j] /\ pc[j] # "commit"
      BY <2>2 DEF TypeOK, Progress
    <2>5. pc'[i] = "test"
      BY <2>2 DEF TypeOK
    <2>6. \A j \in Instances : pc'[j] # "commit"
      BY <2>4, <2>5
    <2>7. \A j \in Instances : /\ file'[j] <= Len(applied') + 1
                               /\ pc'[j] \in {"exec", "record"} => file'[j] <= Files
      <3>1. Len(applied) \in Nat
        BY DEF TypeOK
      <3>2. ASSUME NEW j \in Instances, j # i
            PROVE  /\ file'[j] <= Len(applied') + 1
                   /\ pc'[j] \in {"exec", "record"} => file'[j] <= Files
        <4>1. file'[j] = file[j] /\ pc'[j] = pc[j]
          BY <2>4, <3>2
        <4>2. /\ file[j] \in Nat /\ file[j] <= Len(applied) + 1
              /\ pc[j] \in {"exec", "record"} => file[j] <= Files
          BY SMTT(30) DEF TypeOK, Progress
        <4>3. Len(applied') = Len(applied) + 1
          BY <2>1
        <4> QED BY <3>1, <4>1, <4>2, <4>3
      <3> QED BY <2>1, <2>3, <2>5, <3>1, <3>2
    <2> QED BY <2>1, <2>6, <2>7 DEF Progress, AppliedOnceInOrder
  <1>8. ASSUME NEW i \in Instances, EmailExists(i) PROVE Progress'
    BY <1>8 DEF TypeOK, Progress, AppliedOnceInOrder, EmailExists, Goto
  <1>9. ASSUME NEW i \in Instances, Create(i) PROVE Progress'
    BY <1>9 DEF TypeOK, Progress, AppliedOnceInOrder, Create, Goto
  <1>10. ASSUME NEW i \in Instances, SeedFails(i) PROVE Progress'
    BY <1>10 DEF TypeOK, Progress, AppliedOnceInOrder, SeedFails, Goto, Fault
  <1>11. ASSUME NEW i \in Instances, CommitReplyLost(i) PROVE Progress'
    <2>1. /\ Len(applied') = Len(applied) + 1 /\ Len(applied') <= Files
          /\ \A k \in 1..Len(applied') : applied'[k] = k
      BY <1>11, AppendNext DEF CommitReplyLost
    <2>2. UNCHANGED file /\ pc[i] = "commit" /\ pc' = [pc EXCEPT ![i] = "exited"]
      BY <1>11 DEF CommitReplyLost, Goto
    <2> QED BY SMTT(30), <2>1, <2>2 DEF TypeOK, Progress, AppliedOnceInOrder
  <1>12. ASSUME NEW i \in Instances, MigrationFails(i) PROVE Progress'
    BY <1>12 DEF TypeOK, Progress, AppliedOnceInOrder, MigrationFails, Goto, Fault, Overtake
  <1>13. ASSUME NEW i \in Instances, Crash(i) PROVE Progress'
    BY <1>13 DEF TypeOK, Progress, AppliedOnceInOrder, Crash, Goto, Fault, Overtake
  <1>14. ASSUME RenameAdmin PROVE Progress'
    BY <1>14 DEF TypeOK, Progress, AppliedOnceInOrder, RenameAdmin
  <1>16. ASSUME TakeEmail PROVE Progress'
    BY <1>16 DEF TypeOK, Progress, AppliedOnceInOrder, TakeEmail
  <1>15. CASE UNCHANGED vars
    BY <1>15 DEF Progress, AppliedOnceInOrder, vars
  <1> QED
    BY <1>1, <1>2, <1>3, <1>4, <1>5, <1>6, <1>7, <1>8, <1>9, <1>10, <1>11, <1>12, <1>13,
       <1>14, <1>15, <1>16
       DEF Next, Step

\* What makes an instance exit.
LEMMA OvertakenStep ==
    ASSUME TypeOK, Progress, OvertakenInv, [Next]_vars
    PROVE  OvertakenInv'
  <1> USE BoundsAssumption
  <1>1. ASSUME NEW i \in Instances, Start(i) PROVE OvertakenInv'
    BY <1>1 DEF TypeOK, OvertakenInv, ExitsOvertaken, Start, Goto, Applied
  <1>2. ASSUME NEW i \in Instances, CreateTable(i) PROVE OvertakenInv'
    BY <1>2 DEF TypeOK, OvertakenInv, ExitsOvertaken, CreateTable, Goto, Overtake, Applied
  <1>3. ASSUME NEW i \in Instances, TestFile(i) PROVE OvertakenInv'
    BY <1>3 DEF TypeOK, OvertakenInv, ExitsOvertaken, TestFile, Goto, Applied
  <1>4. ASSUME NEW i \in Instances, AllTested(i) PROVE OvertakenInv'
    BY <1>4 DEF TypeOK, OvertakenInv, ExitsOvertaken, AllTested, Goto, Applied
  <1>5. ASSUME NEW i \in Instances, ExecFile(i) PROVE OvertakenInv'
    BY <1>5 DEF TypeOK, OvertakenInv, ExitsOvertaken, ExecFile, Goto, Applied
  <1>6. ASSUME NEW i \in Instances, RecordFile(i) PROVE OvertakenInv'
    BY <1>6 DEF TypeOK, OvertakenInv, ExitsOvertaken, RecordFile, Goto, Applied
  <1>7. ASSUME NEW i \in Instances, CommitFile(i) PROVE OvertakenInv'
    BY <1>7 DEF TypeOK, OvertakenInv, ExitsOvertaken, CommitFile, Goto, Overtake
  <1>8. ASSUME NEW i \in Instances, EmailExists(i) PROVE OvertakenInv'
    BY <1>8 DEF TypeOK, OvertakenInv, ExitsOvertaken, EmailExists, Goto, Applied
  <1>9. ASSUME NEW i \in Instances, Create(i) PROVE OvertakenInv'
    BY <1>9 DEF TypeOK, OvertakenInv, ExitsOvertaken, Create, Goto, Applied
  <1>10. ASSUME NEW i \in Instances, SeedFails(i) PROVE OvertakenInv'
    BY <1>10 DEF TypeOK, OvertakenInv, ExitsOvertaken, SeedFails, Goto, Fault, Applied
  <1>11. ASSUME NEW i \in Instances, CommitReplyLost(i) PROVE OvertakenInv'
    BY <1>11 DEF TypeOK, OvertakenInv, ExitsOvertaken, CommitReplyLost, Goto, Fault, Overtake
  <1>12. ASSUME NEW i \in Instances, MigrationFails(i) PROVE OvertakenInv'
    BY <1>12 DEF TypeOK, OvertakenInv, ExitsOvertaken, MigrationFails, Goto, Fault, Overtake, Applied
  <1>13. ASSUME NEW i \in Instances, Crash(i) PROVE OvertakenInv'
    BY <1>13 DEF TypeOK, OvertakenInv, ExitsOvertaken, Crash, Goto, Fault, Overtake, Applied
  <1>14. ASSUME RenameAdmin PROVE OvertakenInv'
    BY <1>14 DEF OvertakenInv, ExitsOvertaken, Applied, RenameAdmin
  <1>16. ASSUME TakeEmail PROVE OvertakenInv'
    BY <1>16 DEF OvertakenInv, ExitsOvertaken, Applied, TakeEmail
  <1>15. CASE UNCHANGED vars
    BY <1>15 DEF OvertakenInv, ExitsOvertaken, Applied, vars
  <1> QED
    BY <1>1, <1>2, <1>3, <1>4, <1>5, <1>6, <1>7, <1>8, <1>9, <1>10, <1>11, <1>12, <1>13,
       <1>14, <1>15, <1>16
       DEF Next, Step

\* Who serves has seen all the files applied, and they stay.
LEMMA ServesStep ==
    ASSUME TypeOK, Progress, ServesMigrated, [Next]_vars, TypeOK', Progress'
    PROVE  ServesMigrated'
  <1> USE BoundsAssumption
  <1>0. Len(applied') >= Len(applied)
    <2>1. ASSUME NEW i \in Instances, CommitFile(i) \/ CommitReplyLost(i)
          PROVE  Len(applied') >= Len(applied)
      BY <2>1 DEF CommitFile, CommitReplyLost, TypeOK
    <2>2. UNCHANGED applied => Len(applied') >= Len(applied)
      BY DEF TypeOK
    <2> QED BY <2>1, <2>2 DEF Next, Step, vars, Start, CreateTable, TestFile, AllTested, ExecFile,
         RecordFile, EmailExists, Create, SeedFails, MigrationFails, Crash, RenameAdmin, TakeEmail
  <1>1. (Migrated <=> Files <= Len(applied)) /\ (Migrated <=> Files <= Len(applied))'
    BY MigratedIsAll, PTL DEF Progress
  <1>2. SUFFICES ASSUME NEW m \in Migrating, pc'[m] \in {"seed", "create", "serve"}
                 PROVE  Files <= Len(applied)
    BY <1>0, <1>1 DEF ServesMigrated, TypeOK
  <1>3. m \in Instances
    BY MigratingAssumption
  <1>4. CASE pc[m] \in {"seed", "create", "serve"}
    BY <1>1, <1>4 DEF ServesMigrated
  <1>5. CASE pc[m] \notin {"seed", "create", "serve"}
    <2>1. pc' # pc
      BY <1>2, <1>5
    <2>2. PICK i \in Instances :
             Start(i) \/ Step(i) \/ CommitReplyLost(i) \/ MigrationFails(i) \/ Crash(i)
      BY <2>1 DEF Next, vars, RenameAdmin, TakeEmail
    <2>3. \A j \in Instances \ {i} : pc'[j] = pc[j]
      BY <2>2 DEF Step, Start, CreateTable, TestFile, AllTested,
         ExecFile, RecordFile, CommitFile, EmailExists, Create, SeedFails, CommitReplyLost,
         MigrationFails, Crash, Goto, TypeOK
    <2>4. i = m
      BY <1>2, <1>3, <1>5, <2>3
    <2>5. \A a : Goto(m, a) => pc'[m] = a
      BY <1>3 DEF TypeOK, Goto
    <2>6. AllTested(m)
      <3>1. ~Start(m)
        BY <1>2, <2>5 DEF Start
      <3>2. ~CreateTable(m) /\ ~ExecFile(m) /\ ~RecordFile(m) /\ ~TestFile(m)
        BY <1>2, <1>5, <2>5 DEF CreateTable, ExecFile, RecordFile, TestFile
      <3>3. ~EmailExists(m) /\ ~Create(m) /\ ~SeedFails(m)
        BY <1>5 DEF EmailExists, Create, SeedFails
      <3>4. ~CommitFile(m) /\ ~CommitReplyLost(m) /\ ~MigrationFails(m) /\ ~Crash(m)
        BY <1>2, <2>5 DEF CommitFile, CommitReplyLost, MigrationFails, Crash
      <3> QED BY <2>2, <2>4, <3>1, <3>2, <3>3, <3>4 DEF Step
    <2> QED BY <1>3, <2>6 DEF AllTested, Progress, TypeOK
  <1> QED BY <1>4, <1>5

\* The super admin.
LEMMA SeedStep ==
    ASSUME TypeOK, Progress, ServesMigrated, SeedInv, [Next]_vars
    PROVE  SeedInv'
  <1> USE BoundsAssumption, MigratingAssumption
  <1>1. ASSUME NEW i \in Instances, Start(i) PROVE SeedInv'
    BY <1>1 DEF TypeOK, SeedInv, Start, Goto
  <1>2. ASSUME NEW i \in Instances, CreateTable(i) PROVE SeedInv'
    BY <1>2 DEF TypeOK, SeedInv, CreateTable, Goto, Overtake
  <1>3. ASSUME NEW i \in Instances, TestFile(i) PROVE SeedInv'
    BY <1>3 DEF TypeOK, SeedInv, TestFile, Goto
  <1>4. ASSUME NEW i \in Instances, AllTested(i) PROVE SeedInv'
    BY <1>4 DEF TypeOK, SeedInv, AllTested, Goto
  <1>5. ASSUME NEW i \in Instances, ExecFile(i) PROVE SeedInv'
    BY <1>5 DEF TypeOK, SeedInv, ExecFile, Goto
  <1>6. ASSUME NEW i \in Instances, RecordFile(i) PROVE SeedInv'
    BY <1>6 DEF TypeOK, SeedInv, RecordFile, Goto
  <1>7. ASSUME NEW i \in Instances, CommitFile(i) PROVE SeedInv'
    BY <1>7 DEF TypeOK, SeedInv, CommitFile, Goto, Overtake
  <1>8. ASSUME NEW i \in Instances, EmailExists(i) PROVE SeedInv'
    BY <1>8 DEF TypeOK, SeedInv, EmailExists, Goto
  <1>9. ASSUME NEW i \in Instances, Create(i) PROVE SeedInv'
    BY <1>9 DEF TypeOK, SeedInv, Create, Goto
  <1>10. ASSUME NEW i \in Instances, SeedFails(i) PROVE SeedInv'
    <2>1. i \in Migrating /\ pc[i] = "seed" => Applied(1)
      BY DEF ServesMigrated, Migrated
    <2> QED BY <2>1, <1>10 DEF TypeOK, SeedInv, SeedFails, Goto, Fault
  <1>11. ASSUME NEW i \in Instances, CommitReplyLost(i) PROVE SeedInv'
    BY <1>11 DEF TypeOK, SeedInv, CommitReplyLost, Goto, Fault, Overtake
  <1>12. ASSUME NEW i \in Instances, MigrationFails(i) PROVE SeedInv'
    BY <1>12 DEF TypeOK, SeedInv, MigrationFails, Goto, Fault, Overtake
  <1>13. ASSUME NEW i \in Instances, Crash(i) PROVE SeedInv'
    BY <1>13 DEF TypeOK, SeedInv, Crash, Goto, Fault, Overtake
  <1>14. ASSUME RenameAdmin PROVE SeedInv'
    BY <1>14 DEF TypeOK, SeedInv, RenameAdmin
  <1>16. ASSUME TakeEmail PROVE SeedInv'
    BY <1>16 DEF TypeOK, SeedInv, TakeEmail
  <1>15. CASE UNCHANGED vars
    BY <1>15 DEF SeedInv, vars
  <1> QED
    BY <1>1, <1>2, <1>3, <1>4, <1>5, <1>6, <1>7, <1>8, <1>9, <1>10, <1>11, <1>12, <1>13,
       <1>14, <1>15, <1>16
       DEF Next, Step

-----------------------------------------------------------------------------
LEMMA Initially == Init => IInv
  <1> USE BoundsAssumption, MigratingAssumption
  <1> SUFFICES ASSUME Init PROVE IInv
    OBVIOUS
  <1>1. TypeOK
    <2>1. applied \in Seq(1..Files) /\ file \in [Instances -> 1..(Files + 1)]
      BY DEF Init
    <2>2. pc \in [Instances -> {"down", "table", "test", "exec", "record", "commit",
                               "seed", "create", "serve", "exited"}]
      BY DEF Init
    <2>3. starts \in [Instances -> 0..MaxStarts]
      BY DEF Init
    <2>4. created \in BOOLEAN /\ named \in BOOLEAN
      BY Zenon DEF Init
    <2>5. admins \in Nat /\ taken \in Nat /\ faults \in 0..MaxFaults /\ renames \in 0..MaxRenames
      BY DEF Init
    <2>6. overtaken \subseteq Instances
      BY Zenon DEF Init
    <2> QED BY <2>1, <2>2, <2>3, <2>4, <2>5, <2>6 DEF TypeOK
  <1>2. Progress
    BY DEF Init, Progress, AppliedOnceInOrder
  <1>3. OvertakenInv
    BY DEF Init, OvertakenInv, ExitsOvertaken
  <1>4. ServesMigrated /\ SeedInv
    BY DEF Init, ServesMigrated, SeedInv
  <1> QED BY <1>1, <1>2, <1>3, <1>4 DEF IInv

LEMMA Inductive == IInv /\ [Next]_vars => IInv'
  BY TypeStep, ProgressStep, OvertakenStep, ServesStep, SeedStep DEF IInv

LEMMA Invariant == Spec => []IInv
  BY Initially, Inductive, PTL DEF Spec

\* The database and the instances keep their types.
THEOREM TypeCorrect == Spec => []TypeOK
  <1>1. IInv => TypeOK
    BY DEF IInv
  <1> QED BY Invariant, <1>1, PTL

\* However many instances start and wherever they die, each file is applied once
\* and after the ones before it.
THEOREM MigrationsInOrder == Spec => []AppliedOnceInOrder
  <1>1. IInv => AppliedOnceInOrder
    BY DEF IInv, Progress
  <1> QED BY Invariant, <1>1, PTL

\* An instance that found its migrations serves only on the complete schema.
THEOREM SchemaComplete == Spec => []ServesMigrated
  <1>1. IInv => ServesMigrated
    BY DEF IInv
  <1> QED BY Invariant, <1>1, PTL

\* A process gives up only when something failed or another one got ahead of it.
THEOREM ExitsJustified == Spec => []ExitsOvertaken
  <1>1. IInv => ExitsOvertaken
    BY DEF IInv, OvertakenInv
  <1> QED BY Invariant, <1>1, PTL

\* The email of the admin has one holder more than there were renames at most; a
\* migrating instance that serves without a fault or a rename has one: the admin,
\* unless an account of the routes took the email first.
THEOREM OneAdmin == Spec => []AdminSeededOnce
  <1>1. IInv => AdminSeededOnce
    <2>1. ASSUME IInv
          PROVE  /\ admins + taken = renames + (IF named THEN 1 ELSE 0)
                 /\ admins \in Nat /\ taken \in Nat /\ renames \in Nat /\ named \in BOOLEAN
      BY <2>1, BoundsAssumption DEF IInv, TypeOK, SeedInv
    <2>2. IInv => admins + taken <= 1 + renames
      BY <2>1
    <2>3. IInv /\ renames = 0 /\ named => admins + taken = 1
      BY <2>1
    <2>4. IInv /\ faults = 0 /\ renames = 0 =>
             \A i \in Migrating : pc[i] = "serve" => named
      BY DEF IInv, SeedInv
    <2> QED BY <2>2, <2>3, <2>4 DEF AdminSeededOnce
  <1> QED BY Invariant, <1>1, PTL
-----------------------------------------------------------------------------
(* The promise of Schema *)

Starting == {i \in Instances : pc[i] \notin {"down", "exited", "serve"}}
Up == {i \in Instances : pc[i] = "serve"}

\* Who is about to insert the admin has seen the table users, and only who has
\* the migrations goes through them.
ClimbInv ==
    \A i \in Instances :
        /\ pc[i] = "create" => Len(applied) > 0
        /\ pc[i] \in {"table", "test", "exec", "record", "commit"} => i \in Migrating

LEMMA ClimbInvStep ==
    ASSUME IInv, ClimbInv, [Next]_vars
    PROVE  ClimbInv'
  <1> USE DEF ClimbInv, IInv, TypeOK
  <1>1. Len(applied) \in Nat /\ (Applied(1) => Len(applied) > 0)
    BY DEF Applied
  <1>2. \A i \in Instances : Start(i) => ClimbInv'
    BY DEF Start, Goto
  <1>3. \A i \in Instances : CreateTable(i) => ClimbInv'
    BY DEF CreateTable, Goto
  <1>4. \A i \in Instances :
           TestFile(i) \/ AllTested(i) \/ ExecFile(i) \/ RecordFile(i) => ClimbInv'
    BY DEF TestFile, AllTested, ExecFile, RecordFile, Goto
  <1>5. \A i \in Instances : CommitFile(i) \/ CommitReplyLost(i) => ClimbInv'
    <2>1. \A i \in Instances : CommitFile(i) \/ CommitReplyLost(i) => Len(applied') > 0
      BY AppendNext DEF CommitFile, CommitReplyLost
    <2> QED BY <2>1 DEF CommitFile, CommitReplyLost, Goto
  <1>6. \A i \in Instances : EmailExists(i) => ClimbInv'
    BY <1>1 DEF EmailExists, Goto
  <1>7. \A i \in Instances : Create(i) \/ SeedFails(i) => ClimbInv'
    BY DEF Create, SeedFails, Goto
  <1>8. \A i \in Instances : MigrationFails(i) \/ Crash(i) => ClimbInv'
    BY DEF MigrationFails, Crash, Goto
  <1>9. RenameAdmin \/ TakeEmail \/ UNCHANGED vars => ClimbInv'
    BY DEF RenameAdmin, TakeEmail, vars
  <1> QED BY <1>2, <1>3, <1>4, <1>5, <1>6, <1>7, <1>8, <1>9 DEF Next, Step

\* The actions of the promise, in terms of this module.
LEMMA ClimbActions ==
    /\ Climb!Init <=> /\ Len(applied) = 0 /\ named = FALSE /\ admins = 0
                      /\ Starting = {} /\ Up = {}
    /\ \A i \in Instances :
          /\ Climb!Start(i) <=> /\ i \notin Starting \cup Up
                                /\ Starting' = Starting \cup {i}
                                /\ UNCHANGED <<Len(applied), named, admins, Up>>
          /\ Climb!Upgrade(i) <=> /\ i \in Starting \cap Migrating
                                  /\ Len(applied) < Files /\ Len(applied)' = Len(applied) + 1
                                  /\ Starting' \in {Starting, Starting \ {i}}
                                  /\ UNCHANGED <<named, admins, Up>>
          /\ Climb!Open(i) <=> /\ i \in Starting
                               /\ i \in Migrating => Len(applied) = Files
                               /\ Starting' = Starting \ {i} /\ Up' = Up \cup {i}
                               /\ UNCHANGED Len(applied)
          /\ Climb!Stop(i) <=> /\ Starting' = Starting \ {i} /\ Up' = Up \ {i}
                               /\ UNCHANGED <<Len(applied), named, admins>>
    /\ Climb!Seeds <=> /\ Len(applied) > 0 /\ ~named
                       /\ named' = TRUE /\ admins' = admins + 1
    /\ Climb!RenameAdmin <=> /\ named /\ Up # {} /\ named' = FALSE
                             /\ UNCHANGED <<Len(applied), admins, Starting, Up>>
    /\ Climb!TakeEmail <=> /\ Len(applied) > 0 /\ ~named /\ Up # {} /\ named' = TRUE
                           /\ UNCHANGED <<Len(applied), admins, Starting, Up>>
    /\ UNCHANGED Climb!vars <=> UNCHANGED <<Len(applied), named, admins, Starting, Up>>
  BY DEF Climb!Init, Climb!Start, Climb!Upgrade, Climb!Open, Climb!Stop, Climb!Seeds,
         Climb!RenameAdmin, Climb!TakeEmail, Climb!vars, Starting, Up

\* What the sets become when one instance goes from one place to another.
LEMMA Moves ==
    ASSUME TypeOK, NEW i \in Instances, NEW a, Goto(i, a)
    PROVE  /\ Starting' = IF a \in {"down", "exited", "serve"}
                          THEN Starting \ {i} ELSE Starting \cup {i}
           /\ Up' = IF a = "serve" THEN Up \cup {i} ELSE Up \ {i}
           /\ pc[i] = "serve" <=> i \in Up
           /\ pc[i] \notin {"down", "exited", "serve"} <=> i \in Starting
  <1>1. /\ pc' = [pc EXCEPT ![i] = a] /\ pc'[i] = a
        /\ \A j \in Instances : j # i => pc'[j] = pc[j]
    BY DEF Goto, TypeOK
  <1> QED BY <1>1 DEF Starting, Up

\* An instance that gets to the seed finds the last level if it has the
\* migrations.
LEMMA LastLevel ==
    ASSUME IInv, NEW i \in Migrating, pc[i] \in {"seed", "create", "serve"}
    PROVE  Len(applied) = Files
  <1>1. TypeOK /\ AppliedOnceInOrder /\ Len(applied) <= Files
    BY DEF IInv, Progress
  <1>2. Migrated
    BY DEF IInv, ServesMigrated
  <1>3. Files <= Len(applied)
    BY <1>1, <1>2, MigratedIsAll
  <1>4. Len(applied) \in Nat /\ Files \in Nat
    BY <1>1, BoundsAssumption DEF TypeOK
  <1> QED BY <1>1, <1>3, <1>4

\* A commit is an upgrade; who reaches "serve" opens, and seeds when its insert
\* adds a row; exits and crashes stop; nothing else is seen.
LEMMA ClimbStep ==
    ASSUME IInv, ClimbInv, [Next]_vars
    PROVE  [Climb!Next]_(Climb!vars)
  <1>0. TypeOK /\ Progress
    BY DEF IInv
  <1>1. ASSUME NEW i \in Instances, Start(i) PROVE Climb!Start(i)
    <2>1. PICK a \in {"seed", "test", "table"} : Goto(i, a)
      BY <1>1 DEF Start
    <2>2. pc[i] \in {"down", "exited"} /\ UNCHANGED <<applied, named, admins>>
      BY <1>1 DEF Start
    <2>3. /\ Starting' = Starting \cup {i} /\ Up' = Up \ {i}
          /\ i \notin Up /\ i \notin Starting
      BY <1>0, <2>1, <2>2, Moves
    <2>4. Up' = Up
      BY <2>3
    <2> QED BY <2>2, <2>3, <2>4, ClimbActions
  <1>2. ASSUME NEW i \in Instances,
               CreateTable(i) \/ TestFile(i) \/ AllTested(i) \/ ExecFile(i) \/ RecordFile(i)
        PROVE  Climb!Stop(i) \/ UNCHANGED Climb!vars
    <2>1. /\ pc[i] \in {"table", "test", "exec", "record"} /\ UNCHANGED <<applied, named, admins>>
          /\ \/ UNCHANGED pc
             \/ \E a \in {"test", "exec", "seed", "record", "commit", "exited"} : Goto(i, a)
      BY <1>2 DEF CreateTable, TestFile, AllTested, ExecFile, RecordFile
    <2>2. UNCHANGED Len(applied)
      BY <2>1
    <2>3. CASE UNCHANGED pc
      BY <2>1, <2>2, <2>3, ClimbActions DEF Starting, Up
    <2>4. CASE Goto(i, "exited")
      <3>1. Starting' = Starting \ {i} /\ Up' = Up \ {i}
        BY <1>0, <2>4, Moves
      <3> QED BY <2>1, <2>2, <3>1, ClimbActions
    <2>5. ASSUME NEW a \in {"test", "exec", "seed", "record", "commit"}, Goto(i, a)
          PROVE  UNCHANGED Climb!vars
      <3>1. /\ Starting' = Starting \cup {i} /\ Up' = Up \ {i}
            /\ i \in Starting /\ i \notin Up
        BY <1>0, <2>1, <2>5, Moves
      <3>2. UNCHANGED <<Starting, Up>>
        BY <3>1
      <3> QED BY <2>1, <2>2, <3>2, ClimbActions
    <2> QED BY <2>1, <2>3, <2>4, <2>5
  <1>3. ASSUME NEW i \in Instances, CommitFile(i) \/ CommitReplyLost(i) PROVE Climb!Upgrade(i)
    <2>1. /\ pc[i] = "commit" /\ applied' = Append(applied, file[i])
          /\ UNCHANGED <<named, admins>>
          /\ Goto(i, "test") \/ Goto(i, "exited")
      BY <1>3 DEF CommitFile, CommitReplyLost
    <2>2. Len(applied') = Len(applied) + 1 /\ Len(applied') <= Files
      BY <1>0, <2>1, AppendNext
    <2>3. Len(applied) < Files
      BY <1>0, <2>2, BoundsAssumption DEF TypeOK
    <2>4. i \in Migrating
      BY <2>1 DEF ClimbInv
    <2>5. /\ Starting' \in {Starting \cup {i}, Starting \ {i}} /\ Up' = Up \ {i}
          /\ i \in Starting /\ i \notin Up
      BY <1>0, <2>1, Moves
    <2>6. Starting' \in {Starting, Starting \ {i}} /\ Up' = Up
      BY <2>5
    <2> QED BY <2>1, <2>2, <2>3, <2>4, <2>5, <2>6, ClimbActions
  <1>4. ASSUME NEW i \in Instances, EmailExists(i) \/ Create(i) \/ SeedFails(i)
        PROVE  \/ UNCHANGED Climb!vars
               \/ Climb!Open(i) /\ (Climb!Seeds \/ UNCHANGED <<named, admins>>)
    <2>1. /\ pc[i] \in {"seed", "create"} /\ UNCHANGED applied
          /\ \/ Goto(i, "serve")
             \/ pc[i] = "seed" /\ Goto(i, "create") /\ UNCHANGED <<named, admins>>
      BY <1>4 DEF EmailExists, Create, SeedFails
    <2>2. UNCHANGED Len(applied)
      BY <2>1
    <2>3. CASE Goto(i, "create") /\ UNCHANGED <<named, admins>>
      <3>1. /\ Starting' = Starting \cup {i} /\ Up' = Up \ {i}
            /\ i \in Starting /\ i \notin Up
        BY <1>0, <2>1, <2>3, Moves
      <3>2. UNCHANGED <<Starting, Up>>
        BY <3>1
      <3> QED BY <2>2, <2>3, <3>2, ClimbActions
    <2>4. CASE Goto(i, "serve")
      <3>1. /\ Starting' = Starting \ {i} /\ Up' = Up \cup {i} /\ i \in Starting
        BY <1>0, <2>1, <2>4, Moves
      <3>2. i \in Migrating => Len(applied) = Files
        BY <2>1, LastLevel
      <3>3. Climb!Open(i)
        BY <2>2, <3>1, <3>2, ClimbActions
      <3>4. CASE UNCHANGED <<named, admins>>
        BY <3>3, <3>4
      <3>5. CASE ~UNCHANGED <<named, admins>>
        <4>1. Create(i)
          BY <1>4, <3>5 DEF EmailExists, SeedFails
        <4>2. ~named
          BY <1>0, <3>5, <4>1 DEF Create, TypeOK
        <4>3. named' = TRUE /\ admins' = admins + 1 /\ Len(applied) > 0
          BY <4>1, <4>2 DEF Create, ClimbInv
        <4> QED BY <3>3, <4>2, <4>3, ClimbActions
      <3> QED BY <3>4, <3>5
    <2> QED BY <2>1, <2>3, <2>4
  <1>5. ASSUME NEW i \in Instances, MigrationFails(i) \/ Crash(i) PROVE Climb!Stop(i)
    <2>1. Goto(i, "exited") /\ UNCHANGED <<applied, named, admins>>
      BY <1>5 DEF MigrationFails, Crash
    <2>2. Starting' = Starting \ {i} /\ Up' = Up \ {i}
      BY <1>0, <2>1, Moves
    <2> QED BY <2>1, <2>2, ClimbActions
  <1>6. ASSUME RenameAdmin PROVE Climb!RenameAdmin
    <2>1. named /\ Up # {} /\ named' = FALSE /\ UNCHANGED <<applied, admins, pc>>
      BY <1>6 DEF RenameAdmin, Up
    <2>2. UNCHANGED <<Len(applied), Starting, Up>>
      BY <2>1 DEF Starting, Up
    <2> QED BY <2>1, <2>2, ClimbActions
  <1>7. CASE UNCHANGED vars
    BY <1>7, ClimbActions DEF vars, Starting, Up
  <1>8. ASSUME TakeEmail PROVE Climb!TakeEmail
    <2>1. Len(applied) > 0
      BY <1>0, <1>8 DEF TakeEmail, Applied, TypeOK
    <2>2. ~named /\ Up # {} /\ named' = TRUE /\ UNCHANGED <<applied, admins, pc>>
      BY <1>8 DEF TakeEmail, Up
    <2>3. UNCHANGED <<Len(applied), Starting, Up>>
      BY <2>2 DEF Starting, Up
    <2> QED BY <2>1, <2>2, <2>3, ClimbActions
  <1> QED BY <1>1, <1>2, <1>3, <1>4, <1>5, <1>6, <1>7, <1>8 DEF Next, Step, Climb!Next

\* Whatever instances start together and wherever they die, what is seen of
\* them is the abstract climb: levels one by one and never back, servers open on
\* the last level, and no admin is added while there is one of that email.
THEOREM SchemaClimbs == Spec => ClimbsSchema
  <1>1. Init => Climb!Init /\ ClimbInv
    BY ClimbActions DEF Init, Starting, Up, ClimbInv
  <1>2. Spec => [](IInv /\ ClimbInv)
    BY Invariant, <1>1, ClimbInvStep, PTL DEF Spec
  <1>3. IInv /\ ClimbInv /\ [Next]_vars => [Climb!Next]_(Climb!vars)
    BY ClimbStep
  <1> QED BY <1>1, <1>2, <1>3, PTL DEF Spec, ClimbsSchema, Climb!Spec
=============================================================================
