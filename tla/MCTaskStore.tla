----------------------------- MODULE MCTaskStore -----------------------------
(***************************************************************************)
(* Instances of TaskStore for TLC.                                         *)
(***************************************************************************)
EXTENDS TaskStore, TLC

\* No definition of TaskStore distinguishes two users, tasks or requests.
Symmetry == Permutations(Users) \cup Permutations(Tasks) \cup Permutations(Requests)
=============================================================================
