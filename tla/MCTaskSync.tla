------------------------------ MODULE MCTaskSync ------------------------------
(***************************************************************************)
(* Instances of TaskSync for TLC.                                          *)
(***************************************************************************)
EXTENDS TaskSync, TLC

CONSTANTS alice, bob

\* All the devices are Alice's; Bob's tasks and edits come from elsewhere.
OfAlice == [d \in Devices |-> alice]

Symmetry == Permutations(Requests) \cup Permutations(Tasks)
=============================================================================
