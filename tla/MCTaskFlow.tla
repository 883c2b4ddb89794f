----------------------------- MODULE MCTaskFlow -----------------------------
(***************************************************************************)
(* Instances of TaskFlow for TLC.                                          *)
(***************************************************************************)
EXTENDS TaskFlow, TLC

\* A role of pkg/acl/permissions.go.
OnlyOwner == {RoleOwner}

Symmetry == Permutations(Requests)
=============================================================================
