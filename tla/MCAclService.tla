----------------------------- MODULE MCAclService -----------------------------
(***************************************************************************)
(* Instances of AclService for TLC.                                        *)
(***************************************************************************)
EXTENDS AclService, TLC

\* A few of the roles of pkg/acl/permissions.go.
OnlyOwner == {RoleOwner}
EditorAndAdmin == {RoleEditor, RoleFullAccess}

Symmetry == Permutations(Requests)
=============================================================================
