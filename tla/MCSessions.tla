------------------------------ MODULE MCSessions ------------------------------
(***************************************************************************)
(* Instances of Sessions for TLC.  No action tells two requests, two pairs *)
(* of tokens, two roles or two passwords apart.                            *)
(***************************************************************************)
EXTENDS Sessions, TLC

Symmetry ==
    Permutations(Requests) \cup Permutations(Grants)
        \cup Permutations(Roles) \cup Permutations(Passwords)
=============================================================================
