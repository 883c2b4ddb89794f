-------------------------------- MODULE MCHub --------------------------------
(***************************************************************************)
(* Instances of Hub for TLC: two connections, of one user or of two.       *)
(***************************************************************************)
EXTENDS Hub, TLC

CONSTANTS c1, c2, u1, u2

TwoUsers == (c1 :> u1) @@ (c2 :> u2)
SoleUser == (c1 :> u1)
OneUser == (c1 :> u1) @@ (c2 :> u1)

\* The two connections of one user are interchangeable.
ConnectionSymmetry == Permutations({c1, c2})
=============================================================================
