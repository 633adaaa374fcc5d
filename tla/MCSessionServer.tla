-------------------------- MODULE MCSessionServer --------------------------
(***************************************************************************)
(* Instances of SessionServer for TLC. The set of requests is the only     *)
(* bound: each serves one API call after the other, so that neither the    *)
(* number of calls nor the number of sessions is limited, only how many    *)
(* there are at a time.                                                    *)
(***************************************************************************)
EXTENDS SessionServer

CONSTANTS r1, r2, r3

ThreeRequests == {r1, r2, r3}
TwoRequests == {r1, r2}

Symmetry == Permutations(Requests)

=============================================================================
