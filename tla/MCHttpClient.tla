---------------------------- MODULE MCHttpClient ----------------------------
(***************************************************************************)
(* HttpClient for TLC.  Addresses are interchangeable (nothing orders      *)
(* them), and so are requests.                                             *)
(***************************************************************************)
EXTENDS HttpClient, TLC

CONSTANTS r1, r2, r3, s1, s2, s3, s4

TwoRequests == {r1, r2}
ThreeRequests == {r1, r2, r3}
ThreeSlots == {s1, s2, s3}
FourSlots == {s1, s2, s3, s4}

Symmetry == Permutations(ThreeRequests) \cup Permutations(FourSlots)

=============================================================================
