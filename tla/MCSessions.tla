---------------------------- MODULE MCSessions ----------------------------
(* TLC instances of Sessions: the first browser owns every request but the *)
(* last, so its tabs race each other as well as the other browser.         *)
EXTENDS Sessions, TLC

CONSTANTS r1, r2, r3, b1, b2

TwoTabs  == (r1 :> b1) @@ (r2 :> b1)
ThreeRequests == (r1 :> b1) @@ (r2 :> b1) @@ (r3 :> b2)

Symmetry == Permutations(Users) \cup Permutations(SessionIds)
=============================================================================
