--------------------------- MODULE MCProfileRuns ---------------------------
(* ProfileRuns with two processes of one worker each. *)
EXTENDS ProfileRuns, TLC

CONSTANTS h1, h2, c1, c2, p1, p2, w1, w2

MCHome == (w1 :> p1) @@ (w2 :> p2)
OneHome == (w1 :> p1) @@ (w2 :> p1)

(* Bodies, catalogs, and the two processes with their workers. *)
SwapProcesses == (p1 :> p2) @@ (p2 :> p1) @@ (w1 :> w2) @@ (w2 :> w1)
Symmetry == Permutations({h1, h2}) \cup Permutations({c1, c2}) \cup {SwapProcesses}
OneHomeSymmetry == Permutations({h1, h2}) \cup Permutations({w1, w2})
=============================================================================
