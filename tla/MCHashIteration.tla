-------------------------- MODULE MCHashIteration --------------------------
EXTENDS HashIteration, TLC

CONSTANTS k1, k2, k3, t1, t2

MCThread == {t1, t2}
MCSymmetry == Permutations(MCThread)

(* Two buckets; k1 and k3 share the first.                                 *)
MCHash == (k1 :> 0) @@ (k2 :> 1) @@ (k3 :> 2)
=============================================================================
