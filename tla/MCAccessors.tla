---------------------------- MODULE MCAccessors -----------------------------
EXTENDS Accessors, TLC

CONSTANTS t1, t2, a1, a2, a3, i3, k1, k2, k3

(* One thread with two accessors, one with an accessor and an iterator.    *)
MCOwner == (a1 :> t1) @@ (a2 :> t1) @@ (a3 :> t2) @@ (i3 :> t2)

(* With 4 buckets k1 and k2 collide; an iterator meets empty buckets too.  *)
MCHash == (k1 :> 0) @@ (k2 :> 4) @@ (k3 :> 1)
=============================================================================
