---------------------------- MODULE MCHashTable ----------------------------
EXTENDS HashTable, TLC

CONSTANTS k1, k2, k3, t1, t2

MCThread1 == {t1}
MCThread2 == {t1, t2}

(* With 2 buckets k2 and k3 collide, with 3 buckets k1 and k3 do.          *)
MCHash == (k1 :> 0) @@ (k2 :> 1) @@ (k3 :> 3)

(* Two keys that part when the table grows from 1 to 2 buckets.            *)
MCHash2 == (k1 :> 0) @@ (k2 :> 1)

(* All keys in one bucket.                                                 *)
MCHashCollide == (k1 :> 0) @@ (k2 :> 2) @@ (k3 :> 4)
=============================================================================
