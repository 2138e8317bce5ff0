------------------------------ MODULE MCTable -------------------------------
(* The hash table on small capacities, with keys that collide.             *)
EXTENDS Table, TLC

CONSTANTS k1, k2, k3, k4, v1

MCKeys == {k1, k2, k3, k4}
MCValues == {Nil, v1}

\* k1 and k2 share every home slot; k3 starts at the last slot of the small
\* table, so its probe wraps; k4 shares that slot until the table has grown.
MCHash == (k1 :> 0) @@ (k2 :> 0) @@ (k3 :> 3) @@ (k4 :> 7)
=============================================================================
