----------------------------- MODULE CreditPool -----------------------------
(***************************************************************************)
(* What the lease manager promises, with no API server, no caches and no   *)
(* retries: a pool of credits per kind of object that nodes draw from.     *)
(* A node that holds nothing may be granted credits the pool really has;   *)
(* holders may lose all they hold; the administrator may resize the pool,  *)
(* or remove it and start again with nobody holding anything.              *)
(***************************************************************************)
EXTENDS LeaseArithmetic

CONSTANT Kind                   \* the kinds of objects that are limited

VARIABLES limit,                \* limit[k]: the size of the pool
          credits               \* credits[k][n]: what node n holds of it

poolVars == <<limit, credits>>

Nobody == [k \in Kind |-> [n \in Node |-> 0]]

PoolInit == limit \in [Kind -> Nat] /\ credits = Nobody

Grant(k, n) ==
    /\ credits[k][n] = 0
    /\ \E g \in 1..Available(limit[k], credits[k]) :
          credits' = [credits EXCEPT ![k][n] = g]
    /\ UNCHANGED limit

Withdraw ==
    /\ credits' \in [Kind -> [Node -> Nat]]
    /\ \A k \in Kind, n \in Node : credits'[k][n] \in {0, credits[k][n]}
    /\ UNCHANGED limit

Resize == limit' \in [Kind -> Nat] /\ UNCHANGED credits

Reset == limit' \in [Kind -> Nat] /\ credits' = Nobody

PoolNext ==
    \/ \E k \in Kind, n \in Node : Grant(k, n)
    \/ Withdraw
    \/ Resize
    \/ Reset

PoolSpec == PoolInit /\ [][PoolNext]_poolVars
=============================================================================
