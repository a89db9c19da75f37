--------------------------- MODULE LeaseArithmetic ---------------------------
(***************************************************************************)
(* The arithmetic of requestFD and requestProc (lease_k8s.go): how many    *)
(* credits of an ObjectQuota are handed out, how many a node asks for when *)
(* the quota gives no leaseBatchSize, and how many it is granted.          *)
(*                                                                         *)
(* An allocation map of ObjectQuota.status is a function from nodes to     *)
(* naturals.  A missing key of the Go map reads as 0 and no code path      *)
(* stores a 0 (a grant is the smaller of two positive numbers), so 0       *)
(* stands for "no entry".                                                  *)
(***************************************************************************)
EXTENDS Integers, FiniteSets

CONSTANT Node                   \* the nodes that run an agent

ASSUME NodeFinite == IsFiniteSet(Node)

MinOf(a, b) == IF a <= b THEN a ELSE b
MaxOf(a, b) == IF a >= b THEN a ELSE b

(***************************************************************************)
(* The credits an allocation map hands out, each as a pair of its holder   *)
(* and a number.  Counting them is the code's loop that adds up the values *)
(* of the map; a cardinality needs no recursion, so TLAPS can reason about *)
(* it with the library's facts on finite sets.                             *)
(***************************************************************************)
CreditsOf(f, S) == UNION {{n} \X (1..f[n]) : n \in S}

Allocated(f) == Cardinality(CreditsOf(f, Node))

\* Credits of a pool of the given size that nobody holds.
Available(total, f) == total - Allocated(f)

\* Mutant: the leaseBatchSize of the quota is ignored.
RequestSizeMutant(requested, total, defaultBatch) ==
    LET share == IF total <= 100 THEN total ELSE total \div 10
    IN  MinOf(MinOf(MaxOf(share, 10), defaultBatch), total)

(***************************************************************************)
(* The batch a node asks for: leaseBatchSize when it is positive, else a   *)
(* tenth of the limit (all of it up to 100), at least 10, at most the      *)
(* manager's default batch and never more than the limit.                  *)
(***************************************************************************)
RequestSize(requested, total, defaultBatch) ==
    IF requested > 0 THEN requested
    ELSE LET share == IF total <= 100 THEN total ELSE total \div 10
         IN  MinOf(MinOf(MaxOf(share, 10), defaultBatch), total)

\* Mutant: the grant is not cut to what the pool has left.
GrantSizeMutant(requested, total, f, defaultBatch) ==
    RequestSize(requested, total, defaultBatch)

\* What a node is granted.
GrantSize(requested, total, f, defaultBatch) ==
    MinOf(RequestSize(requested, total, defaultBatch), Available(total, f))

=============================================================================
