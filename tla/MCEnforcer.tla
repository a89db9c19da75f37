----------------------------- MODULE MCEnforcer -----------------------------
\* One node with a few CPUs and pods.
EXTENDS Enforcer, TLC

CONSTANTS c1, c2, g1, g2, w1, w2

Symmetry == Permutations(CPU) \cup Permutations(Cgroup) \cup Permutations(Worker)
=============================================================================
