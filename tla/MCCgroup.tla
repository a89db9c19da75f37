------------------------------ MODULE MCCgroup ------------------------------
\* A node with a pod in each of two namespaces; one of them may have a quota.
EXTENDS CgroupMap

CONSTANTS a, b, p1, p2, c

PodNamespace == [x \in Pod |-> IF x = p1 THEN a ELSE b]

\* p1 may have a container, p2 has none.
PodContainers == [x \in Pod |-> IF x = p1 THEN {c} ELSE {}]

\* The quotas of namespace a limit both kinds; or one kind, or none.
BothKinds == [n \in Namespace |-> IF n = a THEN {{"fd", "proc"}} ELSE {}]
AnyKinds == [n \in Namespace |-> IF n = a THEN {{}, {"fd"}} ELSE {}]

ContainerEvicted == {<<"fd", <<p1, c>>>>}
PodStays == Kind \X {<<p1, "pod">>}
=============================================================================
