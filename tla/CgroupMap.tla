----------------------------- MODULE CgroupMap -----------------------------
(***************************************************************************)
(* Which cgroups of a node belong to which namespace: the pods' cgroups    *)
(* come and go, and the Syncer (syncer.go) enters them in the kernel maps  *)
(* fd_cgroup and proc_cgroup and in maps of its own.  Its callers are the  *)
(* workers of the two controllers (controller.go) and the scanner; the     *)
(* cgroups of a pod come from a resolver with a cache (cgroup.go).         *)
(***************************************************************************)
EXTENDS Naturals, FiniteSets

CONSTANTS Namespace, Pod,
          Nil,
          Containers,   \* Containers[p]: the containers that pod p may have
          NsOf,         \* NsOf[p]: the namespace of pod p
          Specs,        \* Specs[n]: the sets of kinds a quota in n may limit
          MayEvict,     \* the cgroups that other pods' may push out of a kernel map
          MayStay,      \* the elements of the kernel maps whose delete may fail
          MayFail,      \* may updates of the kernel maps fail?
          MayCrash,     \* may the agent crash?
          Resident,     \* the pods that run all the time
          Phases        \* bound: what other pods become

Kind == {"fd", "proc"}
Thread == {"quota", "pod"}      \* the workers of the two controllers
Dir == UNION {{p} \X (Containers[p] \cup {"pod"}) : p \in Pod}

\* The cgroup of a pod; those of its containers are below it.
PodDir(p) == <<p, "pod">>

ASSUME CgroupAssumption ==
    /\ IsFiniteSet(Dir)
    /\ \A p \in Pod : "pod" \notin Containers[p]
    /\ Nil \notin Namespace \cup Pod \cup Thread
    /\ \A s \in (SUBSET Dir) \cup (SUBSET Kind) : s # Nil
    /\ NsOf \in [Pod -> Namespace]
    /\ Specs \in [Namespace -> SUBSET (SUBSET Kind)]
    /\ MayEvict \subseteq Kind \X Dir
    /\ MayStay \subseteq Kind \X Dir
    /\ {MayFail, MayCrash} \subseteq BOOLEAN
    /\ Resident \subseteq Pod
    /\ Phases \subseteq {"active", "done", "gone"}

VARIABLES dir,          \* dir[g]: the cgroup directory; ids are never reused
          phase,        \* phase[p]: the pod in the agent's informer
          quota,        \* quota[n]: the kinds n's quota limits, Nil if it has none
          deleted,      \* the namespaces whose quota's deletion is in the workqueue
          mapped,       \* mapped[k][g]: fd_cgroup, proc_cgroup
          nsCgroups, cgroupPaths, nsNameByKey,  \* the Syncer's maps
          cached,       \* CachedPodResolver.cache
          lock,         \* the thread that holds Syncer.mu for longer than a step
          sync,         \* sync[t]: the SyncFromQuota thread t is in
          scan,         \* the scanner's tick
          agent,        \* the agent's process
          orphans       \* history: elements an error of the kernel left without a path

kube == <<dir, phase, quota>>
books == <<nsCgroups, cgroupPaths, nsNameByKey>>
vars == <<kube, deleted, mapped, books, cached, lock, sync, scan, agent, orphans>>

\* ns: the namespace; kinds: what is left to sync; pods: what is left to map;
\* pod, info: the pod being resolved and what was read; known: as in the code.
Sync == [pc : {"idle", "lock", "map", "store", "remove"},
         ns : Namespace \cup {Nil}, kinds : SUBSET Kind, pods : SUBSET Pod,
         pod : Pod \cup {Nil}, info : SUBSET Dir, known : SUBSET Dir]

NoSync == [pc |-> "idle", ns |-> Nil, kinds |-> {}, pods |-> {},
           pod |-> Nil, info |-> {}, known |-> {}]

\* The namespace in which the scanner found a pod directory, and the cgroups it
\* is about to map.
Scan == [ns : Namespace \cup {Nil}, info : SUBSET Dir]

Untracked == [n \in Namespace |-> Nil]

NoScan == [ns |-> Nil, info |-> {}]

Unmapped == [k \in Kind |-> [g \in Dir |-> Nil]]

TypeOK ==
    /\ dir \in [Dir -> {"new", "live", "gone"}]
    /\ phase \in [Pod -> {"new", "active", "done", "gone"}]
    /\ quota \in [Namespace -> {Nil} \cup SUBSET Kind]
    /\ deleted \subseteq Namespace
    /\ mapped \in [Kind -> [Dir -> Namespace \cup {Nil}]]
    /\ nsCgroups \in [Namespace -> {Nil} \cup SUBSET Dir]
    /\ cgroupPaths \subseteq Dir
    /\ nsNameByKey \subseteq Namespace
    /\ cached \in [Pod -> {Nil} \cup SUBSET Dir]
    /\ lock \in Thread \cup {Nil}
    /\ sync \in [Thread -> Sync]
    /\ \A t \in Thread : sync[t].pc \in {"map", "store"} <=> lock = t
    /\ scan \in Scan
    /\ agent \in {"up", "down", "panicked"}
    /\ orphans \subseteq Kind \X Dir

Init ==
    /\ dir = [g \in Dir |-> IF g \in {PodDir(p) : p \in Resident} THEN "live" ELSE "new"]
    /\ phase = [p \in Pod |-> IF p \in Resident THEN "active" ELSE "new"]
    /\ quota = [n \in Namespace |-> Nil]
    /\ deleted = {}
    /\ mapped = Unmapped
    /\ nsCgroups = Untracked
    /\ cgroupPaths = {} /\ nsNameByKey = {}
    /\ cached = [p \in Pod |-> Nil]
    /\ lock = Nil
    /\ sync = [t \in Thread |-> NoSync]
    /\ scan = NoScan
    /\ agent = "up"
    /\ orphans = {}

-----------------------------------------------------------------------------
\* The kubelet.

Live(g) == dir[g] = "live"

\* PodResolver.Resolve: the pod's cgroup and those below it.
PodCgroups(p) == {g \in Dir : g[1] = p /\ Live(g)}

\* A pod's cgroup exists before and after those of its containers.
CreateDir(g) ==
    /\ dir[g] = "new"
    /\ g # PodDir(g[1]) => Live(PodDir(g[1]))
    /\ dir' = [dir EXCEPT ![g] = "live"]
    /\ UNCHANGED <<phase, quota, deleted, mapped, books, cached, lock, sync, scan, agent, orphans>>

RemoveDir(g) ==
    /\ Live(g)
    /\ g = PodDir(g[1]) => g[1] \notin Resident /\ PodCgroups(g[1]) = {g}
    /\ dir' = [dir EXCEPT ![g] = "gone"]
    /\ UNCHANGED <<phase, quota, deleted, mapped, books, cached, lock, sync, scan, agent, orphans>>

-----------------------------------------------------------------------------
\* The informers' view of pods and quotas.

\* "active" is Pending or Running, "done" is Succeeded or Failed.
PodEvent(p, to) ==
    /\ p \notin Resident
    /\ <<phase[p], to>> \in {<<"new", "active">>, <<"active", "done">>,
                             <<"active", "gone">>, <<"done", "gone">>}
    /\ phase' = [phase EXCEPT ![p] = to]
    /\ UNCHANGED <<dir, quota, deleted, mapped, books, cached, lock, sync, scan, agent, orphans>>

\* An agent that is down does not hear of a deletion.
QuotaEvent(n, q) ==
    /\ q # quota[n]
    /\ quota' = [quota EXCEPT ![n] = q]
    /\ deleted' = IF q = Nil /\ agent = "up" THEN deleted \cup {n} ELSE deleted \ {n}
    /\ UNCHANGED <<dir, phase, mapped, books, cached, lock, sync, scan, agent, orphans>>

\* The maps live as long as the process.
Exit(how) ==
    /\ agent' = how
    /\ deleted' = {}
    /\ mapped' = Unmapped
    /\ nsCgroups' = Untracked
    /\ cgroupPaths' = {} /\ nsNameByKey' = {}
    /\ cached' = [p \in Pod |-> Nil]
    /\ lock' = Nil
    /\ sync' = [t \in Thread |-> NoSync]
    /\ scan' = NoScan
    /\ orphans' = {}
    /\ UNCHANGED kube

Crash == MayCrash /\ agent = "up" /\ Exit("down")

Restart ==
    /\ agent # "up"
    /\ agent' = "up"
    /\ UNCHANGED <<kube, deleted, mapped, books, cached, lock, sync, scan, orphans>>

-----------------------------------------------------------------------------
\* The reconcilers.

ActivePods(n) == {p \in Pod : NsOf[p] = n /\ phase[p] = "active"}

\* SyncFromQuota starts RemoveNamespace, or SyncNamespace or SyncProcessNamespace
\* up to the list of the pods; the lock is waited for afterwards.  A limit or a
\* counter that cannot be written ends the sync before.
SyncFromQuota(t, n, kinds) ==
    sync' = [sync EXCEPT ![t] =
               IF kinds = {} THEN [NoSync EXCEPT !.pc = "remove", !.ns = n]
               ELSE [NoSync EXCEPT !.pc = "lock", !.ns = n, !.kinds = kinds,
                                   !.pods = ActivePods(n)]]

\* What n's quota limits.
Limited(n) == IF quota[n] = Nil THEN {} ELSE quota[n]

\* ObjectQuotaReconciler.Reconcile.  A quota that exists may be reconciled at
\* any time: events, retries and the informer's resync enqueue it.  One that is
\* gone is cleaned up like one that limits nothing.
ReconcileQuota(n) ==
    /\ agent = "up"
    /\ quota[n] # Nil \/ n \in deleted
    /\ sync["quota"].pc = "idle"
    /\ deleted' = deleted \ {n}
    /\ SyncFromQuota("quota", n, Limited(n))
    /\ UNCHANGED <<kube, mapped, books, cached, lock, scan, agent, orphans>>

\* Mutant: the cached cgroups of the pod are kept.
InvalidateMutant(p) == cached

\* CachedPodResolver.Invalidate.
Invalidate(p) == [cached EXCEPT ![p] = Nil]

\* PodReconciler.Reconcile and SyncNamespaceFromQuota, at any time as well; for
\* a pod that is not active the reconcile changes nothing.
ReconcilePod(p) ==
    LET n == NsOf[p]
    IN  /\ agent = "up"
        /\ phase[p] = "active"
        /\ sync["pod"].pc = "idle"
        /\ cached' = Invalidate(p)
        /\ IF quota[n] = Nil THEN UNCHANGED sync
                             ELSE SyncFromQuota("pod", n, quota[n])
        /\ UNCHANGED <<kube, deleted, mapped, books, lock, scan, agent, orphans>>

-----------------------------------------------------------------------------
\* SyncNamespace and SyncProcessNamespace, from the lock on.

\* SyncFromQuota syncs descriptors before processes.
Syncing(t) == IF "fd" \in sync[t].kinds THEN "fd" ELSE "proc"

\* The kinds that are synced after this one.
Left(t) == sync[t].kinds \ {Syncing(t)}

\* Mutant: the error returns without unlocking.
SyncFailsMutant(t) ==
    /\ MayFail
    /\ sync[t].pods # {} \/ Left(t) # {}
    /\ sync' = [sync EXCEPT ![t] = NoSync]
    /\ lock' = lock

\* An error ends SyncFromQuota before it is through.
SyncFails(t) ==
    /\ MayFail
    /\ sync[t].pods # {} \/ Left(t) # {}
    /\ sync' = [sync EXCEPT ![t] = NoSync]
    /\ lock' = Nil

Lock(t) ==
    /\ sync[t].pc = "lock"
    /\ lock = Nil
    /\ lock' = t
    /\ nsNameByKey' = nsNameByKey \cup {sync[t].ns}
    /\ sync' = [sync EXCEPT ![t].pc = "map"]
    /\ UNCHANGED <<kube, deleted, mapped, nsCgroups, cgroupPaths, cached, scan, agent, orphans>>

\* Map m after the cgroups gs were entered for namespace n.
Entered(m, gs, n) == [g \in Dir |-> IF g \in gs THEN n ELSE m[g]]

\* The elements without a path once those of the cgroups gs are known.
Pathless(gs) == {o \in orphans : o[2] \notin gs}

\* updateCgroupMapping or updateProcCgroupMapping for the cgroups gs.
EnterCgroups(t, gs) ==
    LET k == Syncing(t)
    IN  /\ mapped' = [mapped EXCEPT ![k] = Entered(@, gs, sync[t].ns)]
        /\ cgroupPaths' = cgroupPaths \cup gs
        /\ orphans' = Pathless(gs)

\* The cgroups that Resolve returned for pod p are mapped, or all up to one
\* whose update fails: what was mapped stays, what is known is dropped.  The
\* pod's own cgroup comes last.
MapPod(t, p, info) ==
    /\ EnterCgroups(t, info)
    /\ sync' = [sync EXCEPT ![t] =
                  [sync[t] EXCEPT !.pc = "map", !.pods = @ \ {p}, !.pod = Nil,
                                  !.info = {}, !.known = @ \cup info]]
    /\ UNCHANGED lock

MapPodFails(t, p, info) ==
    /\ \E gs \in SUBSET (info \ {PodDir(p)}) : EnterCgroups(t, gs)
    /\ SyncFails(t)

\* CachedPodResolver.Resolve finds the pod in the cache ...
ResolveHit(t, p) ==
    /\ sync[t].pc = "map"
    /\ p \in sync[t].pods
    /\ cached[p] # Nil
    /\ MapPod(t, p, cached[p]) \/ MapPodFails(t, p, cached[p])
    /\ UNCHANGED <<kube, deleted, nsCgroups, nsNameByKey, cached, scan, agent>>

\* ... or reads the directories, without the cache's lock ...
ResolveMiss(t, p) ==
    /\ sync[t].pc = "map"
    /\ p \in sync[t].pods
    /\ cached[p] = Nil
    /\ sync' = [sync EXCEPT ![t] =
                  IF Live(PodDir(p))
                  THEN [sync[t] EXCEPT !.pc = "store", !.pod = p, !.info = PodCgroups(p)]
                  ELSE [sync[t] EXCEPT !.pods = @ \ {p}]]
    /\ UNCHANGED <<kube, deleted, mapped, books, cached, lock, scan, agent, orphans>>

\* ... and stores what it read.
ResolveStore(t) ==
    LET p == sync[t].pod  info == sync[t].info
    IN  /\ sync[t].pc = "store"
        /\ cached' = [cached EXCEPT ![p] = info]
        /\ MapPod(t, p, info) \/ MapPodFails(t, p, info)
        /\ UNCHANGED <<kube, deleted, nsCgroups, nsNameByKey, scan, agent>>

\* nsCgroups[ns] = known; then the next kind, or back to the reconciler.
FinishSync(t) ==
    /\ sync[t].pc = "map"
    /\ sync[t].pods = {}
    /\ nsCgroups' = [nsCgroups EXCEPT ![sync[t].ns] = sync[t].known]
    /\ \/ /\ Left(t) = {}
          /\ sync' = [sync EXCEPT ![t] = NoSync]
          /\ lock' = Nil
       \/ /\ Left(t) # {}
          /\ SyncFromQuota(t, sync[t].ns, Left(t))
          /\ lock' = Nil
       \/ SyncFails(t)
    /\ UNCHANGED <<kube, deleted, mapped, cgroupPaths, nsNameByKey, cached, scan, agent, orphans>>

-----------------------------------------------------------------------------
\* RemoveNamespace, after the limits and the counters.

\* What is tracked of namespace n.
Cgroups(n) == IF nsCgroups[n] = Nil THEN {} ELSE nsCgroups[n]

\* Mutant: the process map is forgotten.
WithoutCgroupsMutant(n, failed) ==
    [mapped EXCEPT !["fd"] = [g \in Dir |-> IF g \in Cgroups(n) /\ <<"fd", g>> \notin failed
                                           THEN Nil ELSE @[g]]]

\* deleteCgroupMapping and deleteProcCgroupMapping for what is tracked.
WithoutCgroups(n, failed) ==
    [k \in Kind |-> [g \in Dir |-> IF g \in Cgroups(n) /\ <<k, g>> \notin failed
                                  THEN Nil ELSE mapped[k][g]]]

\* The deletes for namespace n that fail: any of those that may.
Failing(n) == SUBSET {e \in MayStay : e[2] \in Cgroups(n) /\ mapped[e[1]][e[2]] # Nil}

\* A delete that fails is logged and never tried again: its element stays in
\* the kernel map, and the Syncer forgets the cgroup all the same.
RemoveCgroups(t) ==
    LET n == sync[t].ns
    IN  /\ sync[t].pc = "remove"
        /\ lock = Nil
        /\ \E failed \in Failing(n) :
              /\ mapped' = WithoutCgroups(n, failed)
              /\ orphans' = orphans \cup failed
        /\ cgroupPaths' = cgroupPaths \ Cgroups(n)
        /\ nsCgroups' = [nsCgroups EXCEPT ![n] = Nil]
        /\ nsNameByKey' = nsNameByKey \ {n}
        /\ sync' = [sync EXCEPT ![t] = NoSync]
        /\ UNCHANGED <<kube, deleted, cached, lock, scan, agent>>

-----------------------------------------------------------------------------
\* scanAndMapCgroups.

\* Mutant: the pod is not looked for in the namespace.
MatchedMutant(n, p) == phase[p] \in {"active", "done"}

\* The pod of the directory is among the pods of the namespace.
Matched(n, p) == NsOf[p] = n /\ phase[p] \in {"active", "done"}

\* A tick copies nsCgroups under the read lock, goes through the namespaces of
\* the copy and the pod directories, and reads those that are of a pod in the
\* namespace and not in the copy.  Visits do not depend on each other, so each one
\* is modelled with a copy of its own; what it reads it reads at once.
ScanPod(n, p) ==
    /\ scan = NoScan
    /\ lock = Nil
    /\ nsCgroups[n] # Nil
    /\ Live(PodDir(p))
    /\ PodDir(p) \notin nsCgroups[n]
    /\ Matched(n, p)
    /\ scan' = [ns |-> n, info |-> PodCgroups(p) \ nsCgroups[n]]
    /\ UNCHANGED <<kube, deleted, mapped, books, cached, lock, sync, agent, orphans>>

\* The updates that may succeed out of those of the cgroups gs.
Succeeding(gs) == IF MayFail THEN SUBSET gs ELSE {gs}

\* Under the lock, each cgroup that the tick did not know goes to both kernel
\* maps and then to nsCgroups[ns].  If RemoveNamespace deleted that entry since
\* the tick began, this writes to a nil map, and the process ends.
ScanWrite ==
    LET n == scan.ns
    IN  /\ scan # NoScan
        /\ lock = Nil
        /\ \E fd \in Succeeding(scan.info) : \E both \in Succeeding(fd) :
              \/ /\ both = {} \/ nsCgroups[n] # Nil
                 /\ mapped' = [mapped EXCEPT !["fd"] = Entered(@, fd, n),
                                            !["proc"] = Entered(@, both, n)]
                 /\ nsCgroups' = IF both = {} THEN nsCgroups
                                 ELSE [nsCgroups EXCEPT ![n] = @ \cup both]
                 /\ cgroupPaths' = cgroupPaths \cup both
                 /\ orphans' = Pathless(both) \cup ({"fd"} \X (fd \ (both \cup cgroupPaths)))
                 /\ scan' = NoScan
                 /\ UNCHANGED <<kube, deleted, nsNameByKey, cached, lock, sync, agent>>
              \/ /\ both # {} /\ nsCgroups[n] = Nil
                 /\ Exit("panicked")

-----------------------------------------------------------------------------
\* The cgroup maps are BPF_MAP_TYPE_LRU_HASH: the kernel drops entries to make
\* room for others.
Evict(k, g) ==
    /\ <<k, g>> \in MayEvict
    /\ mapped[k][g] # Nil
    /\ mapped' = [mapped EXCEPT ![k][g] = Nil]
    /\ orphans' = orphans \ {<<k, g>>}
    /\ UNCHANGED <<kube, deleted, books, cached, lock, sync, scan, agent>>

-----------------------------------------------------------------------------
SyncStep(t) ==
    \/ Lock(t)
    \/ \E p \in Pod : ResolveHit(t, p) \/ ResolveMiss(t, p)
    \/ ResolveStore(t) \/ FinishSync(t) \/ RemoveCgroups(t)

Kubelet == \E g \in Dir : CreateDir(g) \/ RemoveDir(g)

Informers ==
    \/ \E p \in Pod, to \in Phases : PodEvent(p, to)
    \/ \E n \in Namespace : \E q \in Specs[n] \cup {Nil} : QuotaEvent(n, q)

Reconcile == (\E n \in Namespace : ReconcileQuota(n)) \/ (\E p \in Pod : ReconcilePod(p))

Scanner == (\E n \in Namespace, p \in Pod : ScanPod(n, p)) \/ ScanWrite

Next ==
    \/ Kubelet \/ Informers \/ Crash \/ Restart
    \/ Reconcile \/ Scanner
    \/ \E k \in Kind, g \in Dir : Evict(k, g)
    \/ \E t \in Thread : SyncStep(t)

Spec == Init /\ [][Next]_vars

-----------------------------------------------------------------------------
\* Fairness.  Nothing is assumed of the kubelet, of pod events, of the scanner
\* and of the pod controller's updates, which may fail for ever.

\* Informers resync, and workers that are idle take what is in their queue.
Reconciles ==
    /\ \A n \in Namespace : WF_vars(ReconcileQuota(n))
    /\ \A p \in Pod : WF_vars(ReconcilePod(p))

\* Threads go on, and the mutex is granted to everyone who waits for it.
Progress ==
    \A t \in Thread : WF_vars(SyncStep(t)) /\ SF_vars(Lock(t) \/ RemoveCgroups(t))

\* The kernel refuses the quota controller's updates only so many times.
FailuresEnd == <>[][~SyncFails("quota")]_vars

FairSpec == Spec /\ Reconciles /\ Progress /\ FailuresEnd

-----------------------------------------------------------------------------
\* Properties.

\* The kernel maps, the Syncer's books and the resolver cache attribute a
\* cgroup to the namespace of its pod and to no other, whoever wrote the entry
\* and however old what it read was.
MappedToOwner ==
    /\ \A k \in Kind, g \in Dir : mapped[k][g] \in {NsOf[g[1]], Nil}
    /\ \A n \in Namespace : \A g \in Cgroups(n) : NsOf[g[1]] = n

(***************************************************************************)
(* What handleBreachEvent looks up is there: the path of every cgroup in   *)
(* the kernel maps, and the name of every namespace with cgroups.  The     *)
(* path is missing only where the kernel refused to delete the element, or *)
(* refused the process element after the scanner wrote the other one, and  *)
(* then only until a sync or the scanner enters the cgroup again.          *)
(***************************************************************************)
Killable ==
    /\ \A k \in Kind, g \in Dir :
          mapped[k][g] # Nil => g \in cgroupPaths \/ <<k, g>> \in orphans
    /\ \A n \in Namespace :
          nsCgroups[n] # Nil => n \in nsNameByKey /\ nsCgroups[n] \subseteq cgroupPaths

\* Cgroup g exists, and its pod runs in a namespace with a quota.
Watched(g) ==
    /\ agent = "up"
    /\ Live(g)
    /\ phase[g[1]] = "active"
    /\ quota[NsOf[g[1]]] # Nil

\* Such a cgroup is mapped again and again for what the quota limits, and its
\* path is known: a stale entry of the resolver cache, a failing sync, scan or
\* delete, a RemoveNamespace in flight or an eviction from the map never leaves
\* it uncounted, or counted without a path, for ever.
CgroupsMapped ==
    \A g \in Dir :
        <>[]Watched(g)
            => []<>(\A k \in Kind : k \in Limited(NsOf[g[1]])
                                      => mapped[k][g] # Nil /\ g \in cgroupPaths)

\* The scanner, which only retries what syncs missed, never ends the agent.
ScannerSurvives == agent # "panicked"
=============================================================================
