---------------------------- MODULE CgroupProofs ----------------------------
(***************************************************************************)
(* Whom the Syncer's maps attribute a cgroup to, and what a breach needs   *)
(* to be turned into a kill, for any pods, containers and namespaces.      *)
(***************************************************************************)
EXTENDS CgroupMap, TLAPS

-----------------------------------------------------------------------------
\* The inductive invariant.

\* A sync of a thread works on one namespace: the pods it still has to map and
\* the cgroups it has mapped are of that namespace, and what it read from the
\* directories is of the pod it is at, one of those.
Consistent(s) ==
    /\ s.pc # "idle" => s.ns \in Namespace
    /\ \A p \in s.pods : NsOf[p] = s.ns
    /\ \A g \in s.known : NsOf[g[1]] = s.ns
    /\ s.pc = "lock" => s.known = {}
    /\ s.pc = "store" => s.pod \in s.pods /\ \A g \in s.info : g[1] = s.pod

SyncsConsistent == \A t \in Thread : Consistent(sync[t])

\* The resolver cache holds a pod's own cgroups, however old.
CacheConsistent == \A p \in Pod : cached[p] # Nil => \A g \in cached[p] : g[1] = p

\* The scanner's tick works on one namespace, too.
ScanConsistent ==
    /\ scan # NoScan => scan.ns \in Namespace
    /\ \A g \in scan.info : NsOf[g[1]] = scan.ns

\* The cgroup g is known by its path if it is in the kernel map k, unless an
\* error of the kernel left it without one.
Findable(k, g) ==
    mapped[k][g] # Nil => g \in cgroupPaths \/ <<k, g>> \in orphans

\* A sync that has the mutex wrote the name of its namespace and the paths of
\* what it mapped, and nobody else can remove them.
SyncsNamed ==
    \A t \in Thread :
        sync[t].pc \in {"map", "store"}
            => sync[t].ns \in nsNameByKey /\ sync[t].known \subseteq cgroupPaths

OwnerInv == MappedToOwner /\ SyncsConsistent /\ CacheConsistent /\ ScanConsistent

CgroupInv == TypeOK /\ OwnerInv /\ Killable /\ SyncsNamed

-----------------------------------------------------------------------------
\* Constants.

\* A cgroup directory is of a pod, and every pod has one of its own.
LEMMA Dirs == /\ \A g \in Dir : g[1] \in Pod
              /\ \A p \in Pod : PodDir(p) \in Dir /\ PodDir(p)[1] = p
BY DEF Dir, PodDir

\* Nil is neither a set of cgroups nor a set of kinds, nor anything named.
LEMMA NilIsNothing ==
    /\ \A gs \in SUBSET Dir : gs # Nil
    /\ \A ks \in SUBSET Kind : ks # Nil
    /\ Nil \notin Namespace /\ Nil \notin Pod /\ Nil \notin Thread
    /\ \A p \in Pod : NsOf[p] \in Namespace
BY CgroupAssumption

-----------------------------------------------------------------------------
\* The syncs.

\* A thread that is in no sync.
LEMMA NoSyncFits == NoSync \in Sync /\ NoSync.pc = "idle" /\ Consistent(NoSync)
BY DEF NoSync, Sync, Consistent

\* What SyncFromQuota starts is a sync of one namespace, without the mutex.
LEMMA Starts ==
    ASSUME NEW t \in Thread, NEW n \in Namespace, NEW kinds \in SUBSET Kind,
           SyncFromQuota(t, n, kinds)
    PROVE  \E s \in Sync : /\ sync' = [sync EXCEPT ![t] = s]
                           /\ s.pc \in {"lock", "remove"}
                           /\ Consistent(s)
<1> DEFINE r == [NoSync EXCEPT !.pc = "remove", !.ns = n]
           l == [NoSync EXCEPT !.pc = "lock", !.ns = n, !.kinds = kinds,
                               !.pods = ActivePods(n)]
<1>1. r \in Sync /\ r.pc = "remove" /\ Consistent(r)
  BY DEF NoSync, Sync, Consistent
<1>2. ActivePods(n) \in SUBSET Pod /\ \A p \in ActivePods(n) : NsOf[p] = n
  BY DEF ActivePods
<1>3. l \in Sync /\ l.pc = "lock" /\ Consistent(l)
  BY <1>2 DEF NoSync, Sync, Consistent
<1>4. sync' = [sync EXCEPT ![t] = IF kinds = {} THEN r ELSE l]
  BY DEF SyncFromQuota
<1> HIDE DEF r, l
<1> QED
  BY <1>1, <1>3, <1>4

\* The fields of a sync.
LEMMA SyncFields ==
    ASSUME TypeOK, NEW t \in Thread
    PROVE  /\ sync[t] \in Sync
           /\ sync[t].pods \in SUBSET Pod
           /\ sync[t].known \in SUBSET Dir
           /\ sync[t].info \in SUBSET Dir
           /\ sync[t].kinds \in SUBSET Kind
           /\ Syncing(t) \in Kind
           /\ Left(t) \in SUBSET Kind
BY DEF TypeOK, Sync, Syncing, Left, Kind

\* The part of TypeOK that says who has the mutex.
Mutex == \A t \in Thread : sync[t].pc \in {"map", "store"} <=> lock = t

\* A thread goes on with its sync; the mutex changes hands only with it.
LEMMA SyncMoves ==
    ASSUME TypeOK, SyncsConsistent, NEW t \in Thread, NEW s \in Sync, Consistent(s),
           sync' = [sync EXCEPT ![t] = s],
           lock' \in Thread \cup {Nil},
           s.pc \in {"map", "store"} <=> lock' = t,
           \A u \in Thread \ {t} : lock' = u <=> lock = u
    PROVE  /\ sync' \in [Thread -> Sync]
           /\ sync'[t] = s
           /\ \A u \in Thread \ {t} : sync'[u] = sync[u]
           /\ SyncsConsistent'
           /\ Mutex'
<1>1. /\ sync' \in [Thread -> Sync]
      /\ sync'[t] = s
      /\ \A u \in Thread \ {t} : sync'[u] = sync[u]
  BY DEF TypeOK
<1>2. SyncsConsistent'
  <2> SUFFICES ASSUME NEW u \in Thread PROVE Consistent(sync'[u])
    BY DEF SyncsConsistent
  <2> QED
    BY <1>1 DEF SyncsConsistent
<1>3. Mutex'
  BY <1>1 DEF TypeOK, Mutex
<1> QED
  BY <1>1, <1>2, <1>3

-----------------------------------------------------------------------------
\* The maps.

\* A map that attributes cgroups to the namespaces of their pods.
Owned(m) == m \in [Dir -> Namespace \cup {Nil}] /\ \A g \in Dir : m[g] \in {NsOf[g[1]], Nil}

\* What the invariant says of the kernel maps.
LEMMA MapsOwned ==
    ASSUME CgroupInv, NEW k \in Kind
    PROVE  Owned(mapped[k])
BY DEF CgroupInv, OwnerInv, MappedToOwner, TypeOK, Owned

\* Entering cgroups of one namespace keeps a map that way.
LEMMA EnteredOwned ==
    ASSUME NEW m, Owned(m), NEW n \in Namespace, NEW gs \in SUBSET Dir,
           \A g \in gs : NsOf[g[1]] = n
    PROVE  /\ Owned(Entered(m, gs, n))
           /\ \A g \in Dir : Entered(m, gs, n)[g] # Nil => g \in gs \/ m[g] # Nil
BY DEF Owned, Entered

\* What a sync may enter into the map of its kind.
LEMMA EnterKeeps ==
    ASSUME CgroupInv, NEW t \in Thread, sync[t].ns \in Namespace,
           NEW gs \in SUBSET Dir, \A g \in gs : NsOf[g[1]] = sync[t].ns,
           EnterCgroups(t, gs)
    PROVE  /\ mapped' \in [Kind -> [Dir -> Namespace \cup {Nil}]]
           /\ \A k \in Kind, g \in Dir : mapped'[k][g] \in {NsOf[g[1]], Nil}
           /\ \A k \in Kind, g \in Dir : Findable(k, g)'
           /\ cgroupPaths' = cgroupPaths \cup gs
           /\ cgroupPaths' \in SUBSET Dir
           /\ orphans' \subseteq Kind \X Dir
<1> DEFINE j == Syncing(t)
           m == Entered(mapped[j], gs, sync[t].ns)
<1>1. j \in Kind
  BY SyncFields DEF CgroupInv
<1>2. Owned(m) /\ \A g \in Dir : m[g] # Nil => g \in gs \/ mapped[j][g] # Nil
  BY <1>1, MapsOwned, EnteredOwned
<1>3. mapped \in [Kind -> [Dir -> Namespace \cup {Nil}]]
  BY DEF CgroupInv, TypeOK
<1>4. /\ mapped' = [mapped EXCEPT ![j] = m]
      /\ cgroupPaths' = cgroupPaths \cup gs
      /\ orphans' = Pathless(gs)
  BY <1>1, <1>3 DEF EnterCgroups
<1> HIDE DEF j, m
<1>5. \A k \in Kind : mapped'[k] = IF k = j THEN m ELSE mapped[k]
  BY <1>1, <1>3, <1>4
<1>6. \A k \in Kind : Owned(mapped'[k])
  BY <1>2, <1>5, MapsOwned
<1>7. \A k \in Kind, g \in Dir : Findable(k, g)'
  <2> SUFFICES ASSUME NEW k \in Kind, NEW g \in Dir, mapped'[k][g] # Nil, g \notin gs
               PROVE  g \in cgroupPaths' \/ <<k, g>> \in orphans'
    BY <1>4 DEF Findable
  <2>1. mapped[k][g] # Nil
    BY <1>2, <1>5
  <2>2. <<k, g>> \in orphans => <<k, g>> \in orphans'
    BY <1>4 DEF Pathless
  <2> QED
    BY <1>4, <2>1, <2>2 DEF CgroupInv, Killable
<1>8. cgroupPaths \in SUBSET Dir /\ orphans' \subseteq Kind \X Dir
  BY <1>4 DEF CgroupInv, TypeOK, Pathless
<1>9. mapped' \in [Kind -> [Dir -> Namespace \cup {Nil}]]
  <2>1. m \in [Dir -> Namespace \cup {Nil}]
    BY <1>2 DEF Owned
  <2> QED
    BY <1>3, <1>4, <2>1
<1> QED
  BY <1>4, <1>6, <1>7, <1>8, <1>9 DEF Owned

\* Namespace n is known by its name and its cgroups by their paths.
Tracked(n) ==
    nsCgroups[n] # Nil => n \in nsNameByKey /\ nsCgroups[n] \subseteq cgroupPaths

\* Killable, cgroup by cgroup and namespace by namespace.
LEMMA KillableParts ==
    /\ Killable <=> /\ \A k \in Kind, g \in Dir : Findable(k, g)
                    /\ \A n \in Namespace : Tracked(n)
    /\ Killable' <=> /\ \A k \in Kind, g \in Dir : Findable(k, g)'
                     /\ \A n \in Namespace : Tracked(n)'
BY DEF Killable, Findable, Tracked

-----------------------------------------------------------------------------
\* One lemma per action of a sync.

\* The pod's cgroups are entered, all of them or some before an error.
LEMMA MapPodKeeps ==
    ASSUME CgroupInv, NEW t \in Thread, sync[t].pc \in {"map", "store"},
           NEW p \in sync[t].pods,
           NEW info \in SUBSET Dir, \A g \in info : g[1] = p,
           MapPod(t, p, info) \/ MapPodFails(t, p, info),
           cached' \in [Pod -> {Nil} \cup SUBSET Dir], CacheConsistent',
           UNCHANGED <<kube, deleted, nsCgroups, nsNameByKey, scan, agent>>
    PROVE  CgroupInv'
<1>1. /\ TypeOK /\ SyncsConsistent /\ Consistent(sync[t])
      /\ lock = t
      /\ sync[t].ns \in Namespace /\ sync[t].ns \in nsNameByKey
      /\ sync[t].known \subseteq cgroupPaths
      /\ NsOf[p] = sync[t].ns
  BY DEF CgroupInv, OwnerInv, SyncsConsistent, Consistent, SyncsNamed, TypeOK
<1>2. \A g \in info : NsOf[g[1]] = sync[t].ns
  BY <1>1
<1>3. PICK gs \in SUBSET info : EnterCgroups(t, gs) /\ (MapPod(t, p, info) => gs = info)
  BY DEF MapPod, MapPodFails
<1>4. /\ mapped' \in [Kind -> [Dir -> Namespace \cup {Nil}]]
      /\ \A k \in Kind, g \in Dir : mapped'[k][g] \in {NsOf[g[1]], Nil}
      /\ \A k \in Kind, g \in Dir : Findable(k, g)'
      /\ cgroupPaths' = cgroupPaths \cup gs
      /\ cgroupPaths' \in SUBSET Dir
      /\ orphans' \subseteq Kind \X Dir
  BY <1>1, <1>2, <1>3, EnterKeeps
<1>5. PICK s \in Sync : /\ sync' = [sync EXCEPT ![t] = s]
                        /\ Consistent(s)
                        /\ lock' \in Thread \cup {Nil}
                        /\ s.pc \in {"map", "store"} <=> lock' = t
                        /\ \A u \in Thread \ {t} : lock' = u <=> lock = u
                        /\ s.pc \in {"map", "store"} =>
                              s.ns \in nsNameByKey /\ s.known \subseteq cgroupPaths'
  <2>1. CASE MapPod(t, p, info)
    <3> DEFINE s == [sync[t] EXCEPT !.pc = "map", !.pods = @ \ {p}, !.pod = Nil,
                                    !.info = {}, !.known = @ \cup info]
    <3>1. sync' = [sync EXCEPT ![t] = s] /\ lock' = lock
      BY <2>1 DEF MapPod
    <3>2. /\ s \in Sync /\ s.pc = "map" /\ s.ns = sync[t].ns
          /\ s.pods = sync[t].pods \ {p} /\ s.known = sync[t].known \cup info
      BY <1>1, SyncFields DEF Sync
    <3> HIDE DEF s
    <3>3. Consistent(s)
      BY <1>1, <1>2, <3>2 DEF Consistent
    <3>4. s.known \subseteq cgroupPaths'
      BY <1>1, <1>3, <1>4, <2>1, <3>2
    <3> QED
      BY <1>1, <3>1, <3>2, <3>3, <3>4
  <2>2. CASE MapPodFails(t, p, info)
    <3>1. sync' = [sync EXCEPT ![t] = NoSync] /\ lock' = Nil
      BY <2>2 DEF MapPodFails, SyncFails
    <3> QED
      BY <1>1, <3>1, NoSyncFits, NilIsNothing
  <2> QED
    BY <2>1, <2>2
<1>6. /\ sync' \in [Thread -> Sync] /\ sync'[t] = s
      /\ \A u \in Thread \ {t} : sync'[u] = sync[u]
      /\ SyncsConsistent' /\ Mutex'
  BY <1>1, <1>5, SyncMoves
<1>7. TypeOK'
  BY <1>4, <1>5, <1>6 DEF CgroupInv, TypeOK, Mutex, kube
<1>8. OwnerInv'
  BY <1>4, <1>6 DEF CgroupInv, OwnerInv, MappedToOwner, Cgroups, ScanConsistent
<1>9. Killable'
  <2>1. \A n \in Namespace : Tracked(n)'
    BY <1>4, KillableParts DEF CgroupInv, Tracked
  <2> QED
    BY <1>4, <2>1, KillableParts
<1>10. SyncsNamed'
  BY <1>4, <1>5, <1>6 DEF CgroupInv, SyncsNamed
<1> QED
  BY <1>7, <1>8, <1>9, <1>10 DEF CgroupInv

\* A thread goes on without a write to the maps of cgroups.
LEMMA SyncGoes ==
    ASSUME CgroupInv, NEW t \in Thread, NEW s \in Sync, Consistent(s),
           sync' = [sync EXCEPT ![t] = s],
           lock' \in Thread \cup {Nil},
           s.pc \in {"map", "store"} <=> lock' = t,
           \A u \in Thread \ {t} : lock' = u <=> lock = u,
           nsNameByKey' \in SUBSET Namespace, nsNameByKey \subseteq nsNameByKey',
           s.pc \in {"map", "store"} => s.ns \in nsNameByKey' /\ s.known \subseteq cgroupPaths,
           deleted' \subseteq deleted,
           cached' \in [Pod -> {Nil} \cup SUBSET Dir], CacheConsistent',
           UNCHANGED <<kube, mapped, nsCgroups, cgroupPaths, scan, agent, orphans>>
    PROVE  CgroupInv'
<1>1. /\ sync' \in [Thread -> Sync] /\ sync'[t] = s
      /\ \A u \in Thread \ {t} : sync'[u] = sync[u]
      /\ SyncsConsistent' /\ Mutex'
  BY SyncMoves DEF CgroupInv, OwnerInv
<1>2. TypeOK'
  BY <1>1 DEF CgroupInv, TypeOK, Mutex, kube
<1>3. OwnerInv'
  BY <1>1 DEF CgroupInv, OwnerInv, MappedToOwner, Cgroups, ScanConsistent
<1>4. Killable'
  BY DEF CgroupInv, Killable
<1>5. SyncsNamed'
  BY <1>1 DEF CgroupInv, SyncsNamed
<1> QED
  BY <1>2, <1>3, <1>4, <1>5 DEF CgroupInv

\* The pieces of the invariant that most steps use.
LEMMA InvFields ==
    ASSUME CgroupInv
    PROVE  /\ TypeOK /\ SyncsConsistent /\ CacheConsistent
           /\ cached \in [Pod -> {Nil} \cup SUBSET Dir]
           /\ nsNameByKey \in SUBSET Namespace
           /\ lock \in Thread \cup {Nil}
           /\ \A t \in Thread : /\ Consistent(sync[t])
                                /\ sync[t].pc \in {"map", "store"} <=> lock = t
BY DEF CgroupInv, OwnerInv, TypeOK, SyncsConsistent

\* A reconcile starts a sync.
LEMMA ReconcileKeeps == CgroupInv /\ Reconcile => CgroupInv'
<1> SUFFICES ASSUME CgroupInv, Reconcile PROVE CgroupInv'
  OBVIOUS
<1>1. ASSUME NEW n \in Namespace, ReconcileQuota(n) PROVE CgroupInv'
  <2>1. Limited(n) \in SUBSET Kind
    BY DEF CgroupInv, TypeOK, Limited
  <2>2. PICK s \in Sync : /\ sync' = [sync EXCEPT !["quota"] = s]
                          /\ s.pc \in {"lock", "remove"} /\ Consistent(s)
    BY <1>1, <2>1, Starts DEF ReconcileQuota, Thread
  <2>3. lock' = lock /\ lock # "quota" /\ "quota" \in Thread
    BY <1>1, InvFields DEF ReconcileQuota, Thread
  <2>4. CacheConsistent' /\ cached' = cached
    BY <1>1, InvFields DEF ReconcileQuota, CacheConsistent
  <2> QED
    BY <1>1, <2>2, <2>3, <2>4, InvFields, SyncGoes DEF ReconcileQuota, books
<1>2. ASSUME NEW p \in Pod, ReconcilePod(p) PROVE CgroupInv'
  <2>1. cached' \in [Pod -> {Nil} \cup SUBSET Dir] /\ CacheConsistent'
    BY <1>2, InvFields DEF ReconcilePod, Invalidate, CacheConsistent
  <2>2. CASE sync' = sync
    BY <1>2, <2>1, <2>2
    DEF ReconcilePod, CgroupInv, TypeOK, OwnerInv, MappedToOwner, Cgroups, SyncsConsistent,
        ScanConsistent, Killable, SyncsNamed, kube, books
  <2>3. CASE quota[NsOf[p]] # Nil
    <3>1. NsOf[p] \in Namespace /\ quota[NsOf[p]] \in SUBSET Kind
      BY <2>3, NilIsNothing DEF CgroupInv, TypeOK
    <3>2. PICK s \in Sync : /\ sync' = [sync EXCEPT !["pod"] = s]
                            /\ s.pc \in {"lock", "remove"} /\ Consistent(s)
      BY <1>2, <2>3, <3>1, Starts DEF ReconcilePod, Thread
    <3>3. lock' = lock /\ lock # "pod" /\ "pod" \in Thread
      BY <1>2, InvFields DEF ReconcilePod, Thread
    <3> QED
      BY <1>2, <2>1, <3>2, <3>3, InvFields, SyncGoes DEF ReconcilePod, books
  <2> QED
    BY <1>2, <2>2, <2>3 DEF ReconcilePod
<1> QED
  BY <1>1, <1>2 DEF Reconcile

\* A sync takes the mutex.
LEMMA LockKeeps ==
    ASSUME CgroupInv, NEW t \in Thread, Lock(t)
    PROVE  CgroupInv'
<1> DEFINE s == [sync[t] EXCEPT !.pc = "map"]
<1>1. /\ sync[t] \in Sync /\ Consistent(sync[t]) /\ sync[t].pc = "lock"
      /\ sync[t].ns \in Namespace
  BY SyncFields, InvFields DEF Lock, Consistent
<1>2. /\ s \in Sync /\ s.pc = "map" /\ s.ns = sync[t].ns /\ s.pods = sync[t].pods
      /\ s.known = sync[t].known
  BY <1>1 DEF Sync
<1>3. sync' = [sync EXCEPT ![t] = s]
  BY DEF Lock
<1> HIDE DEF s
<1>4. Consistent(s) /\ s.known = {}
  BY <1>1, <1>2 DEF Consistent
<1>5. CacheConsistent' /\ cached' = cached
  BY InvFields DEF Lock, CacheConsistent
<1>6. /\ lock' = t
      /\ \A u \in Thread \ {t} : lock' = u <=> lock = u
      /\ nsNameByKey' = nsNameByKey \cup {sync[t].ns}
      /\ deleted' \subseteq deleted
      /\ UNCHANGED <<kube, mapped, nsCgroups, cgroupPaths, scan, agent, orphans>>
  BY NilIsNothing DEF Lock
<1> QED
  BY <1>1, <1>2, <1>3, <1>4, <1>5, <1>6, InvFields, SyncGoes

\* The cgroups of a pod are looked for on disk.
LEMMA ResolveMissKeeps ==
    ASSUME CgroupInv, NEW t \in Thread, NEW p \in Pod, ResolveMiss(t, p)
    PROVE  CgroupInv'
<1> DEFINE r == [sync[t] EXCEPT !.pc = "store", !.pod = p, !.info = PodCgroups(p)]
           d == [sync[t] EXCEPT !.pods = @ \ {p}]
<1>1. /\ sync[t] \in Sync /\ Consistent(sync[t]) /\ sync[t].pc = "map" /\ lock = t
      /\ sync[t].ns \in nsNameByKey /\ sync[t].known \subseteq cgroupPaths
      /\ p \in sync[t].pods
  BY SyncFields, InvFields DEF ResolveMiss, CgroupInv, SyncsNamed
<1>2. PodCgroups(p) \in SUBSET Dir /\ \A g \in PodCgroups(p) : g[1] = p
  BY DEF PodCgroups
<1>3. /\ r \in Sync /\ r.pc = "store" /\ r.pod = p /\ r.info = PodCgroups(p)
      /\ r.ns = sync[t].ns /\ r.pods = sync[t].pods /\ r.known = sync[t].known
  BY <1>1, <1>2 DEF Sync
<1>4. /\ d \in Sync /\ d.pc = "map" /\ d.ns = sync[t].ns /\ d.known = sync[t].known
      /\ d.pods = sync[t].pods \ {p}
  BY <1>1 DEF Sync
<1>5. sync' = [sync EXCEPT ![t] = r] \/ sync' = [sync EXCEPT ![t] = d]
  BY DEF ResolveMiss
<1> HIDE DEF r, d
<1>6. Consistent(r) /\ Consistent(d)
  BY <1>1, <1>2, <1>3, <1>4 DEF Consistent
<1>7. CacheConsistent' /\ cached' = cached
  BY InvFields DEF ResolveMiss, CacheConsistent
<1> QED
  BY <1>1, <1>3, <1>4, <1>5, <1>6, <1>7, InvFields, SyncGoes DEF ResolveMiss, books

\* The cgroups of a pod are in the cache.
LEMMA ResolveHitKeeps ==
    ASSUME CgroupInv, NEW t \in Thread, NEW p \in Pod, ResolveHit(t, p)
    PROVE  CgroupInv'
<1>1. /\ cached[p] \in SUBSET Dir /\ \A g \in cached[p] : g[1] = p
      /\ CacheConsistent' /\ cached' = cached
  BY InvFields DEF ResolveHit, CacheConsistent
<1> QED
  BY <1>1, InvFields, MapPodKeeps DEF ResolveHit

\* What was found on disk goes to the cache and the maps.
LEMMA ResolveStoreKeeps ==
    ASSUME CgroupInv, NEW t \in Thread, ResolveStore(t)
    PROVE  CgroupInv'
<1> DEFINE p == sync[t].pod
           info == sync[t].info
<1>1. /\ p \in sync[t].pods /\ p \in Pod
      /\ info \in SUBSET Dir /\ \A g \in info : g[1] = p
  BY SyncFields, InvFields DEF ResolveStore, Consistent
<1>2. cached' = [cached EXCEPT ![p] = info]
  BY DEF ResolveStore
<1>3. cached' \in [Pod -> {Nil} \cup SUBSET Dir] /\ CacheConsistent'
  BY <1>1, <1>2, InvFields DEF CacheConsistent
<1>4. MapPod(t, p, info) \/ MapPodFails(t, p, info)
  BY DEF ResolveStore
<1> HIDE DEF p, info
<1> QED
  BY <1>1, <1>3, <1>4, MapPodKeeps DEF ResolveStore

\* A sync that gives up the mutex: it is over, or on to the next kind.
LEMMA FinishSyncKeeps ==
    ASSUME CgroupInv, NEW t \in Thread, FinishSync(t)
    PROVE  CgroupInv'
<1> DEFINE n == sync[t].ns
           known == sync[t].known
<1>1. /\ Consistent(sync[t]) /\ sync[t].pc = "map" /\ lock = t
      /\ n \in nsNameByKey /\ known \subseteq cgroupPaths
      /\ n \in Namespace /\ known \in SUBSET Dir /\ known # Nil
      /\ \A g \in known : NsOf[g[1]] = n
  BY SyncFields, InvFields, NilIsNothing
  DEF FinishSync, CgroupInv, SyncsNamed, Consistent
<1>2. nsCgroups' = [nsCgroups EXCEPT ![n] = known] /\ lock' = Nil
  BY DEF FinishSync, SyncFails
<1>3. PICK s \in Sync : /\ sync' = [sync EXCEPT ![t] = s]
                        /\ s.pc \notin {"map", "store"} /\ Consistent(s)
  <2>1. CASE sync' = [sync EXCEPT ![t] = NoSync]
    BY <2>1, NoSyncFits
  <2>2. CASE SyncFromQuota(t, n, Left(t))
    BY <1>1, <2>2, SyncFields, Starts DEF CgroupInv
  <2> QED
    BY <2>1, <2>2 DEF FinishSync, SyncFails
<1>4. UNCHANGED <<kube, deleted, mapped, cgroupPaths, nsNameByKey, cached, scan, agent, orphans>>
  BY DEF FinishSync
<1> HIDE DEF n, known
<1>5. /\ sync' \in [Thread -> Sync] /\ sync'[t] = s
      /\ \A u \in Thread \ {t} : sync'[u] = sync[u]
      /\ SyncsConsistent' /\ Mutex'
  BY <1>1, <1>2, <1>3, InvFields, NilIsNothing, SyncMoves
<1>6. /\ nsCgroups' \in [Namespace -> {Nil} \cup SUBSET Dir]
      /\ \A m \in Namespace : nsCgroups'[m] = IF m = n THEN known ELSE nsCgroups[m]
  BY <1>1, <1>2 DEF CgroupInv, TypeOK
<1>7. TypeOK'
  BY <1>2, <1>4, <1>5, <1>6 DEF CgroupInv, TypeOK, Mutex, kube
<1>8. OwnerInv'
  <2>1. MappedToOwner'
    BY <1>1, <1>4, <1>6 DEF CgroupInv, OwnerInv, MappedToOwner, Cgroups
  <2> QED
    BY <1>4, <1>5, <2>1 DEF CgroupInv, OwnerInv, CacheConsistent, ScanConsistent
<1>9. Killable'
  BY <1>1, <1>4, <1>6 DEF CgroupInv, Killable
<1>10. SyncsNamed'
  BY <1>3, <1>4, <1>5 DEF CgroupInv, SyncsNamed
<1> QED
  BY <1>7, <1>8, <1>9, <1>10 DEF CgroupInv

\* RemoveNamespace forgets just the cgroups of its namespace: those tracked of
\* others are of other pods, and nobody else has the mutex.
LEMMA RemoveCgroupsKeeps ==
    ASSUME CgroupInv, NEW t \in Thread, RemoveCgroups(t)
    PROVE  CgroupInv'
<1> DEFINE n == sync[t].ns
<1>1. n \in Namespace /\ lock = Nil /\ lock' = Nil
  BY InvFields DEF RemoveCgroups, Consistent
<1>2. PICK failed \in Failing(n) : mapped' = WithoutCgroups(n, failed) /\ orphans' = orphans \cup failed
  BY DEF RemoveCgroups
<1>3. /\ failed \subseteq Kind \X Dir
      /\ cgroupPaths' = cgroupPaths \ Cgroups(n)
      /\ nsCgroups' = [nsCgroups EXCEPT ![n] = Nil]
      /\ nsNameByKey' = nsNameByKey \ {n}
      /\ sync' = [sync EXCEPT ![t] = NoSync]
      /\ UNCHANGED <<kube, deleted, cached, scan, agent>>
  BY CgroupAssumption DEF RemoveCgroups, Failing
<1> HIDE DEF n
<1>4. /\ sync' \in [Thread -> Sync] /\ sync'[t] = NoSync
      /\ \A u \in Thread \ {t} : sync'[u] = sync[u]
      /\ SyncsConsistent' /\ Mutex'
  BY <1>1, <1>3, InvFields, NilIsNothing, NoSyncFits, SyncMoves
<1>5. /\ mapped' \in [Kind -> [Dir -> Namespace \cup {Nil}]]
      /\ \A k \in Kind, g \in Dir :
            mapped'[k][g] = IF g \in Cgroups(n) /\ <<k, g>> \notin failed
                            THEN Nil ELSE mapped[k][g]
  BY <1>2 DEF CgroupInv, TypeOK, WithoutCgroups
<1>6. /\ nsCgroups' \in [Namespace -> {Nil} \cup SUBSET Dir]
      /\ \A m \in Namespace : nsCgroups'[m] = IF m = n THEN Nil ELSE nsCgroups[m]
  BY <1>1, <1>3 DEF CgroupInv, TypeOK
<1>7. TypeOK'
  BY <1>1, <1>2, <1>3, <1>4, <1>5, <1>6 DEF CgroupInv, TypeOK, Mutex, kube
<1>8. OwnerInv'
  <2>1. MappedToOwner'
    BY <1>5, <1>6 DEF CgroupInv, OwnerInv, MappedToOwner, Cgroups
  <2> QED
    BY <1>3, <1>4, <2>1 DEF CgroupInv, OwnerInv, CacheConsistent, ScanConsistent
<1>9. Killable'
  <2>1. \A k \in Kind, g \in Dir : Findable(k, g)'
    BY <1>2, <1>3, <1>5 DEF CgroupInv, Killable, Findable
  <2>2. ASSUME NEW m \in Namespace, nsCgroups'[m] # Nil
        PROVE  m \in nsNameByKey' /\ nsCgroups'[m] \subseteq cgroupPaths'
    <3>1. m # n /\ nsCgroups'[m] = nsCgroups[m] /\ nsCgroups[m] # Nil
      BY <1>6, <2>2
    <3>2. m \in nsNameByKey /\ nsCgroups[m] \subseteq cgroupPaths
      BY <3>1 DEF CgroupInv, Killable
    <3>3. \A g \in nsCgroups[m] : g \notin Cgroups(n)
      BY <1>1, <3>1 DEF CgroupInv, OwnerInv, MappedToOwner, Cgroups
    <3> QED
      BY <1>3, <3>1, <3>2, <3>3
  <2> QED
    BY <2>1, <2>2, KillableParts DEF Tracked
<1>10. SyncsNamed'
  BY <1>1, <1>4, NoSyncFits, NilIsNothing, InvFields DEF SyncsNamed
<1> QED
  BY <1>7, <1>8, <1>9, <1>10 DEF CgroupInv

\* Every step of a sync keeps the invariant.
LEMMA SyncStepKeeps ==
    ASSUME CgroupInv, NEW t \in Thread, SyncStep(t)
    PROVE  CgroupInv'
BY LockKeeps, ResolveHitKeeps, ResolveMissKeeps, ResolveStoreKeeps, FinishSyncKeeps,
   RemoveCgroupsKeeps DEF SyncStep

-----------------------------------------------------------------------------
\* The other actors.

\* A process that ends takes all maps with it.
LEMMA ExitKeeps ==
    ASSUME CgroupInv, NEW how \in {"down", "panicked"}, Exit(how)
    PROVE  CgroupInv'
<1>1. /\ sync' = [t \in Thread |-> NoSync] /\ lock' = Nil /\ scan' = NoScan
      /\ mapped' = Unmapped /\ nsCgroups' = Untracked /\ cached' = [p \in Pod |-> Nil]
      /\ cgroupPaths' = {} /\ nsNameByKey' = {} /\ deleted' = {} /\ orphans' = {}
      /\ agent' = how /\ UNCHANGED kube
  BY DEF Exit
<1>2. NoScan \in Scan /\ NoScan.info = {}
  BY DEF NoScan, Scan
<1>3. /\ Unmapped \in [Kind -> [Dir -> Namespace \cup {Nil}]]
      /\ \A k \in Kind, g \in Dir : Unmapped[k][g] = Nil
  BY DEF Unmapped
<1>4. TypeOK'
  BY <1>1, <1>2, <1>3, NoSyncFits, NilIsNothing DEF CgroupInv, TypeOK, kube, Untracked
<1>5. OwnerInv'
  BY <1>1, <1>2, <1>3, NoSyncFits
  DEF OwnerInv, MappedToOwner, Cgroups, Untracked, SyncsConsistent, CacheConsistent, ScanConsistent
<1>6. Killable' /\ SyncsNamed'
  BY <1>1, <1>3, NoSyncFits DEF Killable, SyncsNamed, Untracked
<1> QED
  BY <1>4, <1>5, <1>6 DEF CgroupInv

\* A tick reads the cgroups of a pod of the namespace.
LEMMA ScanPodKeeps ==
    ASSUME CgroupInv, NEW n \in Namespace, NEW p \in Pod, ScanPod(n, p)
    PROVE  CgroupInv'
<1> DEFINE gs == PodCgroups(p) \ nsCgroups[n]
<1>1. gs \in SUBSET Dir /\ \A g \in gs : NsOf[g[1]] = n
  BY DEF ScanPod, Matched, PodCgroups
<1>2. /\ scan' = [ns |-> n, info |-> gs]
      /\ UNCHANGED <<kube, deleted, mapped, nsCgroups, cgroupPaths, nsNameByKey, cached,
                     lock, sync, agent, orphans>>
  BY DEF ScanPod, books
<1> HIDE DEF gs
<1>3. scan' \in Scan /\ scan'.ns = n /\ scan'.info = gs
  BY <1>1, <1>2 DEF Scan
<1>4. TypeOK'
  BY <1>2, <1>3 DEF CgroupInv, TypeOK, kube
<1>5. OwnerInv'
  BY <1>1, <1>2, <1>3
  DEF CgroupInv, OwnerInv, MappedToOwner, Cgroups, SyncsConsistent, CacheConsistent, ScanConsistent
<1>6. Killable' /\ SyncsNamed'
  BY <1>2 DEF CgroupInv, Killable, SyncsNamed
<1> QED
  BY <1>4, <1>5, <1>6 DEF CgroupInv

\* What the tick read is entered, all of it or what succeeds.
LEMMA ScanWriteKeeps ==
    ASSUME CgroupInv, ScanWrite
    PROVE  CgroupInv'
<1> DEFINE n == scan.ns
<1>1. /\ n \in Namespace /\ scan.info \in SUBSET Dir
      /\ \A g \in scan.info : NsOf[g[1]] = n
  BY DEF ScanWrite, CgroupInv, TypeOK, Scan, OwnerInv, ScanConsistent
<1>2. PICK fd \in Succeeding(scan.info) : \E gs \in Succeeding(fd) :
              \/ /\ gs = {} \/ nsCgroups[n] # Nil
                 /\ mapped' = [mapped EXCEPT !["fd"] = Entered(@, fd, n),
                                            !["proc"] = Entered(@, gs, n)]
                 /\ nsCgroups' = IF gs = {} THEN nsCgroups
                                 ELSE [nsCgroups EXCEPT ![n] = @ \cup gs]
                 /\ cgroupPaths' = cgroupPaths \cup gs
                 /\ orphans' = Pathless(gs) \cup ({"fd"} \X (fd \ (gs \cup cgroupPaths)))
                 /\ scan' = NoScan
                 /\ UNCHANGED <<kube, deleted, nsNameByKey, cached, lock, sync, agent>>
              \/ /\ gs # {} /\ nsCgroups[n] = Nil
                 /\ Exit("panicked")
  BY DEF ScanWrite
<1>3. CASE Exit("panicked")
  BY <1>3, ExitKeeps
<1>4. ASSUME NEW both \in Succeeding(fd),
             both = {} \/ nsCgroups[n] # Nil,
             mapped' = [mapped EXCEPT !["fd"] = Entered(@, fd, n),
                                      !["proc"] = Entered(@, both, n)],
             nsCgroups' = IF both = {} THEN nsCgroups
                          ELSE [nsCgroups EXCEPT ![n] = @ \cup both],
             cgroupPaths' = cgroupPaths \cup both,
             orphans' = Pathless(both) \cup ({"fd"} \X (fd \ (both \cup cgroupPaths))),
             scan' = NoScan,
             UNCHANGED <<kube, deleted, nsNameByKey, cached, lock, sync, agent>>
      PROVE  CgroupInv'
  <2>1. /\ fd \in SUBSET Dir /\ both \in SUBSET Dir /\ both \subseteq fd
        /\ \A g \in fd : NsOf[g[1]] = n
        /\ orphans' \subseteq Kind \X Dir
    BY <1>1, <1>4 DEF Succeeding, CgroupInv, TypeOK, Pathless, Kind
  <2> DEFINE f == Entered(mapped["fd"], fd, n)
             b == Entered(mapped["proc"], both, n)
  <2>2. /\ Owned(f) /\ Owned(b)
        /\ \A g \in Dir : f[g] # Nil => g \in fd \/ mapped["fd"][g] # Nil
        /\ \A g \in Dir : b[g] # Nil => g \in both \/ mapped["proc"][g] # Nil
    BY <1>1, <2>1, MapsOwned, EnteredOwned DEF Kind
  <2>3. mapped' \in [Kind -> [Dir -> Namespace \cup {Nil}]] /\ mapped'["fd"] = f /\ mapped'["proc"] = b
    <3>1. mapped \in [Kind -> [Dir -> Namespace \cup {Nil}]]
      BY DEF CgroupInv, TypeOK
    <3>2. mapped' = [mapped EXCEPT !["fd"] = f, !["proc"] = b]
      BY <1>4, <3>1 DEF Kind
    <3>3. f \in [Dir -> Namespace \cup {Nil}] /\ b \in [Dir -> Namespace \cup {Nil}]
      BY <2>2 DEF Owned
    <3> HIDE DEF f, b
    <3> QED
      BY <3>1, <3>2, <3>3 DEF Kind
  <2> HIDE DEF f, b, n
  <2>4. nsCgroups \in [Namespace -> {Nil} \cup SUBSET Dir]
    BY DEF CgroupInv, TypeOK
  <2>5. /\ nsCgroups' \in [Namespace -> {Nil} \cup SUBSET Dir]
        /\ \A m \in Namespace :
              \/ nsCgroups'[m] = nsCgroups[m]
              \/ m = n /\ nsCgroups[n] # Nil /\ nsCgroups'[n] = nsCgroups[n] \cup both
    BY <1>1, <1>4, <2>1, <2>4
  <2>6. NoScan \in Scan /\ NoScan.info = {}
    BY DEF NoScan, Scan
  <2>7. TypeOK'
    BY <1>4, <2>1, <2>3, <2>5, <2>6 DEF CgroupInv, TypeOK, kube
  <2>8. MappedToOwner'
    <3>1. \A k \in Kind, g \in Dir : mapped'[k][g] \in {NsOf[g[1]], Nil}
      BY <2>2, <2>3 DEF Owned, Kind
    <3>2. \A m \in Namespace : \A g \in Cgroups(m)' : NsOf[g[1]] = m
      BY <2>1, <2>5 DEF CgroupInv, OwnerInv, MappedToOwner, Cgroups
    <3> QED
      BY <3>1, <3>2 DEF MappedToOwner
  <2>9. OwnerInv'
    BY <1>4, <2>6, <2>8 DEF CgroupInv, OwnerInv, SyncsConsistent, CacheConsistent, ScanConsistent
  <2>10. Killable'
    <3>1. ASSUME NEW g \in Dir PROVE Findable("fd", g)' /\ Findable("proc", g)'
      <4>1. CASE g \in both
        BY <1>4, <4>1 DEF Findable
      <4>2. CASE g \notin both
        <5>1. \A k \in Kind : <<k, g>> \in orphans => <<k, g>> \in orphans'
          BY <1>4, <4>2 DEF Pathless
        <5>2. g \in fd /\ g \notin cgroupPaths => <<"fd", g>> \in orphans'
          BY <1>4, <4>2
        <5>3. \A k \in Kind : mapped[k][g] # Nil => g \in cgroupPaths \/ <<k, g>> \in orphans
          BY DEF CgroupInv, Killable
        <5> QED
          BY <1>4, <2>2, <2>3, <4>2, <5>1, <5>2, <5>3 DEF Findable, Kind
      <4> QED
        BY <4>1, <4>2
    <3>2. \A m \in Namespace : Tracked(m)'
      BY <1>4, <2>5, KillableParts DEF CgroupInv, Tracked
    <3> QED
      BY <3>1, <3>2, KillableParts DEF Kind
  <2>11. SyncsNamed'
    BY <1>4 DEF CgroupInv, SyncsNamed
  <2> QED
    BY <2>7, <2>9, <2>10, <2>11 DEF CgroupInv
<1> QED
  BY <1>2, <1>3, <1>4

\* The kernel drops an element of a map.
LEMMA EvictKeeps ==
    ASSUME CgroupInv, NEW k \in Kind, NEW g \in Dir, Evict(k, g)
    PROVE  CgroupInv'
<1>1. /\ mapped' = [mapped EXCEPT ![k][g] = Nil] /\ orphans' = orphans \ {<<k, g>>}
      /\ UNCHANGED <<kube, deleted, nsCgroups, cgroupPaths, nsNameByKey, cached, lock, sync,
                     scan, agent>>
  BY DEF Evict, books
<1>2. /\ mapped' \in [Kind -> [Dir -> Namespace \cup {Nil}]]
      /\ \A j \in Kind, h \in Dir : mapped'[j][h] \in {mapped[j][h], Nil}
      /\ \A j \in Kind, h \in Dir : mapped'[j][h] # Nil => <<j, h>> # <<k, g>>
  BY <1>1 DEF CgroupInv, TypeOK
<1>3. TypeOK'
  BY <1>1, <1>2 DEF CgroupInv, TypeOK, kube
<1>4. OwnerInv'
  BY <1>1, <1>2
  DEF CgroupInv, OwnerInv, MappedToOwner, Cgroups, SyncsConsistent, CacheConsistent, ScanConsistent
<1>5. Killable' /\ SyncsNamed'
  BY <1>1, <1>2 DEF CgroupInv, Killable, SyncsNamed
<1> QED
  BY <1>3, <1>4, <1>5 DEF CgroupInv

\* The steps that leave the Syncer alone.
LEMMA OutsideKeeps ==
    ASSUME CgroupInv,
           UNCHANGED <<mapped, nsCgroups, cgroupPaths, nsNameByKey, cached, lock, sync, scan, orphans>>,
           dir' \in [Dir -> {"new", "live", "gone"}],
           phase' \in [Pod -> {"new", "active", "done", "gone"}],
           quota' \in [Namespace -> {Nil} \cup SUBSET Kind],
           deleted' \subseteq Namespace,
           agent' \in {"up", "down", "panicked"}
    PROVE  CgroupInv'
<1>1. TypeOK'
  BY DEF CgroupInv, TypeOK
<1>2. OwnerInv'
  BY DEF CgroupInv, OwnerInv, MappedToOwner, Cgroups, SyncsConsistent, CacheConsistent,
         ScanConsistent
<1>3. Killable' /\ SyncsNamed'
  BY DEF CgroupInv, Killable, SyncsNamed
<1> QED
  BY <1>1, <1>2, <1>3 DEF CgroupInv

\* The kubelet, the informers and a restart.
LEMMA EnvironmentKeeps ==
    ASSUME CgroupInv, Kubelet \/ Informers \/ Restart
    PROVE  CgroupInv'
<1>1. /\ dir \in [Dir -> {"new", "live", "gone"}]
      /\ phase \in [Pod -> {"new", "active", "done", "gone"}]
      /\ quota \in [Namespace -> {Nil} \cup SUBSET Kind]
      /\ deleted \subseteq Namespace
      /\ agent \in {"up", "down", "panicked"}
  BY DEF CgroupInv, TypeOK
<1>2. CASE Kubelet
  BY <1>1, <1>2, OutsideKeeps DEF Kubelet, CreateDir, RemoveDir, books
<1>3. ASSUME NEW p \in Pod, NEW to \in Phases, PodEvent(p, to) PROVE CgroupInv'
  BY <1>1, <1>3, OutsideKeeps, CgroupAssumption DEF PodEvent, books
<1>4. ASSUME NEW n \in Namespace, NEW q \in Specs[n] \cup {Nil}, QuotaEvent(n, q)
      PROVE  CgroupInv'
  <2>1. q \in {Nil} \cup SUBSET Kind
    BY CgroupAssumption
  <2> QED
    BY <1>1, <1>4, <2>1, OutsideKeeps DEF QuotaEvent, books
<1>5. CASE Restart
  BY <1>1, <1>5, OutsideKeeps DEF Restart, books, kube
<1> QED
  BY <1>2, <1>3, <1>4, <1>5 DEF Informers

-----------------------------------------------------------------------------
\* The theorems.

\* The invariant holds at the start.
LEMMA InitHolds == Init => CgroupInv
<1> SUFFICES ASSUME Init PROVE CgroupInv
  OBVIOUS
<1>1. NoScan \in Scan /\ NoScan.info = {}
  BY DEF NoScan, Scan
<1>2. /\ Unmapped \in [Kind -> [Dir -> Namespace \cup {Nil}]]
      /\ \A k \in Kind, g \in Dir : Unmapped[k][g] = Nil
  BY DEF Unmapped
<1>3. TypeOK
  BY <1>1, <1>2, NoSyncFits, NilIsNothing DEF Init, TypeOK, Untracked
<1>4. OwnerInv
  BY <1>1, <1>2, NoSyncFits
  DEF Init, OwnerInv, MappedToOwner, Cgroups, Untracked, SyncsConsistent, CacheConsistent,
      ScanConsistent
<1>5. Killable /\ SyncsNamed
  BY <1>2, NoSyncFits DEF Init, Killable, SyncsNamed, Untracked
<1> QED
  BY <1>3, <1>4, <1>5 DEF CgroupInv

\* Every step preserves it.
LEMMA StepHolds == CgroupInv /\ [Next]_vars => CgroupInv'
<1>1. CgroupInv /\ UNCHANGED vars => CgroupInv'
  <2> SUFFICES ASSUME CgroupInv, UNCHANGED vars PROVE CgroupInv'
    OBVIOUS
  <2> QED
    BY OutsideKeeps DEF vars, kube, books, CgroupInv, TypeOK
<1>2. CgroupInv /\ Next => CgroupInv'
  BY EnvironmentKeeps, ExitKeeps, ReconcileKeeps, ScanPodKeeps, ScanWriteKeeps, EvictKeeps,
     SyncStepKeeps DEF Next, Crash, Scanner
<1> QED
  BY <1>1, <1>2

(***************************************************************************)
(* The state of the Syncer keeps its types, and the mutex is held by just  *)
(* the thread that is between Lock and Unlock: no error path, panic or     *)
(* crash leaves it locked or unlocks it for somebody else.                 *)
(***************************************************************************)
THEOREM CgroupTypes == Spec => []TypeOK
<1>1. CgroupInv => TypeOK
  BY DEF CgroupInv
<1> QED
  BY <1>1, InitHolds, StepHolds, PTL DEF Spec

(***************************************************************************)
(* No cgroup is ever counted against a namespace that is not its pod's,    *)
(* for any pods, containers and namespaces: lists that were read before    *)
(* the mutex was granted, cache entries stored after they were invalidated *)
(* and ticks that began before a removal included.                         *)
(***************************************************************************)
THEOREM CgroupOwners == Spec => []MappedToOwner
<1>1. CgroupInv => MappedToOwner
  BY DEF CgroupInv, OwnerInv
<1> QED
  BY <1>1, InitHolds, StepHolds, PTL DEF Spec

(***************************************************************************)
(* The watcher of breaches finds the path of every cgroup that a kernel    *)
(* map has, but for those that an error of the kernel left there, and the  *)
(* name of every namespace with cgroups, with deletes and updates that     *)
(* fail in any combination.  It rests on MappedToOwner: removing a         *)
(* namespace drops the paths of its cgroups, and no other namespace tracks *)
(* one of them.                                                            *)
(***************************************************************************)
THEOREM CgroupKillable == Spec => []Killable
<1>1. CgroupInv => Killable
  BY DEF CgroupInv
<1> QED
  BY <1>1, InitHolds, StepHolds, PTL DEF Spec
=============================================================================
