----------------------------- MODULE QuotaAgent -----------------------------
(***************************************************************************)
(* The agents of a cluster and one ObjectQuota: the two controllers        *)
(* (controller.go) drive the Syncer (syncer.go), which asks the lease      *)
(* manager for credits and writes the limit its node's eBPF programs       *)
(* enforce.  The calls of the lease manager are those of LeaseManager; its *)
(* callers are the real ones.                                              *)
(***************************************************************************)
EXTENDS LeaseManager

VARIABLES dirty,        \* the nodes whose workqueue holds the quota
          sync,         \* sync[t]: the SyncFromQuota thread t is in
          nsLimit,      \* nsLimit[n][k]: fd_ns_limit, proc_ns_limit on n
          stuck         \* history: the limits a failed delete left behind

agentVars == <<dirty, sync, nsLimit, stuck>>
vars == <<leaseVars, agentVars>>

\* What SyncFromQuota keeps of the quota it was given; remove says that it is
\* in RemoveNamespace.
Sync == [remove : BOOLEAN, limit : [Kind -> Limit], batch : Nat]

NoSync == [remove |-> FALSE, limit |-> NoLimits, batch |-> 0]

TypeOK ==
    /\ LeaseTypeOK
    /\ dirty \subseteq Node
    /\ sync \in [Thread -> Sync]
    /\ nsLimit \in [Node -> [Kind -> Limit]]
    /\ stuck \subseteq Node \X Kind

Init ==
    /\ LeaseInit
    /\ dirty = {}
    /\ sync = [t \in Thread |-> NoSync]
    /\ nsLimit = [n \in Node |-> NoLimits]
    /\ stuck = {}

-----------------------------------------------------------------------------
\* Informer events, crashes.

\* The controller watches ObjectQuota without a predicate, so every new
\* version, status changes included, enqueues a reconcile.
QuotaEvent(n) ==
    /\ InformerSync(n)
    /\ dirty' = dirty \cup {n}
    /\ UNCHANGED <<sync, nsLimit, stuck>>

\* The informer's periodic resync replays the object it holds.
Resync(n) ==
    /\ n \in up \ dirty
    /\ cache[n].exists
    /\ dirty' = dirty \cup {n}
    /\ UNCHANGED <<leaseVars, sync, nsLimit, stuck>>

\* The maps live as long as the process that loaded them.
AgentCrash(n) ==
    /\ Crash(n)
    /\ dirty' = dirty \ {n}
    /\ sync' = [t \in Thread |-> IF t[1] = n THEN NoSync ELSE sync[t]]
    /\ nsLimit' = [nsLimit EXCEPT ![n] = NoLimits]
    /\ stuck' = stuck \ ({n} \X Kind)

AgentRestart(n) ==
    /\ Restart(n)
    /\ dirty' = IF quota.exists THEN dirty \cup {n} ELSE dirty
    /\ UNCHANGED <<sync, nsLimit, stuck>>

-----------------------------------------------------------------------------
\* The controllers and the Syncer.

Wanted(q) == {k \in Kind : q.limit[k] # Nil}

\* Mutant: the limit is passed in place of the batch size.
SyncFromQuotaMutant(t, q) ==
    /\ op[t].pc = "idle"
    /\ IF Wanted(q) = {} THEN StartRelease(t, "fd")
                         ELSE StartRequest(t, "fd", q.limit["fd"])
    /\ sync' = [sync EXCEPT ![t] = [remove |-> Wanted(q) = {},
                                    limit |-> q.limit, batch |-> q.batch]]
    /\ UNCHANGED <<nsLimit, stuck>>

\* SyncFromQuota: descriptors before processes, and RemoveNamespace when the
\* quota sets neither.  A quota that is gone is cleaned up the same way.
SyncFromQuota(t, q) ==
    /\ op[t].pc = "idle"
    /\ \/ /\ Wanted(q) = {}
          /\ StartRelease(t, "fd")
       \/ /\ "fd" \in Wanted(q)
          /\ StartRequest(t, "fd", q.batch)
       \/ /\ Wanted(q) = {"proc"}
          /\ StartRequest(t, "proc", q.batch)
    /\ sync' = [sync EXCEPT ![t] = [remove |-> Wanted(q) = {},
                                    limit |-> q.limit, batch |-> q.batch]]
    /\ UNCHANGED <<nsLimit, stuck>>

\* ObjectQuotaReconciler.Reconcile.
Reconcile(n) ==
    /\ <<n, "quota">> \in Thread
    /\ n \in up \cap dirty
    /\ SyncFromQuota(<<n, "quota">>, cache[n])
    /\ dirty' = dirty \ {n}

\* PodReconciler.Reconcile for a running or pending pod of the namespace.
ReconcilePod(n) ==
    /\ <<n, "pod">> \in Thread
    /\ n \in up
    /\ cache[n].exists
    /\ SyncFromQuota(<<n, "pod">>, cache[n])
    /\ UNCHANGED dirty

\* Mutant: a node without a lease enforces nothing.
EffectiveLimitMutant(granted, limit) == IF granted > 0 THEN granted ELSE Nil

\* The limit SyncNamespace and SyncProcessNamespace settle on: the lease, or
\* the whole limit of the quota when there is none.
EffectiveLimit(granted, limit) == IF granted > 0 THEN granted ELSE limit

\* Mutant: one function writes the other one's map.
SyncedMutant(t) ==
    LET k == op[t].kind
        other == IF k = "fd" THEN "proc" ELSE "fd"
    IN  [nsLimit EXCEPT ![t[1]][other] = EffectiveLimit(op[t].ret, sync[t].limit[k])]

\* The limit map of t's node after SyncNamespace or SyncProcessNamespace.
Synced(t) ==
    LET k == op[t].kind
    IN  [nsLimit EXCEPT ![t[1]][k] = EffectiveLimit(op[t].ret, sync[t].limit[k])]

\* updateNsLimit or updateProcNsLimit.
WriteLimit(t) ==
    /\ nsLimit' = Synced(t)
    /\ stuck' = stuck \ {<<t[1], op[t].kind>>}

\* Back in the reconciler.
EndSync(t) == Return(t) /\ sync' = [sync EXCEPT ![t] = NoSync]

\* Both kinds are limited and the descriptors are done.
MoreToSync(t) == op[t].kind = "fd" /\ sync[t].limit["proc"] # Nil

\* The rest of SyncNamespace or SyncProcessNamespace, once the lease manager
\* has answered, and what SyncFromQuota does next.
SyncLimit(t) ==
    /\ op[t].pc = "return"
    /\ ~sync[t].remove
    /\ WriteLimit(t)
    /\ \/ /\ MoreToSync(t)
          /\ StartRequest(t, "proc", sync[t].batch)
          /\ UNCHANGED sync
       \/ /\ ~MoreToSync(t)
          /\ EndSync(t)
    /\ UNCHANGED dirty

\* Only the quota controller returns the error, so only it is run again.
Retry(t) == IF t[2] = "quota" THEN dirty \cup {t[1]} ELSE dirty

\* A map update or the pod list fails, before or after the limit is written:
\* the other kind is skipped.
SyncLimitFails(t) ==
    /\ op[t].pc = "return"
    /\ ~sync[t].remove
    /\ WriteLimit(t) \/ UNCHANGED <<nsLimit, stuck>>
    /\ EndSync(t)
    /\ dirty' = Retry(t)

\* RemoveNamespace releases both kinds before it touches a map.
ReleaseProc(t) ==
    /\ op[t].pc = "return"
    /\ sync[t].remove
    /\ op[t].kind = "fd"
    /\ StartRelease(t, "proc")
    /\ UNCHANGED agentVars

\* Mutant: the limit on descriptors stays.
UnlimitedMutant(n, kept) == [nsLimit EXCEPT ![n]["proc"] = IF "proc" \in kept THEN @ ELSE Nil]

\* The limit maps of n without the namespace, but for the kinds in kept.
Unlimited(n, kept) ==
    [nsLimit EXCEPT ![n] = [k \in Kind |-> IF k \in kept THEN @[k] ELSE Nil]]

\* A delete that fails is logged: RemoveNamespace goes on, returns nil and is
\* not run again, so the limits in kept stay.
RemoveLimits(t) ==
    LET n == t[1]
    IN  /\ op[t].pc = "return"
        /\ sync[t].remove
        /\ op[t].kind = "proc"
        /\ \E kept \in SUBSET {k \in Kind : nsLimit[n][k] # Nil} :
              /\ nsLimit' = Unlimited(n, kept)
              /\ stuck' = (stuck \ ({n} \X Kind)) \cup ({n} \X kept)
        /\ EndSync(t)
        /\ UNCHANGED dirty

-----------------------------------------------------------------------------
SyncStep(t) ==
    \/ SyncLimit(t) \/ SyncLimitFails(t) \/ ReleaseProc(t) \/ RemoveLimits(t)

\* The steps of thread t inside a reconcile or a tick of the renewal loop.
Work(t) == (CallStep(t) /\ UNCHANGED agentVars) \/ SyncStep(t)

Administrator ==
    (CreateQuota \/ EditQuota \/ DeleteQuota) /\ UNCHANGED agentVars

Expire(n) == LeaseExpires(n) /\ UNCHANGED agentVars

Next ==
    \/ Administrator
    \/ \E n \in Node : \/ QuotaEvent(n) \/ Resync(n) \/ Expire(n)
                       \/ AgentCrash(n) \/ AgentRestart(n)
                       \/ Reconcile(n) \/ ReconcilePod(n)
    \/ \E t \in Thread : Work(t)

Spec == Init /\ [][Next]_vars

-----------------------------------------------------------------------------
\* Fairness.  Nothing is assumed about the administrator, pod events, crashes
\* and restarts, and renewals may fail for ever.

\* Informers deliver, and a thread in a reconcile or a tick goes on.
Progress ==
    /\ \A n \in Node : WF_vars(QuotaEvent(n))
    /\ \A t \in Thread : WF_vars(Work(t))

\* Workqueues are served and informers resync.
Reconciles ==
    \A n \in Node : WF_vars(Reconcile(n)) /\ WF_vars(Resync(n))

\* The Lease of a dead agent runs out.
DeadExpire == \A n \in MayCrash : WF_vars(n \notin up /\ Expire(n))

Workers == {t \in Thread : t[2] \in Worker}
LimitedKinds == {k \in Kind : \E l \in Specs : l[k] # Nil}

\* What is tried again and again works at some point: the map updates of a
\* sync, and the status updates that the server would accept.
SyncsSucceed ==
    \A t \in Workers, k \in LimitedKinds :
        SF_vars(op[t].kind = k /\ SyncLimit(t))

GrantsSucceed ==
    \A t \in Workers :
        SF_vars(CommitGrant(t) /\ op'[t].ret > 0 /\ UNCHANGED agentVars)

ReclaimsSucceed ==
    \A t \in Thread \ Workers : SF_vars(CommitReclaim(t) /\ UNCHANGED agentVars)

\* Each run assumes what its property needs.
SyncSpec == Spec /\ Progress /\ Reconciles /\ SyncsSucceed
GrantSpec == Spec /\ Progress /\ Reconciles /\ GrantsSucceed
ReclaimSpec == Spec /\ Progress /\ DeadExpire /\ ReclaimsSucceed
FairSpec ==
    /\ Spec
    /\ Progress /\ Reconciles /\ DeadExpire
    /\ SyncsSucceed /\ GrantsSucceed /\ ReclaimsSucceed

-----------------------------------------------------------------------------
\* Properties.

(***************************************************************************)
(* What the controllers and the Syncer do to the lease manager is a        *)
(* sequence of calls that LeaseSpec allows: requests with a batch size of  *)
(* the spec and releases by a worker of a live node, one call at a time,   *)
(* across failing syncs, crashes and restarts.  What is proved of the      *)
(* manager for callers in any order then holds of the agents.              *)
(***************************************************************************)
ImplementsManager == LeaseSpec

\* While nobody changes or deletes the quota, no node enforces more than the
\* whole limit of the quota, whatever the manager answered it and when.
NodeWithinQuota ==
    Admin = {} =>
        \A n \in Node, k \in Kind :
            nsLimit[n][k] # Nil => nsLimit[n][k] <= TotalLimit(quota, k)

\* The credits of a node whose agent stays down return to the pool: some
\* other agent's renewal loop sees the Lease run out and withdraws them.
CreditsReturn ==
    \A n \in MayCrash :
        n \notin up ~> \/ n \in up
                       \/ \A k \in Kind : quota.alloc[k][n] = 0

\* A node whose agent runs ends up enforcing some limit for every kind that
\* the spec limits once it is no longer edited, however syncs failed, conflicted or were
\* overtaken by those of the pod controller.
LimitsInstalled ==
    \A n \in Node, l \in Specs :
        <>[](n \in up /\ quota.limit = l)
            => <>[](\A k \in Kind : l[k] # Nil => nsLimit[n][k] # Nil)

\* A node whose agent runs eventually holds descriptor credits of a quota
\* whose pool has some for every node.
LeaseObtained ==
    \A n \in Node :
        <>[](n \in up /\ quota.exists) => <>(quota.alloc["fd"][n] > 0)

\* The limits that n enforces although its kernel did delete what it was asked
\* to delete.
Removable(n) == {k \in Kind : nsLimit[n][k] # Nil /\ <<n, k>> \notin stuck}

\* Once the quota is deleted for good, no running agent enforces a limit whose
\* deletion did not fail.
LimitsRemoved ==
    \A n \in Node :
        <>[](n \in up /\ ~quota.exists) => <>[](Removable(n) = {})

\* Node n's quota controller is about to clean the maps.
Cleaning(n) ==
    LET t == <<n, "quota">>
    IN  t \in Thread /\ op[t].pc = "return" /\ op[t].kind = "proc" /\ sync[t].remove

PodWorkerIdle(n) == <<n, "pod">> \in Thread => op[<<n, "pod">>].pc = "idle"

\* The same where RemoveNamespace never overlaps with a sync of the pod
\* controller, whatever syncs failed and whatever was deleted or edited before:
\* a limit stays only where deleting it failed, and one that a failed delete
\* left of an earlier quota and a later sync overwrote goes like any other.
LimitsRemovedAlone ==
    \A n \in Node :
        <>[](n \in up /\ ~quota.exists) /\ [](Cleaning(n) => PodWorkerIdle(n))
            => <>[](Removable(n) = {})

\* The limits that the nodes enforce, taken together, stay within the quota.
GlobalQuotaShared ==
    \A k \in Kind :
        quota.limit[k] # Nil =>
            Allocated([n \in Node |-> IF nsLimit[n][k] = Nil THEN 0 ELSE nsLimit[n][k]])
                <= quota.limit[k]
=============================================================================
