---------------------------- MODULE AgentProofs ----------------------------
(***************************************************************************)
(* The controllers and the Syncer of QuotaAgent use the lease manager as   *)
(* LeaseSpec allows, for any number of agents, so that what LeaseProofs    *)
(* proves of the manager holds of them; and what a node may enforce.       *)
(***************************************************************************)
EXTENDS QuotaAgent, LeaseProofs

-----------------------------------------------------------------------------
\* The inductive invariants.

\* A thread is in a call only while its agent runs, and the renewal loop never
\* requests or releases.
CallsMadeBy(t) ==
    /\ op[t].pc # "idle" => t[1] \in up
    /\ op[t].pc \notin {"idle", "reclaim", "withdraw"} => t[2] \in Worker

\* A copy q of the quota that limits something has a batch size of the spec.
Batched(q) == Wanted(q) # {} => q.batch \in Batches

\* Every copy of the quota, however old, and what syncs keep of it.
CopiesBatched ==
    /\ Batched(quota)
    /\ \A n \in Node : Batched(cache[n])
    /\ \A t \in Thread : Batched(sync[t])

AgentInv ==
    /\ LeaseInv
    /\ TypeOK
    /\ \A t \in Thread : CallsMadeBy(t)
    /\ CopiesBatched

\* While the quota is not changed, a copy q of it has the limits of the quota,
\* or none, and books to no node more than the whole limit.
LimitsOf(q) == \A k \in Kind : q.limit[k] # Nil => q.limit[k] = quota.limit[k]

BooksOf(q) == \A k \in Kind, n \in Node : q.alloc[k][n] <= TotalLimit(quota, k)

\* The copies, the answers that threads got, and the limits they installed.
WithinInv ==
    /\ BooksOf(quota)
    /\ \A n \in Node : LimitsOf(cache[n]) /\ BooksOf(cache[n])
    /\ \A t \in Thread : /\ LimitsOf(sync[t])
                         /\ op[t].ret <= TotalLimit(quota, op[t].kind)
    /\ \A n \in Node, k \in Kind :
          nsLimit[n][k] # Nil => nsLimit[n][k] <= TotalLimit(quota, k)

-----------------------------------------------------------------------------
\* What a sync keeps.

Kept(q) == [remove |-> Wanted(q) = {}, limit |-> q.limit, batch |-> q.batch]

\* It has its type and the limits and the batch size of what it was read from.
LEMMA KeptType ==
    /\ NoSync \in Sync /\ NoSync.limit = NoLimits /\ Wanted(NoSync) = {}
    /\ \A q \in Quota : /\ Kept(q) \in Sync
                        /\ Kept(q).limit = q.limit
                        /\ Kept(q).batch = q.batch
                        /\ Wanted(Kept(q)) = Wanted(q)
<1>1. NoLimits \in [Kind -> Limit] /\ \A k \in Kind : NoLimits[k] = Nil
  BY DEF NoLimits, Limit
<1>2. NoSync \in Sync /\ NoSync.limit = NoLimits
  BY <1>1 DEF NoSync, Sync
<1>3. Wanted(NoSync) = {}
  BY <1>1, <1>2 DEF Wanted
<1>4. ASSUME NEW q \in Quota
      PROVE  /\ Kept(q) \in Sync
             /\ Kept(q).limit = q.limit
             /\ Kept(q).batch = q.batch
  <2>1. q.limit \in [Kind -> Limit] /\ q.batch \in Nat
    BY DEF Quota
  <2>2. CASE Wanted(q) = {}
    <3>1. Kept(q) = [remove |-> TRUE, limit |-> q.limit, batch |-> q.batch]
      BY <2>2 DEF Kept
    <3> QED
      BY <2>1, <3>1 DEF Sync
  <2>3. CASE Wanted(q) # {}
    <3>1. Kept(q) = [remove |-> FALSE, limit |-> q.limit, batch |-> q.batch]
      BY <2>3 DEF Kept
    <3> QED
      BY <2>1, <3>1 DEF Sync
  <2> QED
    BY <2>2, <2>3
<1>5. ASSUME NEW q \in Quota PROVE Wanted(Kept(q)) = Wanted(q)
  BY <1>4 DEF Wanted
<1> QED
  BY <1>2, <1>3, <1>4, <1>5

-----------------------------------------------------------------------------
\* The steps of the agents are steps of the manager.

\* A worker of a live node in a sync may call the manager.
LEMMA MayCall ==
    ASSUME AgentInv, NEW t \in Thread, op[t].pc = "return"
    PROVE  t[1] \in up /\ t[2] \in Worker
BY DEF AgentInv, CallsMadeBy

\* What SyncFromQuota starts is a call that callers may make.
LEMMA StartMaps ==
    ASSUME AgentInv, NEW n \in up, NEW r \in Worker, <<n, r>> \in Thread, n \in Node,
           SyncFromQuota(<<n, r>>, cache[n])
    PROVE  Caller(<<n, r>>)
<1>1. <<n, r>>[1] = n /\ <<n, r>>[2] = r
  OBVIOUS
<1>2. Wanted(cache[n]) # {} => cache[n].batch \in Batches
  BY DEF AgentInv, CopiesBatched, Batched
<1>3. "fd" \in Kind /\ "proc" \in Kind
  BY DEF Kind
<1> DEFINE t == <<n, r>>
<1>4. \/ StartRelease(t, "fd")
      \/ Wanted(cache[n]) # {} /\ StartRequest(t, "fd", cache[n].batch)
      \/ Wanted(cache[n]) # {} /\ StartRequest(t, "proc", cache[n].batch)
  BY DEF SyncFromQuota
<1> HIDE DEF t
<1>5. t[1] \in up /\ t[2] \in Worker
  BY <1>1 DEF t
<1>6. Caller(t)
  BY <1>2, <1>3, <1>4, <1>5 DEF Caller
<1> QED
  BY <1>6 DEF t

\* So are the calls a sync makes once it got an answer.
LEMMA SyncMaps ==
    ASSUME AgentInv, NEW t \in Thread, SyncStep(t)
    PROVE  Caller(t)
<1>1. op[t].pc = "return"
  BY DEF SyncStep, SyncLimit, SyncLimitFails, ReleaseProc, RemoveLimits
<1>2. t[1] \in up /\ t[2] \in Worker
  BY <1>1, MayCall
<1>3. MoreToSync(t) => sync[t].batch \in Batches
  BY DEF AgentInv, CopiesBatched, Batched, MoreToSync, Wanted, Kind
<1>4. \/ MoreToSync(t) /\ StartRequest(t, "proc", sync[t].batch)
      \/ StartRelease(t, "proc")
      \/ Return(t)
  BY DEF SyncStep, SyncLimit, SyncLimitFails, ReleaseProc, RemoveLimits, EndSync
<1> QED
  BY <1>2, <1>3, <1>4 DEF Caller, Kind

\* Every step of the agents is one of the manager, or leaves it alone.
LEMMA StepMaps == AgentInv /\ [Next]_vars => [LeaseNext]_leaseVars
<1> SUFFICES ASSUME AgentInv, [Next]_vars PROVE [LeaseNext]_leaseVars
  OBVIOUS
<1>1. CASE UNCHANGED vars
  BY <1>1 DEF vars, leaseVars
<1>2. CASE Administrator
  BY <1>2 DEF Administrator, LeaseNext, Environment
<1>3. ASSUME NEW n \in Node,
             \/ QuotaEvent(n) \/ Resync(n) \/ Expire(n) \/ AgentCrash(n) \/ AgentRestart(n)
      PROVE  [LeaseNext]_leaseVars
  BY <1>3
  DEF QuotaEvent, Resync, Expire, AgentCrash, AgentRestart, LeaseNext, Environment, leaseVars
<1>4. ASSUME NEW n \in Node, Reconcile(n) \/ ReconcilePod(n)
      PROVE  LeaseNext
  BY <1>4, StartMaps DEF Reconcile, ReconcilePod, LeaseNext, Worker
<1>5. ASSUME NEW t \in Thread, Work(t)
      PROVE  LeaseNext
  BY <1>5, SyncMaps DEF Work, LeaseNext
<1> QED
  BY <1>1, <1>2, <1>3, <1>4, <1>5 DEF Next

-----------------------------------------------------------------------------
\* Which thread is in which call.

\* The points of the calls of the renewal loop.
Loop == {"idle", "reclaim", "withdraw"}

\* A call goes on in one thread, and the renewal loop stays in its own.
LEMMA CallMoves ==
    ASSUME LeaseTypeOK, NEW t \in Thread, CallStep(t)
    PROVE  /\ UNCHANGED <<cache, up>>
           /\ \A s \in Thread \ {t} : op'[s] = op[s]
           /\ op[t].pc # "idle" \/ t[1] \in up
           /\ op[t].pc \notin Loop \/ op'[t].pc \in Loop
<1>1. op \in [Thread -> Call] /\ op[t] \in Call
  BY DEF LeaseTypeOK
<1>2. UNCHANGED <<cache, up>>
  BY DEF CallStep, RequestStep, ReleaseStep, ReclaimStep, RequestNotFound, RequestExisting,
      RequestExhausted, Answer, RequestGrant, FailGrant, EnsureLease, ReleaseNothing,
      ReleaseCredits, FailRelease, DeleteLease, RenewTick, ReclaimNothing, ReclaimCredits,
      FailReclaim, CommitGrant, CommitRelease, CommitReclaim
<1>3. op[t].pc # "idle" \/ t[1] \in up
  BY DEF CallStep, RequestStep, ReleaseStep, ReclaimStep, RequestNotFound, RequestExisting,
      RequestExhausted, RequestGrant, FailGrant, EnsureLease, ReleaseNothing,
      ReleaseCredits, FailRelease, DeleteLease, RenewTick, ReclaimNothing, ReclaimCredits,
      FailReclaim, CommitGrant, CommitRelease, CommitReclaim
<1>4. \A s \in Thread \ {t} : op'[s] = op[s]
  BY <1>1
  DEF CallStep, RequestStep, ReleaseStep, ReclaimStep, RequestNotFound, RequestExisting,
      RequestExhausted, Answer, RequestGrant, FailGrant, EnsureLease, ReleaseNothing,
      ReleaseCredits, FailRelease, DeleteLease, RenewTick, ReclaimNothing, ReclaimCredits,
      FailReclaim, CommitGrant, CommitRelease, CommitReclaim, Finish, Goto
<1>5. CASE RequestStep(t) \/ ReleaseStep(t)
  <2>1. op[t].pc \notin Loop
    BY <1>5
    DEF Loop, RequestStep, ReleaseStep, RequestNotFound, RequestExisting, RequestExhausted,
        RequestGrant, CommitGrant, FailGrant, EnsureLease, ReleaseNothing, ReleaseCredits,
        CommitRelease, FailRelease, DeleteLease
  <2> QED
    BY <1>2, <1>3, <1>4, <2>1
<1>6. CASE ReclaimStep(t)
  <2>1. op'[t].pc \in Loop
    BY <1>1, <1>6
    DEF Loop, ReclaimStep, RenewTick, ReclaimNothing, ReclaimCredits, CommitReclaim,
        FailReclaim, Finish, Goto, Call
  <2> QED
    BY <1>2, <1>3, <1>4, <2>1
<1> QED
  BY <1>5, <1>6 DEF CallStep

\* Callers start and end calls of their own.
LEMMA CallerMoves ==
    ASSUME LeaseTypeOK, NEW t \in Thread, Caller(t)
    PROVE  /\ UNCHANGED <<cache, up, quota>>
           /\ \A s \in Thread \ {t} : op'[s] = op[s]
           /\ t[1] \in up /\ t[2] \in Worker
BY DEF Caller, StartRequest, StartRelease, Return, LeaseTypeOK

\* No step makes a thread of a dead agent call, or the renewal loop request.
LEMMA CallsKeep ==
    ASSUME AgentInv, [LeaseNext]_leaseVars
    PROVE  \A t \in Thread : CallsMadeBy(t)'
<1> SUFFICES ASSUME NEW s \in Thread PROVE CallsMadeBy(s)'
  OBVIOUS
<1>1. LeaseTypeOK /\ CallsMadeBy(s)
  BY DEF AgentInv, LeaseInv
<1>2. CASE up' = up /\ op'[s] = op[s]
  BY <1>1, <1>2 DEF CallsMadeBy
<1>3. ASSUME NEW t \in Thread, CallStep(t) PROVE CallsMadeBy(s)'
  <2>1. CASE s = t
    BY <1>1, <1>3, <2>1, CallMoves DEF CallsMadeBy, Loop
  <2>2. CASE s # t
    BY <1>1, <1>2, <1>3, <2>2, CallMoves
  <2> QED
    BY <2>1, <2>2
<1>4. ASSUME NEW t \in Thread, Caller(t) PROVE CallsMadeBy(s)'
  <2>1. CASE s = t
    BY <1>1, <1>4, <2>1, CallerMoves DEF CallsMadeBy
  <2>2. CASE s # t
    BY <1>1, <1>2, <1>4, <2>2, CallerMoves
  <2> QED
    BY <2>1, <2>2
<1>5. CASE Environment
  <2>1. CASE UNCHANGED <<op, up>>
    BY <1>2, <2>1
  <2>2. ASSUME NEW n \in Node, Crash(n) PROVE CallsMadeBy(s)'
    <3>1. up' = up \ {n} /\ op'[s] = IF s[1] = n THEN Idle ELSE op[s]
      BY <2>2 DEF Crash
    <3>2. Idle.pc = "idle"
      BY DEF Idle
    <3> QED
      BY <1>1, <3>1, <3>2 DEF CallsMadeBy
  <2>3. ASSUME NEW n \in Node, Restart(n) PROVE CallsMadeBy(s)'
    BY <1>1, <2>3 DEF Restart, CallsMadeBy
  <2> QED
    BY <1>5, <2>1, <2>2, <2>3
    DEF Environment, CreateQuota, EditQuota, DeleteQuota, InformerSync, LeaseExpires
<1>6. CASE UNCHANGED leaseVars
  BY <1>2, <1>6 DEF leaseVars
<1> QED
  BY <1>3, <1>4, <1>5, <1>6 DEF LeaseNext

-----------------------------------------------------------------------------
\* What the agents keep has its types.

\* The limit that a sync installs.
LEMMA SyncedType ==
    ASSUME TypeOK, NEW t \in Thread
    PROVE  /\ Synced(t) \in [Node -> [Kind -> Limit]]
           /\ \A kept \in SUBSET Kind : Unlimited(t[1], kept) \in [Node -> [Kind -> Limit]]
<1>1. /\ op[t].kind \in Kind /\ op[t].ret \in Nat /\ t[1] \in Node
      /\ sync[t].limit \in [Kind -> Limit]
  BY CallFields DEF TypeOK, Sync
<1>2. EffectiveLimit(op[t].ret, sync[t].limit[op[t].kind]) \in Limit
  BY <1>1 DEF EffectiveLimit, Limit
<1>3. ASSUME NEW kept \in SUBSET Kind
      PROVE  Unlimited(t[1], kept) \in [Node -> [Kind -> Limit]]
  <2>1. [k \in Kind |-> IF k \in kept THEN nsLimit[t[1]][k] ELSE Nil] \in [Kind -> Limit]
    BY <1>1 DEF TypeOK, Limit
  <2> QED
    BY <1>1, <2>1 DEF TypeOK, Unlimited
<1> QED
  BY <1>1, <1>2, <1>3 DEF TypeOK, Synced

\* Every step keeps the types.
LEMMA AgentTypesKeep ==
    ASSUME AgentInv, LeaseInv', [Next]_vars
    PROVE  TypeOK'
<1>1. /\ TypeOK /\ LeaseTypeOK'
      /\ dirty \subseteq Node /\ sync \in [Thread -> Sync]
      /\ nsLimit \in [Node -> [Kind -> Limit]]
      /\ stuck \subseteq Node \X Kind
      /\ NoLimits \in [Kind -> Limit]
  BY DEF AgentInv, TypeOK, LeaseInv, NoLimits, Limit
<1>2. CASE UNCHANGED agentVars
  BY <1>1, <1>2 DEF TypeOK, agentVars
<1>3. ASSUME NEW n \in Node, QuotaEvent(n) \/ Resync(n) \/ AgentRestart(n)
      PROVE  TypeOK'
  BY <1>1, <1>3 DEF QuotaEvent, Resync, AgentRestart, TypeOK
<1>4. ASSUME NEW n \in Node, AgentCrash(n) PROVE TypeOK'
  BY <1>1, <1>4, KeptType DEF AgentCrash, TypeOK
<1>5. ASSUME NEW n \in Node, NEW r \in Worker, <<n, r>> \in Thread,
             SyncFromQuota(<<n, r>>, cache[n]), dirty' \subseteq Node
      PROVE  TypeOK'
  <2>1. sync' = [sync EXCEPT ![<<n, r>>] = Kept(cache[n])] /\ UNCHANGED <<nsLimit, stuck>>
    BY <1>5 DEF SyncFromQuota, Kept
  <2>2. Kept(cache[n]) \in Sync
    BY <1>1, KeptType DEF TypeOK, LeaseTypeOK
  <2> QED
    BY <1>1, <1>5, <2>1, <2>2 DEF TypeOK
<1>6. ASSUME NEW n \in Node, Reconcile(n) \/ ReconcilePod(n) PROVE TypeOK'
  BY <1>1, <1>5, <1>6 DEF Reconcile, ReconcilePod, Worker
<1>7. ASSUME NEW t \in Thread, SyncStep(t) PROVE TypeOK'
  <2>1. nsLimit' \in [Node -> [Kind -> Limit]] /\ stuck' \subseteq Node \X Kind
    <3>1. ASSUME RemoveLimits(t)
          PROVE  nsLimit' \in [Node -> [Kind -> Limit]] /\ stuck' \subseteq Node \X Kind
      <4>1. PICK kept \in SUBSET Kind :
                /\ nsLimit' = Unlimited(t[1], kept)
                /\ stuck' = (stuck \ ({t[1]} \X Kind)) \cup ({t[1]} \X kept)
        BY <3>1 DEF RemoveLimits
      <4> QED
        BY <1>1, <4>1, SyncedType, ThreadNode
    <3>2. ASSUME SyncLimit(t) \/ SyncLimitFails(t) \/ ReleaseProc(t)
          PROVE  nsLimit' \in [Node -> [Kind -> Limit]] /\ stuck' \subseteq Node \X Kind
      BY <1>1, <3>2, SyncedType DEF SyncLimit, SyncLimitFails, ReleaseProc, WriteLimit, agentVars
    <3> QED
      BY <1>7, <3>1, <3>2 DEF SyncStep
  <2>2. sync' = sync \/ sync' = [sync EXCEPT ![t] = NoSync]
    BY <1>7 DEF SyncStep, SyncLimit, SyncLimitFails, ReleaseProc, RemoveLimits, EndSync, agentVars
  <2>3. dirty' \subseteq Node
    BY <1>1, <1>7, ThreadNode
    DEF SyncStep, SyncLimit, SyncLimitFails, ReleaseProc, RemoveLimits, Retry, agentVars
  <2> QED
    BY <1>1, <2>1, <2>2, <2>3, KeptType DEF TypeOK
<1>8. CASE UNCHANGED vars
  BY <1>2, <1>8 DEF vars
<1> QED
  BY <1>2, <1>3, <1>4, <1>6, <1>7, <1>8 DEF Next, Administrator, Expire, Work

-----------------------------------------------------------------------------
\* Where batch sizes come from.

\* A quota that does not exist limits nothing.
LEMMA NoQuotaBatched == NoQuota.limit = NoLimits /\ Batched(NoQuota)
<1>1. NoQuota.limit = NoLimits /\ \A k \in Kind : NoLimits[k] = Nil
  BY DEF NoQuota, NewQuota, NoLimits
<1> QED
  BY <1>1 DEF Batched, Wanted

\* What is on the server.
LEMMA QuotaBatched ==
    ASSUME LeaseInv, Batched(quota), [LeaseNext]_leaseVars
    PROVE  Batched(quota')
<1>1. quota \in Quota
  BY DEF LeaseInv, LeaseTypeOK
<1>2. CASE quota' = quota
  BY <1>2
<1>3. CASE Legal(quota, quota')
  BY <1>3 DEF Legal, Batched, Wanted
<1>4. CASE DeleteQuota
  BY <1>4, NoQuotaBatched DEF DeleteQuota, WriteQuota
<1>5. ASSUME CreateQuota \/ EditQuota PROVE quota'.batch \in Batches
  <2>1. ASSUME CreateQuota PROVE quota'.batch \in Batches
    BY <2>1 DEF CreateQuota, WriteQuota, NewQuota
  <2>2. ASSUME NEW l \in Specs, NEW b \in Batches,
               quota' = [quota EXCEPT !.limit = l, !.batch = b]
        PROVE  quota'.batch \in Batches
    BY <1>1, <2>2 DEF Quota
  <2> QED
    BY <1>5, <2>1, <2>2 DEF EditQuota, WriteQuota
<1> QED
  BY <1>2, <1>3, <1>4, <1>5, QuotaSteps DEF Batched

\* What the informers hold.
LEMMA CacheSteps ==
    ASSUME LeaseInv, [LeaseNext]_leaseVars, NEW n \in Node
    PROVE  cache'[n] = cache[n] \/ cache'[n] = quota \/ cache'[n] = NoQuota
<1>1. LeaseTypeOK /\ cache \in [Node -> Quota]
  BY DEF LeaseInv, LeaseTypeOK
<1>2. CASE UNCHANGED cache
  BY <1>2
<1>3. ASSUME NEW m \in Node, InformerSync(m) \/ Restart(m) \/ Crash(m)
      PROVE  cache'[n] = cache[n] \/ cache'[n] = quota \/ cache'[n] = NoQuota
  BY <1>1, <1>3 DEF InformerSync, Restart, Crash
<1>4. ASSUME Environment
      PROVE  \/ UNCHANGED cache
             \/ \E m \in Node : InformerSync(m) \/ Restart(m) \/ Crash(m)
  BY <1>4 DEF Environment, CreateQuota, EditQuota, DeleteQuota, LeaseExpires
<1>5. ASSUME NEW t \in Thread, CallStep(t) \/ Caller(t)
      PROVE  UNCHANGED cache
  BY <1>1, <1>5, CallMoves, CallerMoves
<1>6. CASE UNCHANGED leaseVars
  BY <1>2, <1>6 DEF leaseVars
<1> QED
  BY <1>2, <1>3, <1>4, <1>5, <1>6 DEF LeaseNext

\* What a thread's sync keeps: what it kept, nothing, or its agent's copy.
LEMMA SyncSteps ==
    ASSUME TypeOK, [Next]_vars, NEW t \in Thread
    PROVE  sync'[t] = sync[t] \/ sync'[t] = NoSync \/ sync'[t] = Kept(cache[t[1]])
<1>1. sync \in [Thread -> Sync]
  BY DEF TypeOK
<1>2. CASE UNCHANGED sync
  BY <1>2
<1>3. ASSUME NEW n \in Node, AgentCrash(n)
      PROVE  sync'[t] = sync[t] \/ sync'[t] = NoSync
  BY <1>3 DEF AgentCrash
<1>4. ASSUME NEW n \in Node, NEW r \in Worker, SyncFromQuota(<<n, r>>, cache[n])
      PROVE  sync'[t] = sync[t] \/ sync'[t] = Kept(cache[t[1]])
  <2>1. sync' = [sync EXCEPT ![<<n, r>>] = Kept(cache[n])]
    BY <1>4 DEF SyncFromQuota, Kept
  <2>2. t = <<n, r>> => t[1] = n
    OBVIOUS
  <2> QED
    BY <1>1, <2>1, <2>2
<1>5. ASSUME NEW s \in Thread, SyncStep(s)
      PROVE  sync'[t] = sync[t] \/ sync'[t] = NoSync
  <2>1. sync' = sync \/ sync' = [sync EXCEPT ![s] = NoSync]
    BY <1>5 DEF SyncStep, SyncLimit, SyncLimitFails, ReleaseProc, RemoveLimits, EndSync, agentVars
  <2> QED
    BY <1>1, <2>1
<1>6. ASSUME NEW n \in Node, Reconcile(n) \/ ReconcilePod(n)
      PROVE  \E r \in Worker : SyncFromQuota(<<n, r>>, cache[n])
  BY <1>6 DEF Reconcile, ReconcilePod, Worker
<1>7. ASSUME NEW n \in Node, QuotaEvent(n) \/ Resync(n) \/ AgentRestart(n) \/ Expire(n)
      PROVE  UNCHANGED sync
  BY <1>7 DEF QuotaEvent, Resync, AgentRestart, Expire, agentVars
<1>8. ASSUME UNCHANGED vars \/ Administrator \/ UNCHANGED agentVars
      PROVE  UNCHANGED sync
  BY <1>8 DEF vars, agentVars, Administrator
<1> QED
  BY <1>2, <1>3, <1>4, <1>5, <1>6, <1>7, <1>8 DEF Next, Work

\* No step brings in a batch size that is not of the spec.
LEMMA CopiesKeep ==
    ASSUME AgentInv, [Next]_vars, [LeaseNext]_leaseVars
    PROVE  CopiesBatched'
<1>1. LeaseInv /\ TypeOK /\ CopiesBatched
  BY DEF AgentInv
<1>2. Batched(quota')
  BY <1>1, QuotaBatched DEF CopiesBatched
<1>3. ASSUME NEW n \in Node PROVE Batched(cache'[n])
  BY <1>1, CacheSteps, NoQuotaBatched DEF CopiesBatched
<1>4. ASSUME NEW t \in Thread PROVE Batched(sync'[t])
  <2>1. cache[t[1]] \in Quota /\ Batched(cache[t[1]])
    BY <1>1, CallFields DEF TypeOK, CopiesBatched
  <2>2. Batched(Kept(cache[t[1]])) /\ Batched(NoSync)
    BY <2>1, KeptType DEF Batched
  <2> QED
    BY <1>1, <2>2, SyncSteps DEF CopiesBatched
<1> QED
  BY <1>2, <1>3, <1>4 DEF CopiesBatched

-----------------------------------------------------------------------------
\* The agents implement the manager.

\* The invariant holds at the start.
LEMMA AgentInitInv == Init => AgentInv
<1> SUFFICES ASSUME Init PROVE AgentInv
  OBVIOUS
<1>1. LeaseInv
  BY InitInv DEF Init
<1>2. TypeOK
  BY <1>1, KeptType, NoQuotaBatched DEF Init, TypeOK, LeaseInv, NoSync, NoLimits, Limit
<1>3. \A t \in Thread : CallsMadeBy(t)
  BY DEF Init, LeaseInit, CallsMadeBy, Idle
<1>4. Batched(NoSync)
  BY KeptType DEF Batched
<1>5. CopiesBatched
  BY <1>4, NoQuotaBatched DEF Init, LeaseInit, CopiesBatched
<1> QED
  BY <1>1, <1>2, <1>3, <1>5 DEF AgentInv

\* Every step preserves the invariant.
LEMMA AgentStepInv == AgentInv /\ [Next]_vars => AgentInv'
<1> SUFFICES ASSUME AgentInv, [Next]_vars PROVE AgentInv'
  OBVIOUS
<1>1. [LeaseNext]_leaseVars
  BY StepMaps
<1>2. LeaseInv'
  BY <1>1, StepInv DEF AgentInv
<1>3. TypeOK' /\ CopiesBatched'
  BY <1>1, <1>2, AgentTypesKeep, CopiesKeep
<1>4. \A t \in Thread : CallsMadeBy(t)'
  BY <1>1, CallsKeep
<1> QED
  BY <1>2, <1>3, <1>4 DEF AgentInv

(***************************************************************************)
(* What the agents keep has its types: the manager's answer is never an    *)
(* error code that the Syncer would install as a limit.                    *)
(***************************************************************************)
THEOREM AgentTypes == Spec => []TypeOK
<1>1. AgentInv => TypeOK
  BY DEF AgentInv
<1> QED
  BY <1>1, AgentInitInv, AgentStepInv, PTL DEF Spec

(***************************************************************************)
(* The controllers and the Syncer are callers that LeaseSpec allows, on    *)
(* any number of nodes: whatever syncs fail, crash or overlap, a worker of *)
(* a live agent makes one call at a time, and asks with a batch size that  *)
(* the administrator wrote in the spec.                                    *)
(***************************************************************************)
THEOREM AgentImplementsManager == Spec => ImplementsManager
<1>1. Init => LeaseInit
  BY DEF Init
<1> QED
  BY <1>1, AgentInitInv, AgentStepInv, StepMaps, PTL DEF Spec, ImplementsManager, LeaseSpec

(***************************************************************************)
(* So the ledger is kept when the real controllers drive the manager: no   *)
(* overbooking, only steps of the credit pool, and status.available true   *)
(* to the bookings.                                                        *)
(***************************************************************************)
THEOREM AgentLedger == Spec => []LedgerWithinSpec /\ ImplementsPool /\ AvailablePublished
BY AgentImplementsManager, LeaseLedger, LeaseImplementsPool, LeaseAvailable, PTL
   DEF ImplementsManager

-----------------------------------------------------------------------------
\* No node enforces more than the quota.

\* While nobody edits or deletes the quota, its limits stay, once it has some.
LEMMA LimitsStay ==
    ASSUME LeaseInv, LeaseInv', [LeaseNext]_leaseVars, Admin = {}, NEW k \in Kind
    PROVE  /\ quota.limit[k] # Nil => quota'.limit[k] = quota.limit[k]
           /\ TotalLimit(quota, k) \in Nat /\ TotalLimit(quota', k) \in Nat
           /\ TotalLimit(quota, k) <= TotalLimit(quota', k)
<1>1. quota \in Quota /\ quota' \in Quota
  BY DEF LeaseInv, LeaseTypeOK
<1>2. TotalLimit(quota, k) \in Nat /\ TotalLimit(quota', k) \in Nat
  BY <1>1, QuotaFields
<1>3. CASE CreateQuota
  <2>1. quota.limit[k] = Nil
    BY <1>3, NoQuotaBatched DEF CreateQuota, LeaseInv, NoGhost, NoLimits
  <2>2. TotalLimit(quota, k) = 0
    BY <2>1 DEF TotalLimit
  <2> QED
    BY <1>2, <2>1, <2>2
<1>4. CASE quota'.limit = quota.limit
  <2>1. TotalLimit(quota', k) = TotalLimit(quota, k)
    BY <1>4 DEF TotalLimit
  <2> QED
    BY <1>2, <1>4, <2>1
<1>5. ~EditQuota /\ ~DeleteQuota
  BY DEF EditQuota, DeleteQuota
<1> QED
  BY <1>3, <1>4, <1>5, QuotaSteps DEF Legal

\* A legal update of a copy that books no more than the limit to a node does
\* not either.
LEMMA LegalBooks ==
    ASSUME quota \in Quota, NEW q \in Quota, LimitsOf(q), BooksOf(q), NEW u, Legal(q, u)
    PROVE  BooksOf(u)
<1> SUFFICES ASSUME NEW k \in Kind, NEW n \in Node
             PROVE  u.alloc[k][n] <= TotalLimit(quota, k)
  BY DEF BooksOf
<1>1. /\ u.alloc \in [Kind -> [Node -> Nat]] /\ q.alloc \in [Kind -> [Node -> Nat]]
      /\ q.alloc[k][n] <= TotalLimit(quota, k)
      /\ TotalLimit(quota, k) \in Nat /\ TotalLimit(q, k) \in Nat
      /\ Allocated(q.alloc[k]) \in Nat
  BY QuotaFields DEF Legal, BooksOf
<1>2. TotalLimit(q, k) <= TotalLimit(quota, k)
  BY <1>1 DEF LimitsOf, TotalLimit
<1>3. ASSUME NEW j \in Kind, NEW m \in Node, NEW g \in 1..FreeCredits(q, j),
             u.alloc = [q.alloc EXCEPT ![j][m] = g]
      PROVE  u.alloc[k][n] <= TotalLimit(quota, k)
  <2>1. CASE j = k /\ m = n
    <3>1. u.alloc[k][n] = g /\ g \in 1..FreeCredits(q, k)
      BY <1>1, <1>3, <2>1
    <3>2. FreeCredits(q, k) = TotalLimit(q, k) - Allocated(q.alloc[k])
      BY DEF FreeCredits, Available
    <3> QED
      BY <1>1, <1>2, <3>1, <3>2
  <2>2. CASE ~(j = k /\ m = n)
    <3>1. u.alloc[k][n] = q.alloc[k][n]
      BY <1>1, <1>3, <2>2
    <3> QED
      BY <1>1, <3>1
  <2> QED
    BY <2>1, <2>2
<1>4. ASSUME u.alloc[k][n] \in {0, q.alloc[k][n]}
      PROVE  u.alloc[k][n] <= TotalLimit(quota, k)
  BY <1>1, <1>4
<1> QED
  BY <1>3, <1>4 DEF Legal

\* The answer of a call is bounded by what the copy it read booked.
LEMMA AnswerBounded ==
    ASSUME LeaseInv, NEW t \in Thread, CallStep(t) \/ Caller(t),
           op[t].ret <= TotalLimit(quota, op[t].kind),
           LimitsOf(cache[t[1]]), BooksOf(cache[t[1]])
    PROVE  op'[t].ret <= TotalLimit(quota, op'[t].kind)
<1> DEFINE n == t[1]
           k == op[t].kind
           Bounded(r) == r <= TotalLimit(quota, k)
<1>1. /\ LeaseTypeOK /\ op \in [Thread -> Call] /\ op[t] \in Call /\ quota \in Quota
      /\ k \in Kind /\ n \in Node /\ cache[n] \in Quota /\ op[t].batch \in Nat
  BY CallFields DEF LeaseInv, LeaseTypeOK
<1>2. \A j \in Kind : TotalLimit(quota, j) \in Nat /\ 0 <= TotalLimit(quota, j)
  BY <1>1, QuotaFields
<1>3. Bounded(0) /\ Bounded(op[t].ret) /\ Bounded(cache[n].alloc[k][n])
  BY <1>1, <1>2 DEF BooksOf
<1> HIDE DEF Bounded
<1>4. ASSUME NEW pc, NEW r, Bounded(r),
             \/ op' = [op EXCEPT ![t] = [op[t] EXCEPT !.pc = pc, !.ret = r]]
             \/ Finish(t, pc, r)
      PROVE  op'[t].ret <= TotalLimit(quota, op'[t].kind)
  <2>1. CASE op' = [op EXCEPT ![t] = [op[t] EXCEPT !.pc = pc, !.ret = r]]
    <3>1. op'[t] = [op[t] EXCEPT !.pc = pc, !.ret = r]
      BY <1>1, <2>1
    <3>2. op'[t].ret = r /\ op'[t].kind = k
      BY <1>1, <3>1 DEF Call
    <3> QED
      BY <1>4, <3>2 DEF Bounded
  <2>2. CASE Finish(t, pc, r)
    <3>1. op'[t] = [op[t] EXCEPT !.pc = pc, !.upd = NoQuota, !.ret = r]
      BY <1>1, <2>2 DEF Finish
    <3>2. op'[t].ret = r /\ op'[t].kind = k
      BY <1>1, <3>1 DEF Call
    <3> QED
      BY <1>4, <3>2 DEF Bounded
  <2> QED
    BY <1>4, <2>1, <2>2
<1>5. ASSUME op'[t].ret = op[t].ret, op'[t].kind = k
      PROVE  op'[t].ret <= TotalLimit(quota, op'[t].kind)
  BY <1>3, <1>5 DEF Bounded
<1>6. ASSUME RequestGrant(t) PROVE op'[t].ret <= TotalLimit(quota, op'[t].kind)
  <2> DEFINE u == Granted(cache[n], k, n, op[t].batch)
  <2>1. Legal(cache[n], u)
    BY <1>1, <1>6, GrantedLegal DEF RequestGrant
  <2>2. BooksOf(u)
    BY <1>1, <2>1, LegalBooks
  <2> HIDE DEF u
  <2>3. Bounded(u.alloc[k][n])
    BY <1>1, <2>2 DEF BooksOf, Bounded
  <2>4. op' = [op EXCEPT ![t] = [op[t] EXCEPT !.pc = "update", !.upd = u, !.ret = u.alloc[k][n]]]
    BY <1>1, <1>6 DEF RequestGrant, u
  <2>5. op'[t].ret = u.alloc[k][n] /\ op'[t].kind = k
    BY <1>1, <2>4 DEF Call
  <2> QED
    BY <2>3, <2>5 DEF Bounded
<1>7. CASE RequestNotFound(t) \/ RequestExisting(t) \/ RequestExhausted(t)
  <2>1. PICK pc, r : Bounded(r) /\ Answer(t, pc, r)
    BY <1>3, <1>7 DEF RequestNotFound, RequestExisting, RequestExhausted
  <2> QED
    BY <1>1, <1>4, <2>1 DEF Answer
<1>8. CASE CommitGrant(t) \/ FailGrant(t) \/ CommitRelease(t) \/ FailRelease(t)
           \/ CommitReclaim(t) \/ FailReclaim(t)
  <2>1. PICK pc, r : Bounded(r) /\ Finish(t, pc, r)
    BY <1>3, <1>8
    DEF CommitGrant, FailGrant, CommitRelease, FailRelease, CommitReclaim, FailReclaim
  <2> QED
    BY <1>4, <2>1
<1>9. CASE EnsureLease(t) \/ ReleaseNothing(t) \/ DeleteLease(t) \/ RenewTick(t)
           \/ ReclaimNothing(t)
  <2>1. PICK pc : Goto(t, pc)
    BY <1>9 DEF EnsureLease, ReleaseNothing, DeleteLease, RenewTick, ReclaimNothing
  <2>2. op'[t].ret = op[t].ret /\ op'[t].kind = k
    BY <1>1, <2>1 DEF Goto, Call
  <2> QED
    BY <1>5, <2>2
<1>10. CASE ReleaseCredits(t) \/ ReclaimCredits(t)
  <2>1. PICK pc, u : op' = [op EXCEPT ![t] = [op[t] EXCEPT !.pc = pc, !.upd = u]]
    BY <1>1, <1>10 DEF ReleaseCredits, ReclaimCredits
  <2>2. op'[t].ret = op[t].ret /\ op'[t].kind = k
    BY <1>1, <2>1 DEF Call
  <2> QED
    BY <1>5, <2>2
<1>11. CASE Caller(t)
  <2>1. op'[t].ret = 0 /\ op'[t].kind \in Kind
    <3>1. Idle \in Call /\ Idle.ret = 0
      BY IdleType DEF Idle
    <3>2. CASE \E j \in Kind, b \in Batches : StartRequest(t, j, b)
      BY <1>1, <3>1, <3>2 DEF StartRequest, Call
    <3>3. CASE \E j \in Kind : StartRelease(t, j)
      BY <1>1, <3>1, <3>3 DEF StartRelease, Call
    <3>4. CASE Return(t)
      BY <1>1, <3>1, <3>4 DEF Return, Call
    <3> QED
      BY <1>11, <3>2, <3>3, <3>4 DEF Caller
  <2> QED
    BY <1>2, <2>1
<1> QED
  BY <1>6, <1>7, <1>8, <1>9, <1>10, <1>11 DEF CallStep, RequestStep, ReleaseStep, ReclaimStep

\* Calls that a step does not touch, and those a crash ends.
LEMMA OtherCalls ==
    ASSUME LeaseInv, [LeaseNext]_leaseVars, NEW t \in Thread
    PROVE  op'[t] = op[t] \/ op'[t] = Idle \/ CallStep(t) \/ Caller(t)
<1>1. LeaseTypeOK
  BY DEF LeaseInv
<1>2. ASSUME NEW s \in Thread, CallStep(s) \/ Caller(s)
      PROVE  op'[t] = op[t] \/ CallStep(t) \/ Caller(t)
  BY <1>1, <1>2, CallMoves, CallerMoves
<1>3. ASSUME Environment PROVE op'[t] = op[t] \/ op'[t] = Idle
  BY <1>3
  DEF Environment, CreateQuota, EditQuota, DeleteQuota, InformerSync, LeaseExpires, Crash, Restart
<1> QED
  BY <1>2, <1>3 DEF LeaseNext, leaseVars

\* What a node's limit for a kind becomes.
LEMMA LimitSteps ==
    ASSUME TypeOK, [Next]_vars, NEW n \in Node, NEW k \in Kind
    PROVE  \/ nsLimit'[n][k] = nsLimit[n][k]
           \/ nsLimit'[n][k] = Nil
           \/ \E t \in Thread : /\ op[t].kind = k
                                /\ nsLimit'[n][k] = EffectiveLimit(op[t].ret, sync[t].limit[k])
<1>1. nsLimit \in [Node -> [Kind -> Limit]] /\ NoLimits[k] = Nil
  BY DEF TypeOK, NoLimits
<1>2. CASE UNCHANGED nsLimit
  BY <1>2
<1>3. ASSUME NEW m \in Node, AgentCrash(m)
      PROVE  nsLimit'[n][k] = nsLimit[n][k] \/ nsLimit'[n][k] = Nil
  BY <1>1, <1>3 DEF AgentCrash
<1>4. ASSUME NEW t \in Thread, nsLimit' = Synced(t)
      PROVE  \/ nsLimit'[n][k] = nsLimit[n][k]
             \/ /\ op[t].kind = k
                /\ nsLimit'[n][k] = EffectiveLimit(op[t].ret, sync[t].limit[k])
  <2>1. op[t].kind \in Kind /\ t[1] \in Node
    BY CallFields DEF TypeOK
  <2> QED
    BY <1>1, <1>4, <2>1 DEF Synced
<1>5. ASSUME NEW t \in Thread, NEW kept, nsLimit' = Unlimited(t[1], kept)
      PROVE  nsLimit'[n][k] = nsLimit[n][k] \/ nsLimit'[n][k] = Nil
  BY <1>1, <1>5, ThreadNode DEF Unlimited
<1>6. ASSUME NEW t \in Thread, SyncStep(t)
      PROVE  \/ nsLimit' = nsLimit \/ nsLimit' = Synced(t)
             \/ \E kept : nsLimit' = Unlimited(t[1], kept)
  BY <1>6
  DEF SyncStep, SyncLimit, SyncLimitFails, WriteLimit, ReleaseProc, RemoveLimits, agentVars
<1>7. ASSUME NEW m \in Node,
             \/ QuotaEvent(m) \/ Resync(m) \/ AgentRestart(m) \/ Expire(m)
             \/ Reconcile(m) \/ ReconcilePod(m)
      PROVE  UNCHANGED nsLimit
  BY <1>7
  DEF QuotaEvent, Resync, AgentRestart, Expire, Reconcile, ReconcilePod, SyncFromQuota, agentVars
<1>8. ASSUME UNCHANGED vars \/ Administrator \/ UNCHANGED agentVars
      PROVE  UNCHANGED nsLimit
  BY <1>8 DEF vars, agentVars, Administrator
<1> QED
  BY <1>2, <1>3, <1>4, <1>5, <1>6, <1>7, <1>8 DEF Next, Work

\* Every step keeps copies, answers and installed limits within the quota.
LEMMA WithinStep ==
    ASSUME AgentInv, AgentInv', WithinInv, [Next]_vars, Admin = {}
    PROVE  WithinInv'
<1>1. /\ LeaseInv /\ LeaseInv' /\ [LeaseNext]_leaseVars /\ TypeOK /\ TypeOK' /\ LeaseTypeOK
      /\ LeaseTypeOK' /\ quota \in Quota /\ quota' \in Quota
  BY StepMaps DEF AgentInv, LeaseInv, LeaseTypeOK
<1>2. ASSUME NEW k \in Kind
      PROVE  /\ quota.limit[k] # Nil => quota'.limit[k] = quota.limit[k]
             /\ TotalLimit(quota, k) \in Nat /\ TotalLimit(quota', k) \in Nat
             /\ TotalLimit(quota, k) <= TotalLimit(quota', k)
  BY <1>1, LimitsStay
<1>3. ASSUME NEW r \in Nat, NEW k \in Kind, r <= TotalLimit(quota, k)
      PROVE  r <= TotalLimit(quota', k)
  BY <1>2, <1>3
<1>4. ASSUME NEW q, LimitsOf(q), NEW k \in Kind, q.limit[k] # Nil
      PROVE  q.limit[k] = quota'.limit[k]
  BY <1>2, <1>4 DEF LimitsOf
<1>5. LimitsOf(quota) /\ LimitsOf(NoQuota) /\ LimitsOf(NoSync)
  BY NoQuotaBatched, KeptType DEF LimitsOf, NoLimits
<1>6. BooksOf(quota) /\ BooksOf(NoQuota)
  <2>1. ASSUME NEW k \in Kind, NEW n \in Node
        PROVE  NoQuota.alloc[k][n] <= TotalLimit(quota, k)
    <3>1. NoQuota.alloc[k][n] = 0
      BY NoQuotaType DEF NoCredits
    <3> QED
      BY <1>2, <3>1
  <2> QED
    BY <2>1 DEF WithinInv, BooksOf
<1>7. ASSUME NEW q \in Quota, BooksOf(q), NEW k \in Kind, NEW n \in Node
      PROVE  q.alloc[k][n] <= TotalLimit(quota', k)
  <2>1. q.alloc[k][n] \in Nat
    BY QuotaFields
  <2> QED
    BY <1>3, <1>7, <2>1 DEF BooksOf
<1>8. BooksOf(quota)'
  <2> SUFFICES ASSUME NEW k \in Kind, NEW n \in Node
               PROVE  quota'.alloc[k][n] <= TotalLimit(quota', k)
    BY DEF BooksOf
  <2>1. CASE quota'.alloc = quota.alloc
    BY <1>1, <1>6, <1>7, <2>1
  <2>2. CASE quota'.alloc = NoCredits
    <3>1. quota'.alloc[k][n] = 0
      BY <2>2 DEF NoCredits
    <3> QED
      BY <1>2, <3>1
  <2>3. CASE Legal(quota, quota')
    <3>1. BooksOf(quota')
      BY <1>1, <1>5, <1>6, <2>3, LegalBooks
    <3> QED
      BY <1>1, <1>7, <3>1
  <2> QED
    BY <1>1, <2>1, <2>2, <2>3, ServerSteps, NoQuotaType
<1>9. ASSUME NEW n \in Node PROVE LimitsOf(cache[n])' /\ BooksOf(cache[n])'
  <2>1. cache'[n] \in Quota /\ LimitsOf(cache'[n]) /\ BooksOf(cache'[n])
    BY <1>1, <1>5, <1>6, CacheSteps DEF WithinInv, LeaseTypeOK
  <2>2. LimitsOf(cache[n])'
    BY <1>4, <2>1 DEF LimitsOf
  <2>3. BooksOf(cache[n])'
    BY <1>7, <2>1 DEF BooksOf
  <2> QED
    BY <2>2, <2>3
<1>10. ASSUME NEW t \in Thread PROVE LimitsOf(sync[t])'
  <2>1. cache[t[1]] \in Quota /\ LimitsOf(cache[t[1]])
    BY <1>1, CallFields DEF WithinInv
  <2>2. LimitsOf(Kept(cache[t[1]]))
    BY <2>1, KeptType DEF LimitsOf
  <2>3. LimitsOf(sync'[t])
    BY <1>1, <1>5, <2>2, SyncSteps DEF WithinInv
  <2> QED
    BY <1>4, <2>3 DEF LimitsOf
<1>11. ASSUME NEW t \in Thread PROVE op'[t].ret <= TotalLimit(quota', op'[t].kind)
  <2>1. op'[t].ret \in Nat /\ op'[t].kind \in Kind
    BY <1>1, CallFields DEF LeaseTypeOK, Call
  <2>2. op'[t].ret <= TotalLimit(quota, op'[t].kind)
    <3>1. CASE op'[t] = op[t]
      BY <3>1 DEF WithinInv
    <3>2. CASE op'[t] = Idle
      <4>1. op'[t].ret = 0
        BY <3>2 DEF Idle
      <4> QED
        BY <1>2, <2>1, <4>1
    <3>3. CASE CallStep(t) \/ Caller(t)
      <4>1. LimitsOf(cache[t[1]]) /\ BooksOf(cache[t[1]])
        BY ThreadNode DEF WithinInv
      <4> QED
        BY <1>1, <3>3, <4>1, AnswerBounded DEF WithinInv
    <3> QED
      BY <1>1, <3>1, <3>2, <3>3, OtherCalls
  <2> QED
    BY <1>3, <2>1, <2>2
<1>12. ASSUME NEW n \in Node, NEW k \in Kind, nsLimit'[n][k] # Nil
       PROVE  nsLimit'[n][k] <= TotalLimit(quota', k)
  <2>1. nsLimit'[n][k] \in Nat
    BY <1>1, <1>12 DEF TypeOK, Limit
  <2>2. ASSUME NEW t \in Thread, op[t].kind = k,
               nsLimit'[n][k] = EffectiveLimit(op[t].ret, sync[t].limit[k])
        PROVE  nsLimit'[n][k] <= TotalLimit(quota, k)
    <3>1. op[t].ret <= TotalLimit(quota, k)
      BY <2>2 DEF WithinInv
    <3>2. ASSUME sync[t].limit[k] # Nil
          PROVE  sync[t].limit[k] = TotalLimit(quota, k)
      BY <3>2 DEF WithinInv, LimitsOf, TotalLimit
    <3> QED
      BY <1>2, <1>12, <2>2, <3>1, <3>2 DEF EffectiveLimit
  <2>3. CASE nsLimit'[n][k] = nsLimit[n][k]
    BY <1>3, <1>12, <2>1, <2>3 DEF WithinInv
  <2> QED
    BY <1>1, <1>3, <1>12, <2>1, <2>2, <2>3, LimitSteps
<1> QED
  BY <1>8, <1>9, <1>10, <1>11, <1>12 DEF WithinInv

(***************************************************************************)
(* While nobody changes or deletes the quota, no node enforces more than   *)
(* the whole limit, for any number of agents: every copy of the quota,     *)
(* however stale, books at most the limit to a node, so does every answer  *)
(* computed from one, and a sync that got no credits falls back on a limit *)
(* that is still the quota's.                                              *)
(***************************************************************************)
THEOREM AgentWithinQuota == Spec => []NodeWithinQuota
<1>1. Init => WithinInv
  <2> SUFFICES ASSUME Init PROVE WithinInv
    OBVIOUS
  <2>1. quota \in Quota /\ quota = NoQuota /\ \A k \in Kind : TotalLimit(quota, k) \in Nat
    BY NoQuotaType, QuotaFields DEF Init, LeaseInit
  <2>2. \A k \in Kind, n \in Node : NoQuota.alloc[k][n] = 0
    BY NoQuotaType DEF NoCredits
  <2>3. BooksOf(NoQuota)
    BY <2>1, <2>2 DEF BooksOf
  <2>4. LimitsOf(NoQuota) /\ LimitsOf(NoSync)
    BY NoQuotaBatched, KeptType DEF LimitsOf, NoLimits
  <2>5. Idle.ret = 0 /\ Idle.kind \in Kind
    BY DEF Idle, Kind
  <2>6. \A t \in Thread : op[t] = Idle /\ sync[t] = NoSync
    BY DEF Init, LeaseInit
  <2>7. \A n \in Node : cache[n] = NoQuota /\ \A k \in Kind : nsLimit[n][k] = Nil
    BY DEF Init, LeaseInit, NoLimits
  <2>8. \A t \in Thread : op[t].ret <= TotalLimit(quota, op[t].kind)
    BY <2>1, <2>5, <2>6
  <2> QED
    BY <2>1, <2>3, <2>4, <2>6, <2>7, <2>8 DEF WithinInv
<1>2. CASE Admin # {}
  <2>1. NodeWithinQuota
    BY <1>2 DEF NodeWithinQuota
  <2> QED
    BY <2>1, PTL
<1>3. CASE Admin = {}
  <2>1. AgentInv /\ AgentInv' /\ WithinInv /\ [Next]_vars => WithinInv'
    BY <1>3, WithinStep
  <2>2. WithinInv => NodeWithinQuota
    BY DEF WithinInv, NodeWithinQuota
  <2> QED
    BY <1>1, <2>1, <2>2, AgentInitInv, AgentStepInv, PTL DEF Spec
<1> QED
  BY <1>2, <1>3
=============================================================================
