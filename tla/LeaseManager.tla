---------------------------- MODULE LeaseManager ----------------------------
(***************************************************************************)
(* K8sLeaseManager (lease_k8s.go): the credits of one ObjectQuota, kept in *)
(* its status on the API server, and the heartbeat Lease of every node.    *)
(*                                                                         *)
(* Each agent runs threads that call the manager: the workers of the two   *)
(* controllers and the renewal loop.  A call reads the ObjectQuota from    *)
(* the agent's informer cache, computes a new status and sends it with     *)
(* Status().Update, which the API server accepts only if the object has    *)
(* not been written since the version that was read.  The read and the     *)
(* update are separate steps, and so is the heartbeat that follows.        *)
(*                                                                         *)
(* LeaseSpec drives the manager with callers that request and release in   *)
(* any order; QuotaAgent puts the real callers in their place.             *)
(***************************************************************************)
EXTENDS LeaseArithmetic

CONSTANTS Nil,                  \* a limit the spec leaves out (a nil pointer)
          Thread,               \* <<node, role>>: the threads of the agents
          DefaultBatch,         \* K8sLeaseManager.defaultBatch
          NameMatches,          \* is the ObjectQuota named like its namespace?
          StatusSubresource,    \* does the CRD enable the status subresource?
          FdLimits, ProcLimits, \* the limits the administrator chooses from
          Batches,              \* and the values of leaseBatchSize (0: unset)
          Admin,                \* what the administrator does to a live quota
          MayCrash              \* the nodes whose agent may crash

Kind == {"fd", "proc"}
Limit == Nat \cup {Nil}
Worker == {"quota", "pod"}      \* the roles that request and release

ASSUME LeaseAssumption ==
    /\ Nil \notin Int
    /\ Thread \subseteq Node \X (Worker \cup {"renew"})
    /\ DefaultBatch \in Nat \ {0}
    /\ NameMatches \in BOOLEAN
    /\ StatusSubresource \in BOOLEAN
    /\ FdLimits \subseteq Limit
    /\ ProcLimits \subseteq Limit
    /\ Batches \subseteq Nat
    /\ Admin \subseteq {"edit", "delete"}
    /\ MayCrash \subseteq Node

VARIABLES quota,        \* the ObjectQuota on the API server
          cache,        \* cache[n]: the copy of it in n's informer
          lagging,      \* the nodes whose copy is not the latest version
          lease,        \* lease[n]: n's heartbeat Lease object
          up,           \* the nodes whose agent runs
          op,           \* op[t]: the call thread t is in
          fresh         \* the threads that hold a copy of the latest version

leaseVars == <<quota, cache, lagging, lease, up, op, fresh>>

NoCredits == [k \in Kind |-> [n \in Node |-> 0]]

\* The fields of an ObjectQuota the code reads or writes.  Status.Version is
\* left out: it is incremented on every write and never read.
Quota == [exists : BOOLEAN, limit : [Kind -> Limit], batch : Nat,
          alloc : [Kind -> [Node -> Nat]], available : Int]

NewQuota(limit, batch) ==
    [exists |-> TRUE, limit |-> limit, batch |-> batch,
     alloc |-> NoCredits, available |-> 0]

NoLimits == [k \in Kind |-> Nil]

NoQuota == [NewQuota(NoLimits, 0) EXCEPT !.exists = FALSE]

Call == [pc : {"idle", "request", "update", "ensure",
               "release", "unassign", "unlease", "return",
               "reclaim", "withdraw"},
         kind : Kind, batch : Nat, upd : Quota, ret : Nat]

Idle == [pc |-> "idle", kind |-> "fd", batch |-> 0, upd |-> NoQuota, ret |-> 0]

LeaseTypeOK ==
    /\ quota \in Quota
    /\ cache \in [Node -> Quota]
    /\ lagging \subseteq Node
    /\ lease \in [Node -> {"none", "active", "expired"}]
    /\ up \subseteq Node
    /\ op \in [Thread -> Call]
    /\ fresh \subseteq Thread

LeaseInit ==
    /\ quota = NoQuota
    /\ cache = [n \in Node |-> NoQuota]
    /\ lagging = {}
    /\ lease = [n \in Node |-> "none"]
    /\ up = Node
    /\ op = [t \in Thread |-> Idle]
    /\ fresh = {}

-----------------------------------------------------------------------------
\* The API server and the informers.

\* Every write gives the object a new resource version: all copies are old.
WriteQuota(q) ==
    /\ quota' = q
    /\ lagging' = Node
    /\ fresh' = {}

Specs == {l \in [Kind -> Limit \cap (FdLimits \cup ProcLimits)] :
             l["fd"] \in FdLimits /\ l["proc"] \in ProcLimits}

CreateQuota ==
    /\ ~quota.exists
    /\ \E l \in Specs, b \in Batches : WriteQuota(NewQuota(l, b))
    /\ UNCHANGED <<cache, lease, up, op>>

EditQuota ==
    /\ "edit" \in Admin
    /\ quota.exists
    /\ \E l \in Specs, b \in Batches :
          /\ l # quota.limit \/ b # quota.batch
          /\ WriteQuota([quota EXCEPT !.limit = l, !.batch = b])
    /\ UNCHANGED <<cache, lease, up, op>>

DeleteQuota ==
    /\ "delete" \in Admin
    /\ quota.exists
    /\ WriteQuota(NoQuota)
    /\ UNCHANGED <<cache, lease, up, op>>

\* A watch event brings n's informer up to date.
InformerSync(n) ==
    /\ n \in up
    /\ n \in lagging
    /\ cache' = [cache EXCEPT ![n] = quota]
    /\ lagging' = lagging \ {n}
    /\ UNCHANGED <<quota, lease, up, op, fresh>>

\* Nobody renewed n's Lease for leaseDurationSeconds.
LeaseExpires(n) ==
    /\ lease[n] = "active"
    /\ lease' = [lease EXCEPT ![n] = "expired"]
    /\ UNCHANGED <<quota, cache, lagging, up, op, fresh>>

\* An agent dies and all it has in memory with it; what it booked stays.
Crash(n) ==
    /\ n \in MayCrash \cap up
    /\ up' = up \ {n}
    /\ cache' = [cache EXCEPT ![n] = NoQuota]
    /\ lagging' = lagging \cup {n}
    /\ op' = [t \in Thread |-> IF t[1] = n THEN Idle ELSE op[t]]
    /\ fresh' = {t \in fresh : t[1] # n}
    /\ UNCHANGED <<quota, lease>>

\* The manager starts its workers after the caches have synced (main.go).
Restart(n) ==
    /\ n \notin up
    /\ up' = up \cup {n}
    /\ cache' = [cache EXCEPT ![n] = quota]
    /\ lagging' = lagging \ {n}
    /\ UNCHANGED <<quota, lease, op, fresh>>

\* Mutant: an update overwrites whatever is there.
CurrentMutant(t) == TRUE

\* The optimistic concurrency check of an update.
Current(t) == t \in fresh

\* A status update of thread t reaches the server and is accepted.
Accepted(t) == StatusSubresource /\ Current(t)

\* client.Get by name; the manager looks the quota up under the name of its
\* namespace.
Found(n) == NameMatches /\ cache[n].exists

\* Thread t keeps the copy it read, and with it its resource version.
ReadCopy(t) ==
    fresh' = IF t[1] \in lagging THEN fresh \ {t} ELSE fresh \cup {t}

\* The call ends and its copy is dropped.
DropCopy(t) == fresh' = fresh \ {t}

-----------------------------------------------------------------------------
\* RequestLease.

TotalLimit(q, k) == IF q.limit[k] = Nil THEN 0 ELSE q.limit[k]

AvailableFD(q) == Available(TotalLimit(q, "fd"), q.alloc["fd"])

Goto(t, pc) == op' = [op EXCEPT ![t].pc = pc]

\* requestFD renews the heartbeat before it returns, requestProc does not.
AfterRequest(k) == IF k = "fd" THEN "ensure" ELSE "return"

\* A caller that is not in a call asks for credits of kind k.
StartRequest(t, k, batch) ==
    /\ op[t].pc \in {"idle", "return"}
    /\ op' = [op EXCEPT ![t] = [Idle EXCEPT !.pc = "request", !.kind = k,
                                            !.batch = batch]]
    /\ UNCHANGED <<quota, cache, lagging, lease, up, fresh>>

\* Mutant: an error is reported as a lease of -1.
FinishMutant(t, pc, ret) ==
    op' = [op EXCEPT ![t] = [@ EXCEPT !.pc = pc, !.upd = NoQuota,
                                      !.ret = IF ret = 0 THEN -1 ELSE ret]]

\* The copy is done with, the answer is known.
Finish(t, pc, ret) ==
    op' = [op EXCEPT ![t] = [@ EXCEPT !.pc = pc, !.upd = NoQuota, !.ret = ret]]

Answer(t, pc, granted) ==
    /\ op' = [op EXCEPT ![t] = [@ EXCEPT !.pc = pc, !.ret = granted]]
    /\ UNCHANGED <<quota, cache, lagging, lease, up, fresh>>

\* Get fails: the caller sees an error, which it treats like a grant of 0.
RequestNotFound(t) ==
    /\ op[t].pc = "request"
    /\ ~Found(t[1])
    /\ Answer(t, "return", 0)

\* A positive entry of the node in the allocation map.
HoldsLease(q, k, n) == q.alloc[k][n] > 0

\* A node that holds credits gets the same answer again.
RequestExisting(t) ==
    LET n == t[1]
        k == op[t].kind
    IN  /\ op[t].pc = "request"
        /\ Found(n)
        /\ HoldsLease(cache[n], k, n)
        /\ Answer(t, AfterRequest(k), cache[n].alloc[k][n])

\* Credits left according to the copy q.
FreeCredits(q, k) == Available(TotalLimit(q, k), q.alloc[k])

RequestExhausted(t) ==
    LET n == t[1]
        k == op[t].kind
    IN  /\ op[t].pc = "request"
        /\ Found(n)
        /\ ~HoldsLease(cache[n], k, n)
        /\ FreeCredits(cache[n], k) <= 0
        /\ Answer(t, AfterRequest(k), cache[n].alloc[k][n])

\* The status a request of n writes: its own entry grows by the grant, and
\* only requestFD recomputes the published number of free credits.
Granted(q, k, n, batch) ==
    LET grant == GrantSize(batch, TotalLimit(q, k), q.alloc[k], DefaultBatch)
        alloc == [q.alloc EXCEPT ![k][n] = @ + grant]
    IN  [q EXCEPT !.alloc = alloc,
                  !.available = IF k = "fd" THEN FreeCredits(q, k) - grant ELSE @]

RequestGrant(t) ==
    LET n == t[1]
        k == op[t].kind
        upd == Granted(cache[n], k, n, op[t].batch)
    IN  /\ op[t].pc = "request"
        /\ Found(n)
        /\ ~HoldsLease(cache[n], k, n)
        /\ FreeCredits(cache[n], k) > 0
        /\ op' = [op EXCEPT ![t] = [@ EXCEPT !.pc = "update", !.upd = upd,
                                             !.ret = upd.alloc[k][n]]]
        /\ ReadCopy(t)
        /\ UNCHANGED <<quota, cache, lagging, lease, up>>

\* Status().Update succeeds, or succeeds with its answer lost: then the caller
\* gets an error although the credits are booked.
CommitGrant(t) ==
    /\ op[t].pc = "update"
    /\ Accepted(t)
    /\ WriteQuota(op[t].upd)
    /\ \/ Finish(t, AfterRequest(op[t].kind), op[t].ret)
       \/ Finish(t, "return", 0)
    /\ UNCHANGED <<cache, lease, up>>

\* A conflict or any other error of Status().Update.
FailGrant(t) ==
    /\ op[t].pc = "update"
    /\ Finish(t, "return", 0)
    /\ DropCopy(t)
    /\ UNCHANGED <<quota, cache, lagging, lease, up>>

\* ensureLease ignores the errors of its calls.
RenewOrFail(n) == lease' \in {lease, [lease EXCEPT ![n] = "active"]}

EnsureLease(t) ==
    /\ op[t].pc = "ensure"
    /\ RenewOrFail(t[1])
    /\ Goto(t, "return")
    /\ UNCHANGED <<quota, cache, lagging, up, fresh>>

-----------------------------------------------------------------------------
\* ReleaseLease.

\* A caller that is not in a call releases its credits of kind k.
StartRelease(t, k) ==
    /\ op[t].pc \in {"idle", "return"}
    /\ op' = [op EXCEPT ![t] = [Idle EXCEPT !.pc = "release", !.kind = k]]
    /\ UNCHANGED <<quota, cache, lagging, lease, up, fresh>>

ReleaseNothing(t) ==
    LET n == t[1]
    IN  /\ op[t].pc = "release"
        /\ ~Found(n) \/ ~HoldsLease(cache[n], op[t].kind, n)
        /\ Goto(t, "return")
        /\ UNCHANGED <<quota, cache, lagging, lease, up, fresh>>

\* Mutant: the published number of free credits is not recomputed.
ReleasedMutant(q, k, n) == [q EXCEPT !.alloc[k][n] = 0]

\* The status a release of n writes.
Released(q, k, n) ==
    LET r == [q EXCEPT !.alloc[k][n] = 0]
    IN  IF k = "fd" THEN [r EXCEPT !.available = AvailableFD(r)] ELSE r

ReleaseCredits(t) ==
    LET n == t[1]
        k == op[t].kind
    IN  /\ op[t].pc = "release"
        /\ Found(n)
        /\ HoldsLease(cache[n], k, n)
        /\ op' = [op EXCEPT ![t] = [@ EXCEPT !.pc = "unassign",
                                             !.upd = Released(cache[n], k, n)]]
        /\ ReadCopy(t)
        /\ UNCHANGED <<quota, cache, lagging, lease, up>>

\* Only a release of FD credits deletes the heartbeat, and only if the answer
\* of the update arrives.
CommitRelease(t) ==
    /\ op[t].pc = "unassign"
    /\ Accepted(t)
    /\ WriteQuota(op[t].upd)
    /\ \/ op[t].kind = "fd" /\ Finish(t, "unlease", 0)
       \/ Finish(t, "return", 0)
    /\ UNCHANGED <<cache, lease, up>>

FailRelease(t) ==
    /\ op[t].pc = "unassign"
    /\ Finish(t, "return", 0)
    /\ DropCopy(t)
    /\ UNCHANGED <<quota, cache, lagging, lease, up>>

DeleteLease(t) ==
    /\ op[t].pc = "unlease"
    /\ lease' \in {lease, [lease EXCEPT ![t[1]] = "none"]}
    /\ Goto(t, "return")
    /\ UNCHANGED <<quota, cache, lagging, up, fresh>>

-----------------------------------------------------------------------------
\* StartLeaseRenewal and ReclaimExpiredLeases.

\* A tick of the renewal loop, for the one ObjectQuota of the model: renew
\* the heartbeat, whether or not the node holds credits.
RenewTick(t) ==
    LET n == t[1]
    IN  /\ t[2] = "renew"
        /\ n \in up
        /\ op[t].pc = "idle"
        /\ cache[n].exists
        /\ RenewOrFail(n)
        /\ Goto(t, "reclaim")
        /\ UNCHANGED <<quota, cache, lagging, up, fresh>>

\* Mutant: an expired Lease still counts.
ActiveMutant(m) == lease[m] # "none"

Active(m) == lease[m] = "active"

\* Mutant: every entry but the agent's own is taken for that of a dead node.
ReclaimedMutant(q, n) ==
    LET r == [q EXCEPT !.alloc = [k \in Kind |-> [m \in Node |->
                  IF m = n THEN q.alloc[k][m] ELSE 0]]]
    IN  [r EXCEPT !.available = AvailableFD(r)]

\* The entries n's reclaim keeps: its own and those of nodes with a live Lease.
Reclaimed(q, n) ==
    LET r == [q EXCEPT !.alloc = [k \in Kind |-> [m \in Node |->
                  IF m = n \/ Active(m) THEN q.alloc[k][m] ELSE 0]]]
    IN  [r EXCEPT !.available = AvailableFD(r)]

ReclaimNothing(t) ==
    LET n == t[1]
    IN  /\ op[t].pc = "reclaim"
        /\ ~Found(n) \/ Reclaimed(cache[n], n).alloc = cache[n].alloc
        /\ Goto(t, "idle")
        /\ UNCHANGED <<quota, cache, lagging, lease, up, fresh>>

\* The quota and the Leases are both read from the agent's caches, so the two
\* reads are one step: a write between them is a cache that lags.
ReclaimCredits(t) ==
    LET n == t[1]
    IN  /\ op[t].pc = "reclaim"
        /\ Found(n)
        /\ Reclaimed(cache[n], n).alloc # cache[n].alloc
        /\ op' = [op EXCEPT ![t] = [@ EXCEPT !.pc = "withdraw",
                                             !.upd = Reclaimed(cache[n], n)]]
        /\ ReadCopy(t)
        /\ UNCHANGED <<quota, cache, lagging, lease, up>>

CommitReclaim(t) ==
    /\ op[t].pc = "withdraw"
    /\ Accepted(t)
    /\ WriteQuota(op[t].upd)
    /\ Finish(t, "idle", 0)
    /\ UNCHANGED <<cache, lease, up>>

FailReclaim(t) ==
    /\ op[t].pc = "withdraw"
    /\ Finish(t, "idle", 0)
    /\ DropCopy(t)
    /\ UNCHANGED <<quota, cache, lagging, lease, up>>

-----------------------------------------------------------------------------
RequestStep(t) ==
    \/ RequestNotFound(t) \/ RequestExisting(t) \/ RequestExhausted(t)
    \/ RequestGrant(t) \/ CommitGrant(t) \/ FailGrant(t) \/ EnsureLease(t)

ReleaseStep(t) ==
    \/ ReleaseNothing(t) \/ ReleaseCredits(t)
    \/ CommitRelease(t) \/ FailRelease(t) \/ DeleteLease(t)

ReclaimStep(t) ==
    \/ RenewTick(t) \/ ReclaimNothing(t) \/ ReclaimCredits(t)
    \/ CommitReclaim(t) \/ FailReclaim(t)

\* A step inside a call.
CallStep(t) == RequestStep(t) \/ ReleaseStep(t) \/ ReclaimStep(t)

\* A caller is done with the answer it got.
Return(t) ==
    /\ op[t].pc = "return"
    /\ op' = [op EXCEPT ![t] = Idle]
    /\ UNCHANGED <<quota, cache, lagging, lease, up, fresh>>

\* Callers that request and release whenever they like.
Caller(t) ==
    /\ t[1] \in up
    /\ t[2] \in Worker
    /\ \/ \E k \in Kind, b \in Batches : StartRequest(t, k, b)
       \/ \E k \in Kind : StartRelease(t, k)
       \/ Return(t)

Environment ==
    \/ CreateQuota \/ EditQuota \/ DeleteQuota
    \/ \E n \in Node : InformerSync(n) \/ LeaseExpires(n) \/ Crash(n) \/ Restart(n)

LeaseNext == Environment \/ \E t \in Thread : CallStep(t) \/ Caller(t)

LeaseSpec == LeaseInit /\ [][LeaseNext]_leaseVars

-----------------------------------------------------------------------------
\* Properties.

Pool == INSTANCE CreditPool
            WITH limit <- [k \in Kind |-> TotalLimit(quota, k)],
                 credits <- quota.alloc

(***************************************************************************)
(* Every status update that the API server accepts, seen on the server, is *)
(* a step of the credit pool: credits are granted only to a node that      *)
(* holds none and only out of what the pool has left at that moment,       *)
(* however stale the copy and the Leases the manager decided on.           *)
(***************************************************************************)
ImplementsPool == Pool!PoolSpec

\* While nobody edits the spec, the booked credits of a kind never exceed the
\* limit of the quota: no lost update and no stale read lets two agents book
\* the same credits.
LedgerWithinSpec ==
    "edit" \notin Admin =>
        \A k \in Kind : Allocated(quota.alloc[k]) <= TotalLimit(quota, k)

\* n releases its credits itself.
Releasing(n) == \E t \in Thread : t[1] = n /\ op[t].pc = "unassign"

(***************************************************************************)
(* A node whose heartbeat stays alive keeps its credits: from some time on *)
(* it loses them only with the quota or by its own release.  The reclaim   *)
(* of another agent may still take them for what it read before, and the   *)
(* node may have crashed and restarted, any number of times, until then.   *)
(***************************************************************************)
HoldersKeep ==
    \A n \in Node :
        <>[](lease[n] = "active")
            => <>[][\A k \in Kind :
                      quota.alloc[k][n] > 0 /\ quota'.alloc[k][n] = 0
                         => ~quota'.exists \/ Releasing(n)]_leaseVars

\* Every accepted update that changes who holds descriptors publishes in
\* status.available what the allocations it writes leave of the limit.
AvailablePublished ==
    [][quota'.exists /\ quota'.alloc["fd"] # quota.alloc["fd"]
          => quota'.available = AvailableFD(quota')]_leaseVars
=============================================================================
