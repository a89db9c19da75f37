---------------------------- MODULE LeaseProofs ----------------------------
(***************************************************************************)
(* The credit ledger of LeaseManager, for any number of nodes, threads,    *)
(* limits and batch sizes.                                                 *)
(***************************************************************************)
EXTENDS LeaseManager, FiniteSetTheorems, TLAPS

-----------------------------------------------------------------------------
\* The arithmetic of LeaseArithmetic.

\* A block of g credits has g elements.
LEMMA BlockSize ==
    ASSUME NEW g \in Nat
    PROVE  IsFiniteSet(1..g) /\ Cardinality(1..g) = g
<1>1. 1 \in Int /\ g \in Int /\ (1 > g => g = 0) /\ g - 1 + 1 = g
  OBVIOUS
<1>2. /\ IsFiniteSet(1..g)
      /\ Cardinality(1..g) = IF 1 > g THEN 0 ELSE g - 1 + 1
  BY <1>1, FS_Interval, Zenon
<1> QED
  BY <1>1, <1>2

\* An allocation map hands out finitely many credits.
LEMMA CreditsFinite ==
    ASSUME NEW f \in [Node -> Nat]
    PROVE  IsFiniteSet(CreditsOf(f, Node))
<1> DEFINE Of(n) == {n} \X (1..f[n])
           All == {Of(n) : n \in Node}
           F == [n \in Node |-> Of(n)]
<1>1. IsFiniteSet(All)
  <2>1. F \in Surjection(Node, All)
    BY DEF Surjection
  <2> QED
    BY <2>1, NodeFinite, FS_Surjection
<1>2. \A T \in All : IsFiniteSet(T)
  <2> SUFFICES ASSUME NEW n \in Node PROVE IsFiniteSet(Of(n))
    OBVIOUS
  <2>1. IsFiniteSet({n}) /\ IsFiniteSet(1..f[n])
    BY FS_Singleton, BlockSize
  <2> QED
    BY <2>1, FS_Product
<1> HIDE DEF All
<1>3. IsFiniteSet(UNION All)
  BY <1>1, <1>2, FS_UNION
<1> QED
  BY <1>3 DEF All, CreditsOf

\* The number of credits handed out is a natural number.
LEMMA AllocatedType ==
    ASSUME NEW f \in [Node -> Nat]
    PROVE  Allocated(f) \in Nat
BY CreditsFinite, FS_CardinalityType DEF Allocated

\* Nobody holds anything of a fresh pool.
LEMMA NothingAllocated == Allocated([n \in Node |-> 0]) = 0
<1>1. CreditsOf([n \in Node |-> 0], Node) = {}
  BY DEF CreditsOf
<1> QED
  BY <1>1, FS_EmptySet DEF Allocated

\* A grant to a node that holds nothing adds just the grant.
LEMMA GrantAllocates ==
    ASSUME NEW f \in [Node -> Nat], NEW n \in Node, f[n] = 0, NEW g \in Nat
    PROVE  Allocated([f EXCEPT ![n] = g]) = Allocated(f) + g
<1> DEFINE h == [f EXCEPT ![n] = g]
           New == {n} \X (1..g)
<1>1. h \in [Node -> Nat] /\ h[n] = g /\ \A m \in Node \ {n} : h[m] = f[m]
  OBVIOUS
<1>2. CreditsOf(h, Node) = CreditsOf(f, Node) \cup New
  <2>1. \A m \in Node : {m} \X (1..h[m]) = IF m = n THEN New ELSE {m} \X (1..f[m])
    BY <1>1
  <2>2. {n} \X (1..f[n]) = {}
    OBVIOUS
  <2> QED
    BY <2>1, <2>2 DEF CreditsOf
<1>3. CreditsOf(f, Node) \cap New = {}
  BY DEF CreditsOf
<1>4. IsFiniteSet(New) /\ Cardinality(New) = g
  <2>1. IsFiniteSet({n}) /\ Cardinality({n}) = 1
    BY FS_Singleton
  <2>2. IsFiniteSet(1..g) /\ Cardinality(1..g) = g
    BY BlockSize
  <2>3. IsFiniteSet(New) /\ Cardinality(New) = Cardinality({n}) * Cardinality(1..g)
    BY <2>1, <2>2, FS_Product
  <2> QED
    BY <2>1, <2>2, <2>3
<1> HIDE DEF New, h
<1>5. Cardinality(CreditsOf(h, Node))
         = Cardinality(CreditsOf(f, Node)) + Cardinality(New)
             - Cardinality(CreditsOf(f, Node) \cap New)
  BY <1>2, <1>4, CreditsFinite, FS_Union
<1>6. Cardinality(CreditsOf(f, Node) \cap New) = 0
  BY <1>3, FS_EmptySet
<1>7. Cardinality(CreditsOf(f, Node)) \in Nat
  BY CreditsFinite, FS_CardinalityType
<1> QED
  BY <1>4, <1>5, <1>6, <1>7 DEF Allocated, h

\* Taking credits away frees none too many.
LEMMA WithdrawFrees ==
    ASSUME NEW f \in [Node -> Nat], NEW h \in [Node -> Nat],
           \A n \in Node : h[n] <= f[n]
    PROVE  Allocated(h) <= Allocated(f)
<1>1. CreditsOf(h, Node) \subseteq CreditsOf(f, Node)
  <2>1. \A n \in Node : 1..h[n] \subseteq 1..f[n]
    OBVIOUS
  <2> QED
    BY <2>1 DEF CreditsOf
<1> QED
  BY <1>1, CreditsFinite, FS_Subset DEF Allocated

\* A node that asks while credits are left gets some, and no more than those.
LEMMA GrantFits ==
    ASSUME NEW batch \in Nat, NEW total \in Nat, NEW f \in [Node -> Nat],
           Available(total, f) > 0
    PROVE  GrantSize(batch, total, f, DefaultBatch) \in 1..Available(total, f)
<1>1. Allocated(f) \in Nat
  BY AllocatedType
<1>2. total > 0 /\ Available(total, f) \in Nat
  BY <1>1 DEF Available
<1>3. RequestSize(batch, total, DefaultBatch) \in Nat \ {0}
  BY <1>2, LeaseAssumption DEF RequestSize, MinOf, MaxOf
<1> HIDE DEF Available
<1> QED
  BY <1>2, <1>3 DEF GrantSize, MinOf

-----------------------------------------------------------------------------
\* The inductive invariant.

\* The threads that are about to send the status they computed.
Sending == {"update", "unassign", "withdraw"}

\* The status u is one the manager may write over q: it grants to one node
\* that held nothing out of what q has left, or takes from nodes all they
\* hold, and it publishes what is left when it changes who holds descriptors.
Legal(q, u) ==
    /\ u \in Quota
    /\ u.exists = q.exists
    /\ u.limit = q.limit
    /\ u.batch = q.batch
    /\ \/ \E k \in Kind, n \in Node : \E g \in 1..FreeCredits(q, k) :
             q.alloc[k][n] = 0 /\ u.alloc = [q.alloc EXCEPT ![k][n] = g]
       \/ \A k \in Kind, n \in Node : u.alloc[k][n] \in {0, q.alloc[k][n]}
    /\ u.alloc["fd"] # q.alloc["fd"] => u.available = AvailableFD(u)

\* A copy that is the latest version equals the object on the server.
CachesCoherent == \A n \in Node \ lagging : cache[n] = quota

\* A deleted ObjectQuota leaves nothing behind.
NoGhost == quota.exists \/ quota = NoQuota

\* An update whose version is still the latest was computed from the object
\* that is on the server now.
FreshLegal ==
    \A t \in fresh : /\ quota.exists
                     /\ op[t].pc \in Sending
                     /\ Legal(quota, op[t].upd)

LeaseInv == LeaseTypeOK /\ CachesCoherent /\ NoGhost /\ FreshLegal

-----------------------------------------------------------------------------
\* What the manager computes.

\* The fields of a quota and what is computed from them.
LEMMA QuotaFields ==
    ASSUME NEW q \in Quota, NEW k \in Kind
    PROVE  /\ q.alloc \in [Kind -> [Node -> Nat]]
           /\ q.alloc[k] \in [Node -> Nat]
           /\ q.limit \in [Kind -> Limit]
           /\ q.exists \in BOOLEAN
           /\ TotalLimit(q, k) \in Nat
           /\ Allocated(q.alloc[k]) \in Nat
           /\ FreeCredits(q, k) \in Int
<1>1. /\ q.alloc \in [Kind -> [Node -> Nat]]
      /\ q.alloc[k] \in [Node -> Nat]
      /\ q.limit \in [Kind -> Limit]
      /\ q.exists \in BOOLEAN
  BY DEF Quota
<1>2. TotalLimit(q, k) \in Nat
  BY <1>1 DEF TotalLimit, Limit
<1>3. Allocated(q.alloc[k]) \in Nat
  BY <1>1, AllocatedType
<1> QED
  BY <1>1, <1>2, <1>3 DEF FreeCredits, Available

\* The quota that does not exist.
LEMMA NoQuotaType == NoQuota \in Quota /\ NoQuota.alloc = NoCredits /\ ~NoQuota.exists
<1>1. NoCredits \in [Kind -> [Node -> Nat]] /\ NoLimits \in [Kind -> Limit]
  BY DEF NoCredits, NoLimits, Limit
<1> DEFINE q == NewQuota(NoLimits, 0)
<1>2. q \in Quota /\ q.alloc = NoCredits
  BY <1>1 DEF NewQuota, Quota
<1> HIDE DEF q
<1>3. /\ [q EXCEPT !.exists = FALSE] \in Quota
      /\ [q EXCEPT !.exists = FALSE].alloc = q.alloc
      /\ [q EXCEPT !.exists = FALSE].exists = FALSE
  BY <1>2 DEF Quota
<1> QED
  BY <1>2, <1>3 DEF NoQuota, q

\* requestFD and requestProc write a legal status over the copy they read.
LEMMA GrantedLegal ==
    ASSUME NEW q \in Quota, NEW k \in Kind, NEW n \in Node, NEW batch \in Nat,
           ~HoldsLease(q, k, n), FreeCredits(q, k) > 0
    PROVE  Legal(q, Granted(q, k, n, batch))
<1> DEFINE total == TotalLimit(q, k)
           g == GrantSize(batch, total, q.alloc[k], DefaultBatch)
           alloc == [q.alloc EXCEPT ![k][n] = g]
           left == IF k = "fd" THEN FreeCredits(q, k) - g ELSE q.available
           u == Granted(q, k, n, batch)
<1>1. q.alloc \in [Kind -> [Node -> Nat]] /\ q.alloc[k] \in [Node -> Nat] /\ total \in Nat
  BY QuotaFields
<1>2. q.alloc[k][n] = 0
  BY <1>1 DEF HoldsLease
<1>3. g \in 1..FreeCredits(q, k) /\ FreeCredits(q, k) \in Int
  BY <1>1, GrantFits, QuotaFields DEF FreeCredits
<1> HIDE DEF g, total
<1>4. g \in Nat /\ q.alloc[k][n] + g = g
  BY <1>2, <1>3
<1>5. u = [q EXCEPT !.alloc = alloc, !.available = left] /\ left \in Int
  <2>1. u = [q EXCEPT !.alloc = alloc,
                      !.available = IF k = "fd" THEN FreeCredits(q, k) - g ELSE @]
    BY <1>1, <1>4 DEF Granted, g, total
  <2>2. left \in Int
    BY <1>3 DEF Quota
  <2> HIDE DEF alloc, u
  <2> QED
    BY <2>1, <2>2
<1>6. alloc \in [Kind -> [Node -> Nat]] /\ alloc[k] = [q.alloc[k] EXCEPT ![n] = g]
      /\ \A j \in Kind : j # k => alloc[j] = q.alloc[j]
  BY <1>1, <1>4
<1> HIDE DEF alloc, left, u
<1>7. /\ u \in Quota /\ u.exists = q.exists /\ u.limit = q.limit
      /\ u.batch = q.batch /\ u.alloc = alloc
      /\ u.available = left
  BY <1>5, <1>6 DEF Quota
<1>8. k = "fd" => u.available = AvailableFD(u)
  <2> SUFFICES ASSUME k = "fd" PROVE u.available = AvailableFD(u)
    OBVIOUS
  <2>1. Allocated(u.alloc[k]) = Allocated(q.alloc[k]) + g
    BY <1>1, <1>2, <1>4, <1>6, <1>7, GrantAllocates
  <2>2. TotalLimit(u, k) = total
    BY <1>7 DEF TotalLimit, total
  <2> QED
    BY <1>1, <1>4, <1>7, <2>1, <2>2, QuotaFields
    DEF AvailableFD, FreeCredits, Available, total, left
<1>9. u.alloc["fd"] # q.alloc["fd"] => k = "fd"
  BY <1>6, <1>7 DEF Kind
<1> QED
  BY <1>2, <1>3, <1>7, <1>8, <1>9 DEF Legal, alloc, u

\* So does a release.
LEMMA ReleasedLegal ==
    ASSUME NEW q \in Quota, NEW k \in Kind, NEW n \in Node
    PROVE  Legal(q, Released(q, k, n))
<1> DEFINE r == [q EXCEPT !.alloc[k][n] = 0]
           u == Released(q, k, n)
<1>1. /\ r \in Quota /\ r.exists = q.exists /\ r.limit = q.limit /\ r.batch = q.batch
      /\ r.alloc = [q.alloc EXCEPT ![k][n] = 0]
  BY DEF Quota
<1>2. AvailableFD(r) \in Int
  <2> HIDE DEF r
  <2> QED
    BY <1>1, QuotaFields DEF AvailableFD, FreeCredits, Kind
<1>3. u = IF k = "fd" THEN [r EXCEPT !.available = AvailableFD(r)] ELSE r
  BY DEF Released
<1> HIDE DEF r, u
<1>4. /\ u \in Quota /\ u.exists = q.exists /\ u.limit = q.limit
      /\ u.batch = q.batch /\ u.alloc = r.alloc
      /\ k = "fd" => u.available = AvailableFD(r)
  BY <1>1, <1>2, <1>3 DEF Quota
<1>5. AvailableFD(u) = AvailableFD(r)
  BY <1>1, <1>4 DEF AvailableFD, TotalLimit
<1>6. /\ \A j \in Kind, m \in Node : u.alloc[j][m] \in {0, q.alloc[j][m]}
      /\ k # "fd" => u.alloc["fd"] = q.alloc["fd"]
  BY <1>1, <1>4, QuotaFields DEF Kind
<1> QED
  BY <1>4, <1>5, <1>6 DEF Legal, u

\* So does a reclaim, whatever Leases it saw.
LEMMA ReclaimedLegal ==
    ASSUME NEW q \in Quota, NEW n \in Node
    PROVE  Legal(q, Reclaimed(q, n))
<1> DEFINE alloc == [k \in Kind |-> [m \in Node |->
                        IF m = n \/ Active(m) THEN q.alloc[k][m] ELSE 0]]
           r == [q EXCEPT !.alloc = alloc]
           u == Reclaimed(q, n)
<1>1. alloc \in [Kind -> [Node -> Nat]] /\
      \A k \in Kind, m \in Node : alloc[k][m] \in {0, q.alloc[k][m]}
  BY QuotaFields
<1> HIDE DEF alloc
<1>2. /\ r \in Quota /\ r.exists = q.exists /\ r.limit = q.limit
      /\ r.batch = q.batch /\ r.alloc = alloc
  BY <1>1 DEF Quota
<1>3. u = [r EXCEPT !.available = AvailableFD(r)]
  BY DEF Reclaimed, alloc
<1> HIDE DEF r, u
<1>4. AvailableFD(r) \in Int
  BY <1>2, QuotaFields DEF AvailableFD, FreeCredits, Kind
<1>5. /\ u \in Quota /\ u.exists = q.exists /\ u.limit = q.limit
      /\ u.batch = q.batch /\ u.alloc = alloc
      /\ u.available = AvailableFD(r)
  BY <1>2, <1>3, <1>4 DEF Quota
<1>6. AvailableFD(u) = AvailableFD(r)
  BY <1>2, <1>5 DEF AvailableFD, TotalLimit
<1> QED
  BY <1>1, <1>5, <1>6 DEF Legal, u

-----------------------------------------------------------------------------
\* The kinds of steps a thread takes.

\* Every thread belongs to a node.
LEMMA ThreadNode == \A t \in Thread : t[1] \in Node
BY LeaseAssumption

\* The call a thread is in and the copy of its agent.
LEMMA CallFields ==
    ASSUME LeaseTypeOK, NEW t \in Thread
    PROVE  /\ op[t] \in Call
           /\ op[t].kind \in Kind
           /\ op[t].batch \in Nat
           /\ op[t].upd \in Quota
           /\ op[t].ret \in Nat
           /\ t[1] \in Node
           /\ cache[t[1]] \in Quota
BY ThreadNode DEF LeaseTypeOK, Call

\* A thread that rests, and the calls it may start.
LEMMA IdleType ==
    /\ Idle \in Call
    /\ \A pc \in {"request", "release"}, k \in Kind, b \in Nat :
          /\ [Idle EXCEPT !.pc = pc, !.kind = k] \in Call
          /\ [Idle EXCEPT !.pc = pc, !.kind = k, !.batch = b] \in Call
<1>1. Idle \in Call
  BY NoQuotaType DEF Idle, Call, Kind
<1> QED
  BY <1>1 DEF Call

\* A thread that sends nothing moves on, and nothing that is shared changes but
\* perhaps the Leases.
LEMMA PrivateStep ==
    ASSUME LeaseInv, NEW t \in Thread, NEW c \in Call,
           op' = [op EXCEPT ![t] = c],
           fresh' \subseteq fresh \ {t},
           lease' \in [Node -> {"none", "active", "expired"}],
           UNCHANGED <<quota, cache, lagging, up>>
    PROVE  LeaseInv'
<1>1. LeaseTypeOK'
  BY DEF LeaseInv, LeaseTypeOK
<1>2. CachesCoherent' /\ NoGhost'
  BY DEF LeaseInv, CachesCoherent, NoGhost
<1>3. \A s \in fresh' : s \in fresh /\ op'[s] = op[s]
  BY DEF LeaseInv, LeaseTypeOK
<1>4. FreshLegal'
  BY <1>3 DEF LeaseInv, FreshLegal
<1> QED
  BY <1>1, <1>2, <1>4 DEF LeaseInv

\* A thread computes an update from its agent's copy.
LEMMA ReadStep ==
    ASSUME LeaseInv, NEW t \in Thread, NEW c \in Call,
           op' = [op EXCEPT ![t] = c], c.pc \in Sending,
           cache[t[1]].exists, Legal(cache[t[1]], c.upd),
           ReadCopy(t),
           UNCHANGED <<quota, cache, lagging, lease, up>>
    PROVE  LeaseInv'
<1>1. LeaseTypeOK'
  BY DEF LeaseInv, LeaseTypeOK, ReadCopy
<1>2. CachesCoherent' /\ NoGhost'
  BY DEF LeaseInv, CachesCoherent, NoGhost
<1>3. \A s \in fresh' : IF s = t THEN t[1] \notin lagging /\ op'[s] = c
                        ELSE s \in fresh /\ op'[s] = op[s]
  BY DEF LeaseInv, LeaseTypeOK, ReadCopy
<1>4. t[1] \notin lagging => cache[t[1]] = quota
  BY ThreadNode DEF LeaseInv, CachesCoherent
<1>5. ASSUME NEW s \in fresh'
      PROVE  quota.exists /\ op'[s].pc \in Sending /\ Legal(quota, op'[s].upd)
  BY <1>3, <1>4, <1>5 DEF LeaseInv, FreshLegal
<1>6. FreshLegal'
  BY <1>5 DEF FreshLegal
<1> QED
  BY <1>1, <1>2, <1>6 DEF LeaseInv

\* A write to the object leaves nobody with the latest version.
LEMMA WriteStep ==
    ASSUME LeaseInv, NEW q \in Quota, WriteQuota(q), q.exists \/ q = NoQuota,
           op' \in [Thread -> Call],
           UNCHANGED <<cache, lease, up>>
    PROVE  LeaseInv'
<1>1. LeaseTypeOK'
  BY DEF LeaseInv, LeaseTypeOK, WriteQuota
<1>2. CachesCoherent' /\ FreshLegal'
  BY DEF WriteQuota, CachesCoherent, FreshLegal
<1>3. NoGhost'
  BY DEF WriteQuota, NoGhost
<1> QED
  BY <1>1, <1>2, <1>3 DEF LeaseInv

\* An accepted update.
LEMMA CommitStep ==
    ASSUME LeaseInv, NEW t \in Thread, NEW c \in Call, Accepted(t),
           WriteQuota(op[t].upd), op' = [op EXCEPT ![t] = c],
           UNCHANGED <<cache, lease, up>>
    PROVE  LeaseInv'
<1>1. quota.exists /\ Legal(quota, op[t].upd)
  BY DEF Accepted, Current, LeaseInv, FreshLegal
<1>2. op[t].upd \in Quota /\ op[t].upd.exists
  BY <1>1 DEF Legal
<1>3. op' \in [Thread -> Call]
  BY DEF LeaseInv, LeaseTypeOK
<1> QED
  BY <1>2, <1>3, WriteStep

\* Moving on to another point of the call, with the answer or without.
LEMMA GotoStep ==
    ASSUME LeaseInv, NEW t \in Thread, op[t].pc \notin Sending,
           NEW pc \in {"return", "ensure", "reclaim", "idle"},
           Goto(t, pc), UNCHANGED <<quota, cache, lagging, up, fresh>>,
           lease' \in [Node -> {"none", "active", "expired"}]
    PROVE  LeaseInv'
<1> DEFINE c == [op[t] EXCEPT !.pc = pc]
<1>1. c \in Call
  <2>1. op[t] \in Call
    BY CallFields DEF LeaseInv
  <2> QED
    BY <2>1 DEF Call
<1>2. op' = [op EXCEPT ![t] = c]
  BY DEF Goto, LeaseInv, LeaseTypeOK
<1>3. fresh' \subseteq fresh \ {t}
  BY DEF LeaseInv, FreshLegal
<1> HIDE DEF c
<1> QED
  BY <1>1, <1>2, <1>3, PrivateStep

\* RequestLease returns without an update.
LEMMA AnswerStep ==
    ASSUME LeaseInv, NEW t \in Thread, op[t].pc = "request",
           NEW pc \in {"return", "ensure"}, NEW ret \in Nat, Answer(t, pc, ret)
    PROVE  LeaseInv'
<1> DEFINE c == [op[t] EXCEPT !.pc = pc, !.ret = ret]
<1>1. c \in Call
  <2>1. op[t] \in Call /\ NoQuota \in Quota
    BY CallFields, NoQuotaType DEF LeaseInv
  <2> QED
    BY <2>1 DEF Call
<1>2. op' = [op EXCEPT ![t] = c]
  BY DEF Answer
<1>3. t \notin fresh
  BY DEF LeaseInv, FreshLegal, Sending
<1> HIDE DEF c
<1> QED
  BY <1>1, <1>2, <1>3, PrivateStep DEF Answer, LeaseInv, LeaseTypeOK

\* An update that fails leaves the object alone.
LEMMA FailStep ==
    ASSUME LeaseInv, NEW t \in Thread, NEW pc \in {"return", "idle"},
           Finish(t, pc, 0), DropCopy(t),
           UNCHANGED <<quota, cache, lagging, lease, up>>
    PROVE  LeaseInv'
<1> DEFINE c == [op[t] EXCEPT !.pc = pc, !.upd = NoQuota, !.ret = 0]
<1>1. c \in Call
  <2>1. op[t] \in Call /\ NoQuota \in Quota
    BY CallFields, NoQuotaType DEF LeaseInv
  <2> QED
    BY <2>1 DEF Call
<1>2. op' = [op EXCEPT ![t] = c]
  BY DEF Finish
<1> HIDE DEF c
<1> QED
  BY <1>1, <1>2, PrivateStep DEF DropCopy, LeaseInv, LeaseTypeOK

\* An update that succeeds.
LEMMA FinishStep ==
    ASSUME LeaseInv, NEW t \in Thread, Accepted(t), WriteQuota(op[t].upd),
           NEW pc \in {"return", "ensure", "unlease", "idle"}, NEW ret \in Nat,
           Finish(t, pc, ret), UNCHANGED <<cache, lease, up>>
    PROVE  LeaseInv'
<1> DEFINE c == [op[t] EXCEPT !.pc = pc, !.upd = NoQuota, !.ret = ret]
<1>1. c \in Call
  <2>1. op[t] \in Call /\ NoQuota \in Quota
    BY CallFields, NoQuotaType DEF LeaseInv
  <2> QED
    BY <2>1 DEF Call
<1>2. op' = [op EXCEPT ![t] = c]
  BY DEF Finish
<1> HIDE DEF c
<1> QED
  BY <1>1, <1>2, CommitStep

\* Heartbeats are renewed, deleted or left alone.
LEMMA LeaseWrites ==
    ASSUME LeaseTypeOK, NEW n \in Node
    PROVE  /\ RenewOrFail(n) => lease' \in [Node -> {"none", "active", "expired"}]
           /\ lease \in [Node -> {"none", "active", "expired"}]
           /\ \A s \in {"none", "active", "expired"} :
                 [lease EXCEPT ![n] = s] \in [Node -> {"none", "active", "expired"}]
BY DEF LeaseTypeOK, RenewOrFail

-----------------------------------------------------------------------------
\* The steps of RequestLease.
LEMMA RequestInv ==
    ASSUME LeaseInv, NEW t \in Thread, RequestStep(t)
    PROVE  LeaseInv'
<1> DEFINE n == t[1]
           k == op[t].kind
<1>1. /\ LeaseTypeOK /\ k \in Kind /\ op[t].batch \in Nat /\ op[t].ret \in Nat
      /\ n \in Node /\ cache[n] \in Quota /\ op[t] \in Call
  BY CallFields DEF LeaseInv
<1>2. cache[n].alloc[k][n] \in Nat
  BY <1>1, QuotaFields
<1>3. AfterRequest(k) \in {"return", "ensure"}
  BY DEF AfterRequest
<1> HIDE DEF n, k
<1>4. CASE RequestNotFound(t)
  BY <1>4, AnswerStep DEF RequestNotFound
<1>5. CASE RequestExisting(t) \/ RequestExhausted(t)
  BY <1>2, <1>3, <1>5, AnswerStep DEF RequestExisting, RequestExhausted, n, k
<1>6. CASE RequestGrant(t)
  <2> DEFINE upd == Granted(cache[n], k, n, op[t].batch)
             c == [op[t] EXCEPT !.pc = "update", !.upd = upd, !.ret = upd.alloc[k][n]]
  <2>1. /\ op[t].pc = "request" /\ Found(n) /\ ~HoldsLease(cache[n], k, n)
        /\ FreeCredits(cache[n], k) > 0 /\ ReadCopy(t)
        /\ op' = [op EXCEPT ![t] = c]
        /\ UNCHANGED <<quota, cache, lagging, lease, up>>
    BY <1>6 DEF RequestGrant, n, k
  <2>2. Legal(cache[n], upd)
    BY <1>1, <2>1, GrantedLegal
  <2> HIDE DEF upd
  <2>3. upd \in Quota /\ upd.alloc[k][n] \in Nat
    BY <1>1, <2>2, QuotaFields DEF Legal
  <2>4. c \in Call /\ c.pc = "update" /\ c.upd = upd
    BY <1>1, <2>3 DEF Call
  <2> HIDE DEF c
  <2> QED
    BY <2>1, <2>2, <2>4, ReadStep DEF n, Found, Sending
<1>7. CASE CommitGrant(t)
  BY <1>1, <1>3, <1>7, FinishStep DEF CommitGrant, k
<1>8. CASE FailGrant(t)
  BY <1>8, FailStep DEF FailGrant
<1>9. CASE EnsureLease(t)
  BY <1>1, <1>9, GotoStep, LeaseWrites DEF EnsureLease, n, Sending
<1> QED
  BY <1>4, <1>5, <1>6, <1>7, <1>8, <1>9 DEF RequestStep

\* The steps of ReleaseLease.
LEMMA ReleaseInv ==
    ASSUME LeaseInv, NEW t \in Thread, ReleaseStep(t)
    PROVE  LeaseInv'
<1> DEFINE n == t[1]
           k == op[t].kind
<1>1. /\ LeaseTypeOK /\ k \in Kind /\ n \in Node /\ cache[n] \in Quota /\ op[t] \in Call
  BY CallFields DEF LeaseInv
<1> HIDE DEF n, k
<1>2. CASE ReleaseNothing(t)
  BY <1>1, <1>2, GotoStep, LeaseWrites DEF ReleaseNothing, Sending
<1>3. CASE ReleaseCredits(t)
  <2> DEFINE upd == Released(cache[n], k, n)
             c == [op[t] EXCEPT !.pc = "unassign", !.upd = upd]
  <2>1. Legal(cache[n], upd)
    BY <1>1, ReleasedLegal
  <2>2. /\ Found(n) /\ ReadCopy(t) /\ op' = [op EXCEPT ![t] = c]
        /\ UNCHANGED <<quota, cache, lagging, lease, up>>
    BY <1>3 DEF ReleaseCredits, n, k
  <2> HIDE DEF upd
  <2>3. c \in Call /\ c.pc = "unassign" /\ c.upd = upd
    <3>1. upd \in Quota
      BY <2>1 DEF Legal
    <3> QED
      BY <1>1, <3>1 DEF Call
  <2> HIDE DEF c
  <2> QED
    BY <2>1, <2>2, <2>3, ReadStep DEF n, Found, Sending
<1>4. CASE CommitRelease(t)
  BY <1>4, FinishStep DEF CommitRelease
<1>5. CASE FailRelease(t)
  BY <1>5, FailStep DEF FailRelease
<1>6. CASE DeleteLease(t)
  <2>1. lease' \in [Node -> {"none", "active", "expired"}]
    BY <1>1, <1>6, LeaseWrites DEF DeleteLease, n
  <2> QED
    BY <1>6, <2>1, GotoStep DEF DeleteLease, Sending
<1> QED
  BY <1>2, <1>3, <1>4, <1>5, <1>6 DEF ReleaseStep

\* The steps of the renewal loop.
LEMMA ReclaimInv ==
    ASSUME LeaseInv, NEW t \in Thread, ReclaimStep(t)
    PROVE  LeaseInv'
<1> DEFINE n == t[1]
<1>1. LeaseTypeOK /\ n \in Node /\ cache[n] \in Quota /\ op[t] \in Call
  BY CallFields DEF LeaseInv
<1> HIDE DEF n
<1>2. CASE RenewTick(t)
  BY <1>1, <1>2, GotoStep, LeaseWrites DEF RenewTick, n, Sending
<1>3. CASE ReclaimNothing(t)
  BY <1>1, <1>3, GotoStep, LeaseWrites DEF ReclaimNothing, Sending
<1>4. CASE ReclaimCredits(t)
  <2> DEFINE upd == Reclaimed(cache[n], n)
             c == [op[t] EXCEPT !.pc = "withdraw", !.upd = upd]
  <2>1. Legal(cache[n], upd)
    BY <1>1, ReclaimedLegal
  <2>2. /\ Found(n) /\ ReadCopy(t) /\ op' = [op EXCEPT ![t] = c]
        /\ UNCHANGED <<quota, cache, lagging, lease, up>>
    BY <1>4 DEF ReclaimCredits, n
  <2> HIDE DEF upd
  <2>3. c \in Call /\ c.pc = "withdraw" /\ c.upd = upd
    <3>1. upd \in Quota
      BY <2>1 DEF Legal
    <3> QED
      BY <1>1, <3>1 DEF Call
  <2> HIDE DEF c
  <2> QED
    BY <2>1, <2>2, <2>3, ReadStep DEF n, Found, Sending
<1>5. CASE CommitReclaim(t)
  BY <1>5, FinishStep DEF CommitReclaim
<1>6. CASE FailReclaim(t)
  BY <1>6, FailStep DEF FailReclaim
<1> QED
  BY <1>2, <1>3, <1>4, <1>5, <1>6 DEF ReclaimStep

\* Callers start calls and take their answers.
LEMMA CallerInv ==
    ASSUME LeaseInv, NEW t \in Thread, Caller(t)
    PROVE  LeaseInv'
<1>1. PICK c \in Call : op' = [op EXCEPT ![t] = c]
  <2>1. CASE \E k \in Kind, b \in Batches : StartRequest(t, k, b)
    BY <2>1, IdleType, LeaseAssumption DEF StartRequest
  <2>2. CASE \E k \in Kind : StartRelease(t, k)
    BY <2>2, IdleType, LeaseAssumption DEF StartRelease
  <2>3. CASE Return(t)
    BY <2>3, IdleType DEF Return
  <2> QED
    BY <2>1, <2>2, <2>3 DEF Caller
<1>2. op[t].pc \in {"idle", "return"} /\ UNCHANGED <<quota, cache, lagging, lease, up, fresh>>
  BY DEF Caller, StartRequest, StartRelease, Return
<1>3. fresh' \subseteq fresh \ {t}
  BY <1>2 DEF LeaseInv, FreshLegal, Sending
<1>4. lease' \in [Node -> {"none", "active", "expired"}]
  BY <1>2 DEF LeaseInv, LeaseTypeOK
<1> QED
  BY <1>1, <1>2, <1>3, <1>4, PrivateStep

\* What the administrator writes is well formed.
LEMMA SpecsType ==
    ASSUME NEW l \in Specs, NEW b \in Batches
    PROVE  /\ l \in [Kind -> Limit] /\ b \in Nat
           /\ NewQuota(l, b) \in Quota
           /\ NewQuota(l, b).exists
           /\ NewQuota(l, b).alloc = NoCredits
           /\ \A q \in Quota :
                 /\ [q EXCEPT !.limit = l, !.batch = b] \in Quota
                 /\ [q EXCEPT !.limit = l, !.batch = b].exists = q.exists
                 /\ [q EXCEPT !.limit = l, !.batch = b].alloc = q.alloc
<1>1. l \in [Kind -> Limit] /\ b \in Nat
  BY LeaseAssumption DEF Specs
<1>2. NoCredits \in [Kind -> [Node -> Nat]]
  BY DEF NoCredits
<1>3. NewQuota(l, b) \in Quota /\ NewQuota(l, b).exists /\ NewQuota(l, b).alloc = NoCredits
  BY <1>1, <1>2 DEF NewQuota, Quota
<1>4. \A q \in Quota :
         /\ [q EXCEPT !.limit = l, !.batch = b] \in Quota
         /\ [q EXCEPT !.limit = l, !.batch = b].exists = q.exists
         /\ [q EXCEPT !.limit = l, !.batch = b].alloc = q.alloc
  BY <1>1 DEF Quota
<1> QED
  BY <1>1, <1>3, <1>4

\* The administrator, the informers, the clock and crashes.
LEMMA EnvironmentInv ==
    ASSUME LeaseInv, Environment
    PROVE  LeaseInv'
<1>1. LeaseTypeOK /\ quota \in Quota /\ op \in [Thread -> Call]
  BY DEF LeaseInv, LeaseTypeOK
<1>2. CASE CreateQuota
  <2>1. PICK l \in Specs, b \in Batches : WriteQuota(NewQuota(l, b))
    BY <1>2 DEF CreateQuota
  <2> QED
    BY <1>1, <1>2, <2>1, SpecsType, WriteStep DEF CreateQuota
<1>3. CASE EditQuota
  <2>1. PICK l \in Specs, b \in Batches : WriteQuota([quota EXCEPT !.limit = l, !.batch = b])
    BY <1>3 DEF EditQuota
  <2> DEFINE q == [quota EXCEPT !.limit = l, !.batch = b]
  <2>2. q \in Quota /\ q.exists
    BY <1>1, <1>3, SpecsType DEF EditQuota
  <2> HIDE DEF q
  <2>3. WriteQuota(q)
    BY <2>1 DEF q
  <2> QED
    BY <1>1, <1>3, <2>2, <2>3, WriteStep DEF EditQuota
<1>4. CASE DeleteQuota
  BY <1>1, <1>4, NoQuotaType, WriteStep DEF DeleteQuota
<1>5. ASSUME NEW n \in Node, InformerSync(n) \/ Restart(n)
      PROVE  LeaseInv'
  <2>1. LeaseTypeOK'
    BY <1>5 DEF InformerSync, Restart, LeaseInv, LeaseTypeOK
  <2>2. CachesCoherent' /\ NoGhost' /\ FreshLegal'
    BY <1>1, <1>5
    DEF InformerSync, Restart, LeaseInv, LeaseTypeOK, CachesCoherent, NoGhost, FreshLegal
  <2> QED
    BY <2>1, <2>2 DEF LeaseInv
<1>6. ASSUME NEW n \in Node, LeaseExpires(n)
      PROVE  LeaseInv'
  <2>1. LeaseTypeOK'
    BY <1>6 DEF LeaseExpires, LeaseInv, LeaseTypeOK
  <2>2. CachesCoherent' /\ NoGhost' /\ FreshLegal'
    BY <1>6 DEF LeaseExpires, LeaseInv, CachesCoherent, NoGhost, FreshLegal
  <2> QED
    BY <2>1, <2>2 DEF LeaseInv
<1>7. ASSUME NEW n \in Node, Crash(n)
      PROVE  LeaseInv'
  <2>1. LeaseTypeOK'
    BY <1>7, IdleType, NoQuotaType DEF Crash, LeaseInv, LeaseTypeOK
  <2>2. CachesCoherent' /\ NoGhost'
    BY <1>7 DEF Crash, LeaseInv, LeaseTypeOK, CachesCoherent, NoGhost
  <2>3. \A t \in fresh' : t \in fresh /\ op'[t] = op[t]
    BY <1>7 DEF Crash, LeaseInv, LeaseTypeOK
  <2>4. FreshLegal'
    BY <1>7, <2>3 DEF Crash, LeaseInv, FreshLegal
  <2> QED
    BY <2>1, <2>2, <2>4 DEF LeaseInv
<1> QED
  BY <1>2, <1>3, <1>4, <1>5, <1>6, <1>7 DEF Environment

\* The invariant holds at the start.
LEMMA InitInv == LeaseInit => LeaseInv
<1> SUFFICES ASSUME LeaseInit PROVE LeaseInv
  OBVIOUS
<1>1. LeaseTypeOK
  BY NoQuotaType, IdleType DEF LeaseInit, LeaseTypeOK
<1> QED
  BY <1>1 DEF LeaseInit, LeaseInv, CachesCoherent, NoGhost, FreshLegal

\* Every step preserves the invariant.
LEMMA StepInv == LeaseInv /\ [LeaseNext]_leaseVars => LeaseInv'
<1>1. LeaseInv /\ UNCHANGED leaseVars => LeaseInv'
  BY DEF leaseVars, LeaseInv, LeaseTypeOK, CachesCoherent, NoGhost, FreshLegal
<1>2. LeaseInv /\ LeaseNext => LeaseInv'
  BY RequestInv, ReleaseInv, ReclaimInv, CallerInv, EnvironmentInv DEF LeaseNext, CallStep
<1> QED
  BY <1>1, <1>2

(***************************************************************************)
(* The manager's state keeps its types: no request, release, reclaim or    *)
(* crash of any agent leaves a negative allocation on the server.          *)
(***************************************************************************)
THEOREM LeaseTypes == LeaseSpec => []LeaseTypeOK
<1>1. LeaseInv => LeaseTypeOK
  BY DEF LeaseInv
<1> QED
  BY <1>1, InitInv, StepInv, PTL DEF LeaseSpec

-----------------------------------------------------------------------------
\* What a step does to the object on the server.

\* A step leaves the object alone, creates, edits or deletes it, or is an
\* accepted update and then legal.
LEMMA QuotaSteps ==
    ASSUME LeaseInv, [LeaseNext]_leaseVars
    PROVE  \/ quota' = quota
           \/ CreateQuota \/ EditQuota \/ DeleteQuota
           \/ Legal(quota, quota')
<1>1. ASSUME NEW t \in Thread, CommitGrant(t) \/ CommitRelease(t) \/ CommitReclaim(t)
      PROVE  Legal(quota, quota')
  BY <1>1
  DEF CommitGrant, CommitRelease, CommitReclaim, Accepted, Current, WriteQuota,
      LeaseInv, FreshLegal
<1>2. CASE UNCHANGED leaseVars
  BY <1>2 DEF leaseVars
<1>3. ASSUME Environment
      PROVE  CreateQuota \/ EditQuota \/ DeleteQuota \/ UNCHANGED quota
  BY <1>3 DEF Environment, InformerSync, LeaseExpires, Crash, Restart
<1>4. ASSUME NEW t \in Thread, CallStep(t)
      PROVE  \/ CommitGrant(t) \/ CommitRelease(t) \/ CommitReclaim(t)
             \/ UNCHANGED quota
  BY <1>4
  DEF CallStep, RequestStep, ReleaseStep, ReclaimStep, RequestNotFound, RequestExisting,
      RequestExhausted, Answer, RequestGrant, FailGrant, EnsureLease, ReleaseNothing,
      ReleaseCredits, FailRelease, DeleteLease, RenewTick, ReclaimNothing, ReclaimCredits,
      FailReclaim
<1>5. ASSUME NEW t \in Thread, Caller(t)
      PROVE  UNCHANGED quota
  BY <1>5 DEF Caller, StartRequest, StartRelease, Return
<1> QED
  BY <1>1, <1>2, <1>3, <1>4, <1>5 DEF LeaseNext

\* What that does to the bookings.
LEMMA ServerSteps ==
    ASSUME LeaseInv, [LeaseNext]_leaseVars
    PROVE  \/ quota' = quota
           \/ quota'.alloc = NoCredits /\ quota.alloc = NoCredits
           \/ quota' = NoQuota
           \/ quota'.alloc = quota.alloc /\ "edit" \in Admin
           \/ Legal(quota, quota')
<1>1. CASE CreateQuota
  <2>1. quota.alloc = NoCredits
    BY <1>1, NoQuotaType DEF CreateQuota, LeaseInv, NoGhost
  <2>2. PICK l \in Specs, b \in Batches : quota' = NewQuota(l, b)
    BY <1>1 DEF CreateQuota, WriteQuota
  <2>3. quota'.alloc = NoCredits
    BY <2>2, SpecsType
  <2> QED
    BY <2>1, <2>3
<1>2. CASE EditQuota
  <2>1. quota \in Quota
    BY DEF LeaseInv, LeaseTypeOK
  <2> QED
    BY <1>2, <2>1, SpecsType DEF EditQuota, WriteQuota
<1>3. CASE DeleteQuota
  BY <1>3 DEF DeleteQuota, WriteQuota
<1> QED
  BY <1>1, <1>2, <1>3, QuotaSteps

\* The credits that a legal update leaves booked fit the limit if they did.
LEMMA LegalFits ==
    ASSUME NEW q \in Quota, NEW u, Legal(q, u), NEW k \in Kind,
           Allocated(q.alloc[k]) <= TotalLimit(q, k)
    PROVE  Allocated(u.alloc[k]) <= TotalLimit(u, k)
<1>1. u \in Quota /\ TotalLimit(u, k) = TotalLimit(q, k)
  BY DEF Legal, TotalLimit
<1>2. /\ Allocated(q.alloc[k]) \in Nat /\ Allocated(u.alloc[k]) \in Nat
      /\ TotalLimit(q, k) \in Nat
      /\ q.alloc \in [Kind -> [Node -> Nat]] /\ u.alloc \in [Kind -> [Node -> Nat]]
  BY <1>1, QuotaFields
<1>3. ASSUME NEW j \in Kind, NEW n \in Node, NEW g \in 1..FreeCredits(q, j),
             q.alloc[j][n] = 0, u.alloc = [q.alloc EXCEPT ![j][n] = g]
      PROVE  Allocated(u.alloc[k]) <= TotalLimit(u, k)
  <2>1. CASE j = k
    <3>1. u.alloc[k] = [q.alloc[k] EXCEPT ![n] = g] /\ q.alloc[k] \in [Node -> Nat]
      BY <1>2, <1>3, <2>1
    <3>2. g \in Nat /\ g <= TotalLimit(q, k) - Allocated(q.alloc[k])
      BY <1>2, <2>1 DEF FreeCredits, Available
    <3>3. Allocated(u.alloc[k]) = Allocated(q.alloc[k]) + g
      BY <1>3, <2>1, <3>1, <3>2, GrantAllocates
    <3> QED
      BY <1>1, <1>2, <3>2, <3>3
  <2>2. CASE j # k
    <3>1. u.alloc[k] = q.alloc[k]
      BY <1>2, <1>3, <2>2
    <3> QED
      BY <1>1, <3>1
  <2> QED
    BY <2>1, <2>2
<1>4. ASSUME \A j \in Kind, n \in Node : u.alloc[j][n] \in {0, q.alloc[j][n]}
      PROVE  Allocated(u.alloc[k]) <= TotalLimit(u, k)
  <2>1. \A n \in Node : u.alloc[k][n] <= q.alloc[k][n]
    BY <1>2, <1>4
  <2>2. Allocated(u.alloc[k]) <= Allocated(q.alloc[k])
    BY <1>2, <2>1, WithdrawFrees
  <2> QED
    BY <1>1, <1>2, <2>2
<1> QED
  BY <1>3, <1>4 DEF Legal

\* Nothing is booked of a quota that nobody has drawn from.
LEMMA NoCreditsFit ==
    ASSUME NEW q \in Quota, q.alloc = NoCredits, NEW k \in Kind
    PROVE  Allocated(q.alloc[k]) <= TotalLimit(q, k)
<1>1. q.alloc[k] = [n \in Node |-> 0]
  BY DEF NoCredits
<1> QED
  BY <1>1, NothingAllocated, QuotaFields

(***************************************************************************)
(* While nobody edits the spec, the booked credits never exceed the limit, *)
(* whatever the lag of the informers and however many threads of however   *)
(* many agents call the manager: LeaseInv says that an accepted update was *)
(* computed from the very object it replaces.                              *)
(***************************************************************************)
THEOREM LeaseLedger == LeaseSpec => []LedgerWithinSpec
<1>1. LeaseInit => LedgerWithinSpec
  BY NoQuotaType, NoCreditsFit DEF LeaseInit, LedgerWithinSpec
<1>2. LeaseInv /\ LeaseInv' /\ LedgerWithinSpec /\ [LeaseNext]_leaseVars => LedgerWithinSpec'
  <2> SUFFICES ASSUME LeaseInv, LeaseInv', LedgerWithinSpec, [LeaseNext]_leaseVars,
                      "edit" \notin Admin, NEW k \in Kind
               PROVE  Allocated(quota'.alloc[k]) <= TotalLimit(quota', k)
    BY DEF LedgerWithinSpec
  <2>1. quota \in Quota /\ quota' \in Quota
    BY DEF LeaseInv, LeaseTypeOK
  <2>2. Allocated(quota.alloc[k]) <= TotalLimit(quota, k)
    BY DEF LedgerWithinSpec
  <2>3. CASE quota' = quota
    BY <2>2, <2>3
  <2>4. CASE quota'.alloc = NoCredits
    BY <2>1, <2>4, NoCreditsFit
  <2>5. CASE Legal(quota, quota')
    BY <2>1, <2>2, <2>5, LegalFits
  <2> QED
    BY <2>3, <2>4, <2>5, ServerSteps, NoQuotaType
<1> QED
  BY <1>1, <1>2, InitInv, StepInv, PTL DEF LeaseSpec

(***************************************************************************)
(* status.available is what the allocations leave of the limit after every *)
(* update that changes who holds descriptors.                              *)
(***************************************************************************)
THEOREM LeaseAvailable == LeaseSpec => AvailablePublished
<1>1. LeaseInv /\ [LeaseNext]_leaseVars =>
         [quota'.exists /\ quota'.alloc["fd"] # quota.alloc["fd"]
             => quota'.available = AvailableFD(quota')]_leaseVars
  BY ServerSteps, NoQuotaType DEF Legal
<1> QED
  BY <1>1, InitInv, StepInv, PTL DEF LeaseSpec, AvailablePublished

-----------------------------------------------------------------------------
\* The refinement: every step, seen on the server, is a step of the pool.

\* The pool counts as the manager does.
LEMMA PoolArithmetic ==
    ASSUME NEW total, NEW f
    PROVE  Pool!Available(total, f) = Available(total, f)
<1>1. Pool!CreditsOf(f, Node) = CreditsOf(f, Node)
  BY Zenon DEF Pool!CreditsOf, CreditsOf
<1>2. Pool!Allocated(f) = Allocated(f)
  BY <1>1, Zenon DEF Pool!Allocated, Allocated, Pool!Cardinality, Cardinality
<1> QED
  BY <1>2 DEF Pool!Available, Available

\* Every step of the manager is a step of the pool or changes nothing in it.
LEMMA PoolSteps ==
    ASSUME LeaseInv, LeaseInv', [LeaseNext]_leaseVars
    PROVE  [Pool!PoolNext]_(Pool!poolVars)
<1> DEFINE L == [k \in Kind |-> TotalLimit(quota, k)]
           LNext == [k \in Kind |-> TotalLimit(quota', k)]
<1>1. quota \in Quota /\ quota' \in Quota
  BY DEF LeaseInv, LeaseTypeOK
<1>2. LNext \in [Kind -> Nat] /\ quota'.alloc \in [Kind -> [Node -> Nat]]
  BY <1>1, QuotaFields DEF Kind
<1>3. CASE quota' = quota
  BY <1>3 DEF Pool!poolVars, TotalLimit
<1>4. CASE quota'.alloc = NoCredits
  <2>1. Pool!Reset
    BY <1>2, <1>4 DEF Pool!Reset, Pool!Nobody, NoCredits
  <2> QED
    BY <2>1 DEF Pool!PoolNext
<1>5. CASE quota'.alloc = quota.alloc
  <2>1. Pool!Resize
    BY <1>2, <1>5 DEF Pool!Resize
  <2> QED
    BY <2>1 DEF Pool!PoolNext
<1>6. CASE Legal(quota, quota')
  <2>1. LNext = L
    BY <1>6 DEF Legal, TotalLimit
  <2>2. ASSUME NEW k \in Kind, NEW n \in Node, NEW g \in 1..FreeCredits(quota, k),
               quota.alloc[k][n] = 0, quota'.alloc = [quota.alloc EXCEPT ![k][n] = g]
        PROVE  Pool!Grant(k, n)
    <3>1. g \in 1..Pool!Available(L[k], quota.alloc[k])
      BY PoolArithmetic DEF FreeCredits
    <3> QED
      BY <2>1, <2>2, <3>1 DEF Pool!Grant
  <2>3. ASSUME \A k \in Kind, n \in Node : quota'.alloc[k][n] \in {0, quota.alloc[k][n]}
        PROVE  Pool!Withdraw
    BY <1>2, <2>1, <2>3 DEF Pool!Withdraw
  <2> QED
    BY <1>6, <2>2, <2>3 DEF Legal, Pool!PoolNext
<1> QED
  BY <1>3, <1>4, <1>5, <1>6, ServerSteps, NoQuotaType

(***************************************************************************)
(* The manager implements the credit pool for any number of agents: stale  *)
(* caches, lost answers, conflicts, crashes and reclaims never show on the *)
(* server as anything but a grant of free credits or a withdrawal.         *)
(***************************************************************************)
THEOREM LeaseImplementsPool == LeaseSpec => ImplementsPool
<1>1. LeaseInit => Pool!PoolInit
  <2> SUFFICES ASSUME LeaseInit PROVE Pool!PoolInit
    OBVIOUS
  <2>1. quota \in Quota /\ quota.alloc = NoCredits
    BY NoQuotaType DEF LeaseInit
  <2>2. [k \in Kind |-> TotalLimit(quota, k)] \in [Kind -> Nat]
    BY <2>1, QuotaFields
  <2> QED
    BY <2>1, <2>2 DEF Pool!PoolInit, Pool!Nobody, NoCredits
<1> QED
  BY <1>1, InitInv, StepInv, PoolSteps, PTL DEF LeaseSpec, ImplementsPool, Pool!PoolSpec
=============================================================================
