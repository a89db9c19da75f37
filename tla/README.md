# A TLA+ verification of object-quota-manager

object-quota-manager runs one agent per Kubernetes node. An `ObjectQuota`
limits the open file descriptors and the processes of a namespace over the
whole cluster; each agent books a part of the limit (a lease of *credits*) in
the status of the quota, writes it to eBPF maps, and eBPF programs count the
objects of the namespace's pods and kill when the limit is reached.

## The system and its parts

| Part | Source | State | Operations | Module |
|---|---|---|---|---|
| Lease manager | `lease_k8s.go` | `ObjectQuota.status` (allocations, available), one heartbeat `Lease` per node | `RequestLease`, `ReleaseLease`, `ReclaimExpiredLeases`, `StartLeaseRenewal` | `LeaseArithmetic`, `LeaseManager` |
| Controllers | `controller.go` | workqueue, informer cache | reconcile a quota, reconcile a pod | `QuotaAgent` |
| Syncer, limits | `syncer.go` | the limit and counter maps | `SyncFromQuota`, `SyncNamespace`, `SyncProcessNamespace`, `RemoveNamespace` | `QuotaAgent`, `Enforcer` |
| Syncer, cgroups | `syncer.go`, `cgroup.go` | `nsCgroups`, `cgroupPaths`, `nsNameByKey`, resolver cache, the cgroup maps | map pods, scan, invalidate, remove | `CgroupMap` |
| eBPF programs | `ebpf/src/enforcer_kern.c` | the nine maps | the four hooks `fd_install`, `filp_close`, `kernel_clone`, `do_exit` | `Enforcer` |
| Breach watcher | `syncer.go` | the ring buffer | `handleBreachEvent` | `Enforcer` |
| Metrics, start-up, generated bindings | `metrics.go`, `main.go`, `ebpf/*.go` | - | - | not modelled |

How they interact: the administrator writes quotas to the API server; informers
carry versions of them to every agent; two controllers with a worker each call
the Syncer, which calls the lease manager (Get from the cache, Status().Update
to the server) and then updates the maps; a third goroutine renews the heartbeat
and reclaims the credits of others; programs on every CPU read and write the
same maps; breach events return through the ring buffer. A fourth goroutine, the
scanner, maps the cgroups that syncs missed once a second.

What is hard: the manager decides on stale copies and relies on the server's
conflict check; an update may be booked while its answer is lost; agents crash
between any two steps; two controllers of one node race; the programs read,
test and add in separate instructions on several CPUs while the Syncer copies
and writes back the same counter; the cgroups of pods are resolved through a
cache, from lists that are old by the time the mutex is granted. `PROJECT.json`
lists these hazards by line.

## Modules

* `LeaseArithmetic` - what `requestFD` and `requestProc` compute. The sum over
  an allocation map is the cardinality of a set of credits, so no recursion is
  needed. A value 0 stands for a missing key: a grant is the minimum of two
  positive numbers, so no path stores a 0.
* `CreditPool` - the abstract specification: a pool per kind from which a node
  that holds nothing is granted what the pool really has left.
* `LeaseManager` - the manager step by step. `quota` is the object on the
  server, `cache[n]` the copy in n's informer, `lagging` the nodes whose copy is
  old, `fresh` the threads whose copy is still the latest version (a resource
  version compared for equality needs no number), `lease[n]` the heartbeat,
  `op[t]` the call of thread t with its program counter, the object it is about
  to write and its answer. Reading, updating and the heartbeat are separate
  steps. `LeaseSpec` drives it with callers in any order; `ImplementsPool` states
  that it implements `CreditPool`.
* `QuotaAgent` - extends `LeaseManager` with the real callers: `dirty` is the
  workqueue, `sync[t]` what `SyncFromQuota` keeps, `nsLimit` the limit maps; the
  history variable `stuck` has the limits that the kernel did not delete.
  `ImplementsManager` states that these calls are ones `LeaseSpec` allows.
* `Enforcer` - the eBPF programs of one node, one namespace and one kind
  (the two kinds differ only in the names of maps) with the map updates of the
  Syncer's workers. `cpu[c]` is the program CPU c is in; `live` says that the
  counter it looked up is still the element in the map, because an update of a
  hash map replaces the element; `count` and `budget` are what it has loaded of it;
  `agent[w]` is the sync or removal worker w is in; `open[g]` are the objects that
  really exist. Two history variables: `exact` turns false when a subtraction or a
  write-back loses an update, and `leaked` counts the objects that went, or never
  came, without the program that would take them off the counter.
* `CgroupMap` - which cgroups are in the kernel maps, for several namespaces.
  `dir` is the cgroup file system, `phase` and `quota` what the informers show,
  `mapped` the two kernel maps, `cached` the resolver's cache, `sync[t]` the
  SyncFromQuota of each controller's worker from the list of the pods on, `scan`
  the scanner between its reads and its locked write, `lock` the holder of
  `Syncer.mu`. The history variable `orphans` has the elements of the kernel maps
  that a failed delete, or the scanner's failed second update, left without a path.
* `LeaseProofs`, `AgentProofs` - the theorems about `LeaseManager`, and those about
  `QuotaAgent` that build on them.
* `EnforcerProofs`, `CountProofs`, `BudgetProofs` - the theorems about `Enforcer`: its
  types and its overshoot, what the counter charges for, when a breach is declared.
* `CgroupProofs` - the theorems about `CgroupMap`.
* `MCAgent`, `MCEnforcer`, `MCCgroup` - the threads, pods and symmetries of the TLC
  runs.

A definition whose name ends in `Mutant` is a plausible bug of the definition
that follows it; each property of a passing run is violated under one of them.

### Abstractions

* One quota in one namespace, one thread per role; the keys `<ns>` and
  `<ns>-proc` are the two kinds.
* The quota and the Leases are read by a reclaim in one step: both come from the
  agent's cache, and a write in between is a cache that lags. Leases are seen
  without delay. The clock is `LeaseExpires`, which may happen at any time, so a
  live node whose renewals fail is included.
* The error of `RequestLease` and an answer of 0 are the same, as in the Syncer.
* `Status.Version` is left out: nothing reads it.
* In `Enforcer` a cgroup has one process at a time; a kill takes effect with the
  closes that follow. A program and the kernel function behind it are apart: `Install`
  follows the add, or a clone fails (`CloneFails`). `CloseShared` is any close with a
  reference count above 1 (another descriptor, a mapping, a system call in flight),
  which `track_close_fd` ignores, and `Inherit` a descriptor that a fork passes on.
  Every look-up and every test of a program is a step; a value it has loaded may be
  used again where the source reads it again, because the reads are plain. The budget
  is read and written in one step (`ExtendBudget`). `MapCgroup` is the
  mapping of one pod's cgroup, during a sync or by the scanner while nsCgroups has
  the namespace; `RemoveCgroups` unmaps any of the cgroups, because nsCgroups need
  not have all of them, and `HandleBreach` may fail to find a name or a path.
  `CgroupMap` has the detail of all three. What a program reads from an element
  that was replaced is arbitrary and what it writes there is lost; reuse of the
  freed element by another key is left out. The agent is restarted when no program
  runs, though a kernel function may be between its program and its effect.
* In `CgroupMap` limits, counters and leases are left out: a sync whose limit or
  counter cannot be written ends before it touches a cgroup. The pods are listed in
  the step that reads the quota, the mutex is waited for afterwards, and it is held
  over several steps. A quota or pod that exists may be reconciled at any time
  (events, retries, resync); a deletion is handled once. The visits of the scanner
  to the pod directories do not depend on each other, so each has a copy of
  nsCgroups of its own and reads at one instant. Path patterns and inodes are
  abstracted to the identity of a cgroup, which is never reused. A cgroup whose
  mapping fails in a sync is never the pod's own, which `Resolve` puts last.
* The constants 10, 100, 10 and 100 of the budget are parameters, so that a
  limit of 4 can play the part of one above 100 (`Enforcer_Budget`), and a limit of 1
  that of one whose first budget is below it (`Enforcer_Sync`, `SmallLimit` 0);
  `Enforcer_Race` and `Enforcer_Blame` have the code's values.
* Every map update and delete of the Syncer may fail where the code handles the
  error: an update ends the sync, a delete is logged and the next one follows.

## Runs

Passing runs:

| Run | Instance | Shows |
|---|---|---|
| `agent_obtain` | the quota controllers of 2 nodes; limit 3, batch 2 | `LedgerWithinSpec`, `NodeWithinQuota`, `LeaseObtained` |
| `agent_reclaim` | n2 holds both kinds and crashes, n1 reclaims | `TypeOK`, `ImplementsManager`, `ImplementsPool`, `CreditsReturn`, `HoldersKeep` |
| `agent_limits` | both controllers of a node, edits and deletes, deletes of limits that fail | `ImplementsPool`, `AvailablePublished`, `LimitsInstalled`, `LimitsRemovedAlone` |
| `enforcer_race` | processes: 2 CPUs, 2 cgroups, limits 0 and 1, one worker, restarts, clones that fail | `TypeOK`, `OvershootBound`, `CountedAreOpen` |
| `enforcer_sync` | descriptors: 1 CPU against the workers of both controllers: a budget that starts below the limit, resyncs, removals, evictions | `BreachOnlyAtLimit` |
| `cgroup_map` | 2 namespaces with a pod each, one pod with a container; quotas come and go, updates and deletes fail, an element is evicted, the agent crashes | `TypeOK`, `MappedToOwner`, `Killable`, `CgroupsMapped` |

Runs that end in a counterexample, each against a sentence of the
documentation (quoted in `PROJECT.json`, findings):

| Run | Property | What happens |
|---|---|---|
| `agent_share` | `GlobalQuotaShared` | a node without credits enforces the whole limit beside the holders |
| `agent_no_status` | `LeaseObtained` | the CRD does not enable the status subresource: no update is accepted |
| `agent_remove_race` | `LimitsRemoved` | a pod reconcile in flight reinstalls the limit of a deleted quota |
| `enforcer_budget` | `BreachOnlyAtLimit` | a resync makes the next open a breach far below the limit |
| `enforcer_blame` | `BlamesTheAbuser` | the top consumer is remembered from its peak and blamed for what another cgroup does |
| `cgroup_panic` | `ScannerSurvives` | RemoveNamespace runs between the scanner's copy and its write: a write to a nil map |

Observed while modelling, without a run of their own: a quota that is not named
like its namespace is never found by the manager (`NameMatches = FALSE` gives the
same counterexample as `agent_no_status`); a kind dropped from the spec while the
other one stays keeps its limit in the map; a node that holds more credits than a
lowered limit keeps enforcing them; a node whose Lease object does not exist yet
loses credits just granted to a reclaim; a descriptor that is closed while anything
else refers to its file stays charged for ever, a clone that fails is charged and
never taken off (`leaked` counts both, and `CountedAreOpen` allows for no more), and
inherited descriptors are not counted at all; two closes at a count of 1 wrap the
counter, and a resync that writes back an older copy loses what was counted meanwhile
(`exact` records both); a failed clone also raises the cgroup's own counter, by which the top consumer is
chosen; a limit whose delete fails
stays after the quota is gone (`stuck`), and so does a cgroup whose delete fails, then
without the path that a kill needs (`orphans`); a breach event that finds the ring
full is lost; each sync replaces nsCgroups[ns] by what that sync and
kind resolved, so the cgroups of pods that are done stay in the kernel maps when the
namespace is removed; the scanner skips a pod whose own cgroup is tracked, so it
never finds a container that was created later, which only a pod event maps
(`InvalidateMutant` breaks `CgroupsMapped`); the resolver cache never drops the
entries of pods that are gone.

### Bounds

Two nodes and two CPUs give every pair of conflicting actors. A limit of 3 with
batches of 2 makes the first grant whole and the second one cut; limits of 1
exhaust the pool. `MaxOpen` bounds the objects of a cgroup (1 in each of the two
cgroups of `enforcer_race`, so the two of them pass the limit of 1; 2 in
`enforcer_sync`), `MaxLeaks` those that leak (1), `Modulus` the counter width (small,
so wrap-around is reached), `RingSize` 1 fills the ring (in `enforcer_sync` it is 0:
every event is lost). `enforcer_sync` has one CPU because the workers are the other
actors; `EnforcerBreaches` covers every number. Its `SmallLimit` of 0 gives a limit of
1 a first budget of 0, so the budget is extended, and every resync puts it back below
the limit. `enforcer_race` runs the programs of the processes; its invariants were
also checked once with those of the descriptors, 2 CPUs on one cgroup, limits 0 to 2,
up to 4 objects and 2 leaks (5.6 million states).

`agent_limits` limits descriptors only. With a limit on both kinds that is never
edited it was checked once (179 thousand states); with edits on top it exceeds the
time of a run, so that a process limit skipped by a failed sync (`syncer.go:463`) is
covered only without edits.

In `cgroup_map` the pod p2 of the namespace without a quota runs all the time
(`Resident`), the pod p1 and its container come and go once, and pods do not end
(`Phases`); the deletes that may fail are those of p1's own cgroup (`MayStay`). An
instance with pods that end, any combination of kinds and evictions
of both maps, with deletes that succeed, has 3.6 million states and was checked once
for the invariants.
No state constraint is used; all bounds are constants in guards. All runs check for
deadlock.

### Fairness

`Progress`: informers deliver and threads inside a call go on (goroutines).
`Reconciles`: workqueues are served and informers resync (controller-runtime).
`DeadExpire`: the clock of a dead node's Lease runs on. Strong fairness on map
updates (`SyncsSucceed`) and on accepted status updates (`GrantsSucceed`,
`ReclaimsSucceed`) says that an operation that is tried again and again works at
some point; each run takes only the parts its property needs. Nothing is assumed
of the administrator, of pod events, of restarts or of heartbeats. The runs with
a liveness counterexample use `FairSpec`, the conjunction of all of them.

`LimitsInstalled` needs neither credits nor pod events. `LeaseObtained` and
`CreditsReturn` are checked with a spec that nobody edits: edits that never end
can make every status update conflict. `LimitsRemovedAlone` is `LimitsRemoved` for
the behaviours in which the pod controller's worker is idle while
`RemoveNamespace` cleans the maps; `agent_remove_race` shows why that is needed. Both
except a limit whose own delete failed (`Removable`), since nothing tries that again.
`HoldersKeep` says what a reclaim may not do to a node that stays alive; before its
heartbeat is alive for good, the node may lose its credits to a reclaim that read an
older Lease.

`CgroupMap.FairSpec` assumes that workers serve their queues and go on, that
`sync.RWMutex` starves nobody (strong fairness on `Lock` and `RemoveCgroups`), and
that the kernel refuses the updates of the quota controller only so many times. The
pod controller's updates may fail for ever, and nothing is assumed of the scanner and
the kubelet: `CgroupsMapped` does not depend on them.

## Proofs

`LeaseProofs` proves, for any finite set of nodes, any threads of theirs, limits,
batches and administrator (`NodeFinite`, `LeaseAssumption`):

* `LeaseTypes`: `LeaseSpec => []LeaseTypeOK`;
* `LeaseLedger`: `LeaseSpec => []LedgerWithinSpec`, for callers in any order;
* `LeaseAvailable`: `LeaseSpec => AvailablePublished`;
* `LeaseImplementsPool`: `LeaseSpec => ImplementsPool`, the refinement of
  `CreditPool`.

All four rest on one invariant, `LeaseInv`. The ledger's bound alone is not
inductive: an update that is on its way could write anything. `LeaseInv` says that
a copy which is not lagging equals the object on the server (`CachesCoherent`), and
that the update of a thread whose version is still the latest is `Legal` over the
object on the server now (`FreshLegal`): a grant to one node that held nothing out
of what is left, or entries set to 0, with the limits kept and `status.available`
recomputed. Reading establishes it (`ReadStep`), any write empties `fresh`
(`WriteStep`), and an accepted update is one in `fresh` (`CommitStep`).
`GrantedLegal`, `ReleasedLegal` and `ReclaimedLegal` show that what the manager
computes is legal over the copy it read, the last one for any Leases it saw.
Allocations are added up as the cardinality of a set of credits, so the
arithmetic (`GrantAllocates`, `WithdrawFrees`, `GrantFits`) comes from the library's
facts on finite sets. `ServerSteps` then reduces each theorem to five kinds of
writes.

`EnforcerProofs` proves, for any finite sets of CPUs and cgroups, any workers, limits,
batch constants and counter width above `MaxLimit + |CPU|` (`EnforcerAssumption`):

* `EnforcerTypes`: `Spec => []TypeOK`. `TypeInv` strengthens the types with the
  fact that a program in the middle of its run has a cgroup.
* `EnforcerOvershoot`: `Spec => []OvershootBound`. `OvershootBound` is not
  inductive: nothing in it says how many programs are about to add.
  `OvershootInv` adds the programs in `Passed`, those that saw a count below their
  limit and still hold the element in the map: the count plus their number stays
  within `MaxLimit + |CPU| - 1`. A program that passes read at most
  `MaxLimit - 1` and at most `|CPU|` programs can have passed; an add moves one
  unit from the number of programs to the count; a subtraction lowers the count
  unless it wraps, which `exact` excludes; a write-back or a removal by any worker
  empties `Passed`. The bound also keeps the count below the modulus, so the add does not
  wrap.

`AgentProofs` proves, from the same assumptions and for the agents' own specification:

* `AgentTypes`: `Spec => []TypeOK`;
* `AgentImplementsManager`: `Spec => ImplementsManager`;
* `AgentLedger`: `Spec => []LedgerWithinSpec /\ ImplementsPool /\ AvailablePublished`,
  the theorems on the manager carried over to its real callers;
* `AgentWithinQuota`: `Spec => []NodeWithinQuota`.

The refinement needs `AgentInv`: a step of a sync is a call of `LeaseSpec` only if the
thread is a worker of a live node that is in no other call (`CallsMadeBy`), and if the
batch size it asks with is one the administrator may have written. The second is not
a fact about the sync alone: the batch comes from a copy of the quota in the cache,
and that one from the server, so `CopiesBatched` says it of all three. `WithinInv` is
the same idea for the limits. While nobody edits the quota, every copy of it has its
limits or none and books at most the whole limit to a node, an answer computed from
such a copy is at most the limit, and so is what a sync installs, whether it was
granted or is the fallback on the limit itself. A creation of the quota can only
raise `TotalLimit` from 0, so copies made before it still fit.

`CountProofs` proves `EnforcerCounted`: `Spec => []CountedAreOpen`, from
`EnforcerAssumption`. The property counts the objects of all cgroups, and for these it
is not inductive: an object of a cgroup that is not mapped is closed without a
subtraction, so the objects get fewer and the count does not. `Charged` therefore
bounds the count by the objects of *mapped* cgroups, the CPUs between a program and its
kernel function that have charged one or are about to take one off (`Holding`), and
what leaked: an add, the object behind it, its close and the subtraction each move one
unit between these. `Steady` has what the steps need besides: a program that counts
found its cgroup mapped, one about to subtract still holds the element in the map
unless `exact` is false, a missing element counts 0, and no worker is in the middle of
a removal. The hypotheses `~Removes` and `~Evicts` are those of the property.

`BudgetProofs` proves `EnforcerBreaches`: `Spec => []BreachOnlyAtLimit` for a namespace
with one limit `max` such that one extension of its first budget reaches it
(`OneLimit`). `SmallIsOne` shows what that means in the code: any limit up to 100.
`BudgetInv` says that every budget, of the counter, of a copy that a worker writes
back or in a register of a program, is the first one or `max`; that both the program's
and the counter's are `max` for a program about to test again, since whichever it
started from, the extension made it so, and a write-back or a removal takes the
counter from the program; and that a program that declares a breach has loaded a
count of at least `max`. The hypotheses are needed. For a limit above 100
`enforcer_budget` has the counterexample. With two limits TLC finds one with 2 CPUs and
a worker: a program that still knows a limit of 1 passes the limit test at a count of 0
and, after another one's add, finds the budget of 1 spent, as does one that knows the
new limit of 2; the second extends the budget to 2, the first takes it back to 1, and
the second, which reads it again, declares a breach at a count of 1.

`CgroupProofs` proves, for any finite set of cgroup directories and any pods,
namespaces and workers (`CgroupAssumption`):

* `CgroupTypes`: `Spec => []TypeOK`, with the mutex held by exactly the thread that is
  between `Lock` and `Unlock`;
* `CgroupOwners`: `Spec => []MappedToOwner`;
* `CgroupKillable`: `Spec => []Killable`.

`MappedToOwner` looks only at the maps. What is written there was read before the
mutex was granted, from a list of pods, the resolver cache or a tick of the scanner, so
`CgroupInv` says of each of these that it only holds cgroups of the pod or the
namespace it is used for (`SyncsConsistent`, `CacheConsistent`, `ScanConsistent`).
`Killable` needs `MappedToOwner`, since removing a namespace drops the paths of its
cgroups and no other namespace may track one of them, and `SyncsNamed`: a sync that
has the mutex wrote the name and the paths it relies on, and nobody else removes
them. What it excepts is exactly what `orphans` records at the two places where the
code goes on after an error; entering a cgroup again ends the exception
(`CgroupsMapped` says that this happens).

Model-checked only:

* liveness (`CreditsReturn`, `HoldersKeep`, `LimitsInstalled`, `LeaseObtained`, `LimitsRemovedAlone`,
  `CgroupsMapped`), because fairness and ENABLED are outside the prover's reach;
* `BreachOnlyAtLimit` outside the hypotheses of `EnforcerBreaches`;
* the properties of the runs that end in a counterexample.

## Not modelled

* Metrics, flags and probes, loading and attaching of programs, the fallback without
  eBPF, generated bindings, and the text of events and logs.
* The watermark expansion of the documentation (a node asks for more at 80 % of its
  lease) has no code outside the tests.
* Several quotas in one namespace, and namespaces whose name ends in `-proc`
  (`isProcSuffix` takes their descriptors for the processes of another namespace):
  the lease modules have one quota.
* Negative limits: as an unsigned number such a limit is never reached.
* `vmlinux.h` is generated from the kernel's types and has no code.

## Plan

All invariants and action properties of the passing runs are theorems (`BreachOnlyAtLimit`
under the hypotheses above). Left:

1. Consequences of the abstract pool that a reader expects, proved once of
   `CreditPool` and carried down by `ImplementsPool`: a node's credits change only from
   0 to a grant and back to 0.
2. The mutex of `CgroupMap` as an action property: no thread writes `nsCgroups` or
   the paths while another one holds it.
