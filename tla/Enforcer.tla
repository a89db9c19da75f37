------------------------------ MODULE Enforcer ------------------------------
(***************************************************************************)
(* The eBPF programs of one node and one namespace (enforcer_kern.c) with  *)
(* the parts of the Syncer that write and read their maps (syncer.go).     *)
(* The programs for descriptors and for processes are the same up to the   *)
(* names of the maps, and so are SyncNamespace and SyncProcessNamespace:   *)
(* the module models one kind.  Programs run on several CPUs at once and   *)
(* only their atomic instructions are atomic.                              *)
(*                                                                         *)
(* An object is a descriptor or a process; open[g] counts those of cgroup  *)
(* g.  The kernel functions the programs are attached to are external:     *)
(* what matters of them is when an object really comes and goes.           *)
(***************************************************************************)
EXTENDS Integers, FiniteSets, Sequences

CONSTANTS Kind,                 \* the programs: "fd" or "proc"
          CPU, Cgroup,
          Worker,               \* the workers of the agent's controllers
          Nil,                  \* no limit in the map; no top consumer
          Limits, MaxLimit,     \* the limits the agent writes, and their bound
          MaxOpen,              \* bound: objects a cgroup may have
          MaxLeaks,             \* bound: objects that go uncounted
          Modulus,              \* the counters' 2^64, scaled down
          Slices, SmallLimit,   \* 10 and 100 in the code: a budget is a tenth of
          MinStep, MaxStep,     \* a limit above 100; it grows by 10 to 100
          RingSize,             \* breach events the ring buffer holds
          Resyncs,              \* may the agent sync again what it synced?
          Removes,              \* may the namespace lose its limit?
          Evicts,               \* may the LRU maps drop elements of theirs?
          Crashes               \* may the agent end and start again?

ASSUME EnforcerAssumption ==
    /\ Kind \in {"fd", "proc"}
    /\ IsFiniteSet(CPU)
    /\ CPU # {}
    /\ IsFiniteSet(Cgroup)
    /\ Nil \notin Nat \cup Cgroup
    /\ MaxLimit \in Nat
    /\ Limits \subseteq 0..MaxLimit
    /\ {MaxOpen, MaxLeaks} \subseteq Nat
    /\ Modulus \in Nat
    /\ Modulus > MaxLimit + Cardinality(CPU)
    /\ RingSize \in Nat
    /\ {SmallLimit, MinStep, MaxStep} \subseteq Nat
    /\ Slices \in Nat \ {0}
    /\ {Resyncs, Removes, Evicts, Crashes} \subseteq BOOLEAN

VARIABLES mapped,       \* the cgroups in fd_cgroup or proc_cgroup
          tracked,      \* does the Syncer have an entry nsCgroups[ns]?
          limit,        \* fd_ns_limit or proc_ns_limit
          lease,        \* fd_ns_counter or proc_ns_counter
          cgCount,      \* fd_cgroup_counter or proc_cgroup_counter
          ring,         \* the events ring buffer
          cpu,          \* cpu[c]: the program CPU c is in
          agent,        \* agent[w]: the sync or removal worker w is in
          open,         \* the objects that really exist
          dying,        \* the cgroups whose process was sent SIGKILL
          leaked,       \* history: the objects that went, or never came, without
                        \* the program that would take them off the counter
          exact         \* history: so far no subtraction from the counter was
                        \* lost or went below 0, and no write-back changed it

vars == <<mapped, tracked, limit, lease, cgCount, ring, cpu, agent, open,
          dying, leaked, exact>>
world == <<open, dying, leaked>>

\* struct cpu_lease; present says whether the map has an element.
Lease == [present : BOOLEAN, count : Nat, budget : Nat,
          topCg : Cgroup \cup {Nil}, topCount : Nat]

NoLease == [present |-> FALSE, count |-> 0, budget |-> 0,
            topCg |-> Nil, topCount |-> 0]

PC == {"idle", "record", "insert", "lookup", "counter", "top", "settop",
       "topcount", "check", "slice", "budget", "recheck", "add", "breach",
       "charged", "return", "close", "cgsub", "nscheck", "sub"}

\* max: the limit that the program looked up.  live: the counter that it
\* looked up is still the element in the map.  Both maps replace an element
\* when userspace updates it; a program keeps the one it found.  count, budget:
\* what the program has loaded of the counter.  The reads are plain, so that the
\* compiler may use a value again instead of reading it again.
Program == [pc : PC, cg : Cgroup \cup {Nil}, max : Nat, live : BOOLEAN,
            count : Nat, budget : Nat]

Quiet == [pc |-> "idle", cg |-> Nil, max |-> 0, live |-> FALSE,
          count |-> 0, budget |-> 0]

\* max: the limit that the worker syncs; copy: the counter it is about to write.
Agent == [pc : {"idle", "reset", "write", "map", "delcounter", "unmap"},
          max : Nat, copy : Lease]

Resting == [pc |-> "idle", max |-> 0, copy |-> NoLease]

TypeOK ==
    /\ mapped \subseteq Cgroup
    /\ tracked \in BOOLEAN
    /\ limit \in Limits \cup {Nil}
    /\ lease \in Lease
    /\ cgCount \in [Cgroup -> Nat \cup {Nil}]
    /\ ring \in Seq([cg : Cgroup, top : Cgroup \cup {Nil}])
    /\ Len(ring) <= RingSize
    /\ cpu \in [CPU -> Program]
    /\ agent \in [Worker -> Agent]
    /\ open \in [Cgroup -> Nat]
    /\ dying \subseteq Cgroup
    /\ leaked \in Nat
    /\ exact \in BOOLEAN

Init ==
    /\ mapped = {}
    /\ tracked = FALSE
    /\ limit = Nil
    /\ lease = NoLease
    /\ cgCount = [g \in Cgroup |-> Nil]
    /\ ring = <<>>
    /\ cpu = [c \in CPU |-> Quiet]
    /\ agent = [w \in Worker |-> Resting]
    /\ open = [g \in Cgroup |-> 0]
    /\ dying = {}
    /\ leaked = 0
    /\ exact = TRUE

Running(g) == {c \in CPU : cpu[c].cg = g}

-----------------------------------------------------------------------------
\* The processes of the pods.

\* CPU c runs a program for cgroup g, at instruction pc.
Runs(c, pc, g) == cpu' = [cpu EXCEPT ![c] = [Quiet EXCEPT !.pc = pc, !.cg = g]]

\* A process of g is about to get a descriptor or to fork: track_install_fd,
\* track_clone.  The first map lookup decides whether the namespace of g is
\* watched at all.
Enter(c, g) ==
    /\ cpu[c].pc = "idle"
    /\ g \notin dying
    /\ open[g] + Cardinality(Running(g)) < MaxOpen
    /\ Runs(c, IF g \in mapped THEN "record" ELSE "return", g)
    /\ UNCHANGED <<mapped, tracked, limit, lease, cgCount, ring, agent, world, exact>>

\* fd_install or kernel_clone after its program has returned: the object exists.
\* The programs observe; they never refuse.
Install(c) ==
    /\ cpu[c].pc \in {"charged", "return"}
    /\ open' = [open EXCEPT ![cpu[c].cg] = @ + 1]
    /\ cpu' = [cpu EXCEPT ![c] = Quiet]
    /\ UNCHANGED <<mapped, tracked, limit, lease, cgCount, ring, agent, dying, leaked, exact>>

\* kernel_clone fails after its program has returned: no process will ever exit.
CloneFails(c) ==
    /\ Kind = "proc"
    /\ \/ cpu[c].pc = "return" /\ UNCHANGED leaked
       \/ cpu[c].pc = "charged" /\ leaked < MaxLeaks /\ leaked' = leaked + 1
    /\ cpu' = [cpu EXCEPT ![c] = Quiet]
    /\ UNCHANGED <<mapped, tracked, limit, lease, cgCount, ring, agent, open, dying, exact>>

\* A process that forks passes its descriptors on without fd_install.
Inherit(g) ==
    /\ Kind = "fd"
    /\ g \notin dying
    /\ open[g] > 0
    /\ open[g] + Cardinality(Running(g)) < MaxOpen
    /\ open' = [open EXCEPT ![g] = @ + 1]
    /\ UNCHANGED <<mapped, tracked, limit, lease, cgCount, ring, cpu, agent, dying, leaked, exact>>

\* filp_close of a descriptor while something else refers to its file: another
\* descriptor, a mapping, a system call in flight.  track_close_fd sees a
\* reference count above 1 and counts nothing, whatever becomes of the file.
CloseShared(g) ==
    /\ Kind = "fd"
    /\ open[g] > 0
    /\ leaked < MaxLeaks
    /\ open' = [open EXCEPT ![g] = @ - 1]
    /\ leaked' = leaked + 1
    /\ UNCHANGED <<mapped, tracked, limit, lease, cgCount, ring, cpu, agent, dying, exact>>

\* filp_close with the last reference, or do_exit: track_close_fd, track_exit.
Close(c, g) ==
    /\ cpu[c].pc = "idle"
    /\ open[g] > 0
    /\ open' = [open EXCEPT ![g] = @ - 1]
    /\ Runs(c, "close", g)
    /\ UNCHANGED <<mapped, tracked, limit, lease, cgCount, ring, agent, dying, leaked, exact>>

\* The process that was killed is gone and another one takes its place.
Respawn(g) ==
    /\ g \in dying
    /\ open[g] = 0
    /\ Running(g) = {}
    /\ dying' = dying \ {g}
    /\ UNCHANGED <<mapped, tracked, limit, lease, cgCount, ring, cpu, agent, open, leaked, exact>>

-----------------------------------------------------------------------------
\* over_limit, over_proc_limit.

Goto(c, pc) == cpu' = [cpu EXCEPT ![c].pc = pc]

\* The program returns, having charged the counter or not.
Return(c, pc) == Runs(c, pc, cpu[c].cg)

\* record_cgroup_inc: one atomic add, or an insert of 1 in a later step.
RecordInc(c) ==
    LET g == cpu[c].cg
    IN  /\ cpu[c].pc = "record"
        /\ \/ /\ cgCount[g] # Nil
              /\ cgCount' = [cgCount EXCEPT ![g] = (@ + 1) % Modulus]
              /\ Goto(c, "lookup")
           \/ /\ cgCount[g] = Nil
              /\ Goto(c, "insert")
              /\ UNCHANGED cgCount
        /\ UNCHANGED <<mapped, tracked, limit, lease, ring, agent, world, exact>>

RecordInsert(c) ==
    /\ cpu[c].pc = "insert"
    /\ cgCount' = [cgCount EXCEPT ![cpu[c].cg] = 1]
    /\ Goto(c, "lookup")
    /\ UNCHANGED <<mapped, tracked, limit, lease, ring, agent, world, exact>>

\* No limit or a limit of 0: the object is not counted.
LookupLimit(c) ==
    /\ cpu[c].pc = "lookup"
    /\ \/ limit \in {Nil, 0} /\ Return(c, "return")
       \/ /\ limit \notin {Nil, 0}
          /\ cpu' = [cpu EXCEPT ![c] = [@ EXCEPT !.pc = "counter", !.max = limit]]
    /\ UNCHANGED <<mapped, tracked, limit, lease, cgCount, ring, agent, world, exact>>

\* Nor is it without a counter.
LookupCounter(c) ==
    /\ cpu[c].pc = "counter"
    /\ \/ ~lease.present /\ Return(c, "return")
       \/ /\ lease.present
          /\ cpu' = [cpu EXCEPT ![c] = [@ EXCEPT !.pc = "top", !.live = TRUE]]
    /\ UNCHANGED <<mapped, tracked, limit, lease, cgCount, ring, agent, world, exact>>

\* What a program reads of an element that was replaced may be anything the
\* element held.
Outcomes(c, holds) == IF cpu[c].live THEN {holds} ELSE BOOLEAN

\* The cgroup's own counter is compared with that of the top consumer.
CompareTop(c) ==
    LET n == cgCount[cpu[c].cg]
    IN  /\ cpu[c].pc = "top"
        /\ \E more \in Outcomes(c, n # Nil /\ n > lease.topCount) :
              Goto(c, IF n # Nil /\ more THEN "settop" ELSE "check")
        /\ UNCHANGED <<mapped, tracked, limit, lease, cgCount, ring, agent, world, exact>>

\* A write to an element that was replaced or deleted meanwhile is lost.
Store(c, l) == lease' = IF cpu[c].live THEN l ELSE lease

SetTopCgroup(c) ==
    /\ cpu[c].pc = "settop"
    /\ Store(c, [lease EXCEPT !.topCg = cpu[c].cg])
    /\ Goto(c, "topcount")
    /\ UNCHANGED <<mapped, tracked, limit, cgCount, ring, agent, world, exact>>

SetTopCount(c) ==
    LET n == cgCount[cpu[c].cg]
    IN  /\ cpu[c].pc = "topcount"
        /\ Store(c, [lease EXCEPT !.topCount = IF n = Nil THEN @ ELSE n])
        /\ Goto(c, "check")
        /\ UNCHANGED <<mapped, tracked, limit, cgCount, ring, agent, world, exact>>

AtLimit(count, max) == count >= max

\* The program goes on with the values it has loaded.
Load(c, pc, count, budget) ==
    cpu' = [cpu EXCEPT ![c] = [@ EXCEPT !.pc = pc, !.count = count, !.budget = budget]]

\* The first test, of the counter against the limit ...
CheckLimit(c) ==
    /\ cpu[c].pc = "check"
    /\ \E full \in Outcomes(c, AtLimit(lease.count, cpu[c].max)) :
          Load(c, IF full THEN "breach" ELSE "slice", lease.count, 0)
    /\ UNCHANGED <<mapped, tracked, limit, lease, cgCount, ring, agent, world, exact>>

\* ... the second, of the counter against the budget ...
CheckSlice(c) ==
    /\ cpu[c].pc = "slice"
    /\ \E n \in {cpu[c].count, lease.count} :
       \E spent \in Outcomes(c, n >= lease.budget) :
          \/ spent /\ Load(c, "budget", n, lease.budget)
          \/ ~spent /\ Load(c, "add", 0, 0)
    /\ UNCHANGED <<mapped, tracked, limit, lease, cgCount, ring, agent, world, exact>>

Step(max) == IF max \div Slices < MinStep THEN MinStep
             ELSE IF max \div Slices > MaxStep THEN MaxStep
             ELSE max \div Slices

\* Mutant: a step that does not fit is not taken at all.
ExtendedMutant(budget, max) ==
    IF budget + Step(max) <= max THEN budget + Step(max) ELSE budget

Extended(budget, max) ==
    IF budget + Step(max) <= max THEN budget + Step(max) ELSE max

\* ... whose extension reads the budget, once, and writes it ...
ExtendBudget(c) ==
    /\ cpu[c].pc = "budget"
    /\ \E b \in {cpu[c].budget, lease.budget} :
          LET e == Extended(b, cpu[c].max)
          IN  Store(c, [lease EXCEPT !.budget = e]) /\ Load(c, "recheck", cpu[c].count, e)
    /\ UNCHANGED <<mapped, tracked, limit, cgCount, ring, agent, world, exact>>

\* ... and the third, of the counter against the extended budget.
CheckBudget(c) ==
    /\ cpu[c].pc = "recheck"
    /\ \E n \in {cpu[c].count, lease.count}, b \in {cpu[c].budget, lease.budget} :
       \E spent \in Outcomes(c, n >= b) :
          \/ spent /\ Load(c, "breach", n, 0)
          \/ ~spent /\ Load(c, "add", 0, 0)
    /\ UNCHANGED <<mapped, tracked, limit, lease, cgCount, ring, agent, world, exact>>

Add(c) ==
    /\ cpu[c].pc = "add"
    /\ Store(c, [lease EXCEPT !.count = (@ + 1) % Modulus])
    /\ Return(c, "charged")
    /\ UNCHANGED <<mapped, tracked, limit, cgCount, ring, agent, world, exact>>

\* Mutant: the result of bpf_ringbuf_reserve is not checked.
EmittedMutant(g, top) == Append(ring, [cg |-> g, top |-> top])

\* emit_breach_event; an event that finds the buffer full is lost.
Emitted(g, top) ==
    IF Len(ring) < RingSize THEN Append(ring, [cg |-> g, top |-> top]) ELSE ring

\* Mutant: a breach falls through to the add.
BreachMutant(c) ==
    /\ cpu[c].pc = "breach"
    /\ ring' = Emitted(cpu[c].cg, lease.topCg)
    /\ dying' = IF cpu[c].cg = lease.topCg THEN dying \cup {cpu[c].cg} ELSE dying
    /\ Store(c, [lease EXCEPT !.count = (@ + 1) % Modulus])
    /\ Return(c, "charged")
    /\ UNCHANGED <<mapped, tracked, limit, cgCount, agent, open, leaked, exact>>

\* The event, and the signal if the process is the top consumer's.
Breach(c) ==
    LET g == cpu[c].cg
        tops == IF cpu[c].live THEN {lease.topCg} ELSE Cgroup \cup {Nil}
    IN  /\ cpu[c].pc = "breach"
        /\ \E top \in tops :
              /\ ring' = Emitted(g, top)
              /\ dying' = IF g = top THEN dying \cup {g} ELSE dying
        /\ Return(c, "return")
        /\ UNCHANGED <<mapped, tracked, limit, lease, cgCount, agent, open, leaked, exact>>

-----------------------------------------------------------------------------
\* track_close_fd, track_exit.

\* record_cgroup_dec: the test and the subtraction are two steps.
RecordDec(c) ==
    /\ cpu[c].pc = "close"
    /\ Goto(c, IF cgCount[cpu[c].cg] \in {Nil, 0} THEN "nscheck" ELSE "cgsub")
    /\ UNCHANGED <<mapped, tracked, limit, lease, cgCount, ring, agent, world, exact>>

RecordSub(c) ==
    LET g == cpu[c].cg
    IN  /\ cpu[c].pc = "cgsub"
        /\ cgCount' = [cgCount EXCEPT ![g] = IF @ = Nil THEN Nil ELSE (@ - 1) % Modulus]
        /\ Goto(c, "nscheck")
        /\ UNCHANGED <<mapped, tracked, limit, lease, ring, agent, world, exact>>

\* Mutant: the last object is never taken off the counter.
CountedMutant(g) == g \in mapped /\ lease.present /\ lease.count > 1

Counted(g) == g \in mapped /\ lease.present /\ lease.count > 0

CheckCounter(c) ==
    /\ cpu[c].pc = "nscheck"
    /\ cpu' = [cpu EXCEPT ![c] = IF Counted(cpu[c].cg)
                                 THEN [@ EXCEPT !.pc = "sub", !.live = TRUE]
                                 ELSE Quiet]
    /\ UNCHANGED <<mapped, tracked, limit, lease, cgCount, ring, agent, world, exact>>

Subtract(c) ==
    /\ cpu[c].pc = "sub"
    /\ Store(c, [lease EXCEPT !.count = (@ - 1) % Modulus])
    /\ cpu' = [cpu EXCEPT ![c] = Quiet]
    /\ exact' = (exact /\ (cpu[c].live => lease.count > 0))
    /\ UNCHANGED <<mapped, tracked, limit, cgCount, ring, agent, world>>

-----------------------------------------------------------------------------
\* The Syncer's updates of the maps, one bpf system call each.

Microslice(max) == IF max > SmallLimit THEN max \div Slices ELSE max

\* SyncNamespace, SyncProcessNamespace: the limit first ...
SyncLimit(w, l) ==
    /\ agent[w].pc = "idle"
    /\ limit = Nil \/ Resyncs
    /\ limit' = l
    /\ agent' = [agent EXCEPT ![w] = [Resting EXCEPT !.pc = "reset", !.max = l]]
    /\ UNCHANGED <<mapped, tracked, lease, cgCount, ring, cpu, world, exact>>

\* resetNsCounter: the counter l, or a new one, with a budget of a slice of max.
Reset(l, max) == [l EXCEPT !.present = TRUE, !.budget = Microslice(max)]

\* ... then resetNsCounter reads the counter and changes its copy ...
ResetLookup(w) ==
    /\ agent[w].pc = "reset"
    /\ agent' = [agent EXCEPT ![w] = [Resting EXCEPT !.pc = "write",
                                                    !.copy = Reset(lease, agent[w].max)]]
    /\ UNCHANGED <<mapped, tracked, limit, lease, cgCount, ring, cpu, world, exact>>

\* The programs that hold the element the map is about to drop.
Detach == cpu' = [c \in CPU |-> [cpu[c] EXCEPT !.live = FALSE]]

\* ... and writes it back: a new element ...
ResetUpdate(w) ==
    /\ agent[w].pc = "write"
    /\ lease' = agent[w].copy
    /\ exact' = (exact /\ lease'.count = lease.count
                       /\ \A c \in CPU : cpu[c].live => cpu[c].pc # "sub")
    /\ Detach
    /\ agent' = [agent EXCEPT ![w] = [Resting EXCEPT !.pc = "map"]]
    /\ UNCHANGED <<mapped, tracked, limit, cgCount, ring, world>>

\* ... unless the update fails, which leaves the new limit with the old counter.
ResetFails(w) ==
    /\ agent[w].pc = "write"
    /\ agent' = [agent EXCEPT ![w] = Resting]
    /\ UNCHANGED <<mapped, tracked, limit, lease, cgCount, ring, cpu, world, exact>>

\* The cgroups of the pods follow, in the sync or by the scanner.
MapCgroup(g) ==
    /\ tracked \/ \E w \in Worker : agent[w].pc = "map"
    /\ g \notin mapped
    /\ mapped' = mapped \cup {g}
    /\ UNCHANGED <<tracked, limit, lease, cgCount, ring, cpu, agent, world, exact>>

\* The sync ends with nsCgroups[ns] = known, or with the error of a mapping.
FinishSync(w) ==
    /\ agent[w].pc = "map"
    /\ tracked' \in {tracked, TRUE}
    /\ agent' = [agent EXCEPT ![w] = Resting]
    /\ UNCHANGED <<mapped, limit, lease, cgCount, ring, cpu, world, exact>>

\* RemoveNamespace: the limit, the counter, the cgroups.  A delete that fails is
\* logged and the next one follows.
RemoveLimit(w) ==
    /\ agent[w].pc = "idle"
    /\ Removes
    /\ limit' \in {limit, Nil}
    /\ agent' = [agent EXCEPT ![w] = [Resting EXCEPT !.pc = "delcounter"]]
    /\ UNCHANGED <<mapped, tracked, lease, cgCount, ring, cpu, world, exact>>

RemoveCounter(w) ==
    /\ agent[w].pc = "delcounter"
    /\ \/ lease' = NoLease /\ Detach
       \/ UNCHANGED <<lease, cpu>>
    /\ agent' = [agent EXCEPT ![w] = [Resting EXCEPT !.pc = "unmap"]]
    /\ UNCHANGED <<mapped, tracked, limit, cgCount, ring, world, exact>>

\* nsCgroups[ns] need not have all that is mapped: see CgroupMap.  A cgroup's
\* counter and its mapping are deleted one after the other.
RemoveCgroups(w) ==
    /\ agent[w].pc = "unmap"
    /\ \E gs, counters \in IF tracked THEN SUBSET Cgroup ELSE {{}} :
          /\ mapped' = mapped \ gs
          /\ cgCount' = [g \in Cgroup |-> IF g \in counters THEN Nil ELSE cgCount[g]]
    /\ tracked' = FALSE
    /\ agent' = [agent EXCEPT ![w] = Resting]
    /\ UNCHANGED <<limit, lease, ring, cpu, world, exact>>

\* handleBreachEvent: kill the top consumer, unless the program already did or
\* the name of the namespace or the path of the cgroup is not known.
HandleBreach ==
    LET e == Head(ring)
    IN  /\ ring # <<>>
        /\ ring' = Tail(ring)
        /\ \/ UNCHANGED dying
           \/ e.top \in Cgroup \ {e.cg} /\ dying' = dying \cup {e.top}
        /\ UNCHANGED <<mapped, tracked, limit, lease, cgCount, cpu, agent, open, leaked, exact>>

\* The process ends, its maps with it, and starts again; a program that runs is
\* through by then, its kernel function need not be.  The pods do not notice.
Restart ==
    /\ Crashes
    /\ \A c \in CPU : cpu[c].pc \in {"idle", "charged", "return"}
    /\ mapped' = {}
    /\ tracked' = FALSE
    /\ limit' = Nil
    /\ lease' = NoLease
    /\ cgCount' = [g \in Cgroup |-> Nil]
    /\ ring' = <<>>
    /\ agent' = [w \in Worker |-> Resting]
    /\ UNCHANGED <<cpu, world, exact>>

-----------------------------------------------------------------------------
\* The maps by cgroup are BPF_MAP_TYPE_LRU_HASH: the kernel drops elements to
\* make room for those of other cgroups.
EvictCgroup(g) ==
    /\ Evicts
    /\ g \in mapped
    /\ mapped' = mapped \ {g}
    /\ UNCHANGED <<tracked, limit, lease, cgCount, ring, cpu, agent, world, exact>>

EvictCounter(g) ==
    /\ Evicts
    /\ cgCount[g] # Nil
    /\ cgCount' = [cgCount EXCEPT ![g] = Nil]
    /\ UNCHANGED <<mapped, tracked, limit, lease, ring, cpu, agent, world, exact>>

-----------------------------------------------------------------------------
InstallStep(c) ==
    \/ RecordInc(c) \/ RecordInsert(c) \/ LookupLimit(c) \/ LookupCounter(c)
    \/ CompareTop(c) \/ SetTopCgroup(c) \/ SetTopCount(c) \/ CheckLimit(c)
    \/ CheckSlice(c) \/ ExtendBudget(c) \/ CheckBudget(c) \/ Add(c) \/ Breach(c)
    \/ Install(c) \/ CloneFails(c)

CloseStep(c) == RecordDec(c) \/ RecordSub(c) \/ CheckCounter(c) \/ Subtract(c)

WorkerStep(w) ==
    \/ \E l \in Limits : SyncLimit(w, l)
    \/ ResetLookup(w) \/ ResetUpdate(w) \/ ResetFails(w) \/ FinishSync(w)
    \/ RemoveLimit(w) \/ RemoveCounter(w) \/ RemoveCgroups(w)

AgentStep == (\E w \in Worker : WorkerStep(w)) \/ HandleBreach \/ Restart

CgroupStep(g) == MapCgroup(g) \/ EvictCgroup(g) \/ EvictCounter(g)

ProcessStep(g) ==
    \/ \E c \in CPU : Close(c, g) \/ Enter(c, g)
    \/ Inherit(g) \/ CloseShared(g) \/ Respawn(g)

Next ==
    \/ AgentStep
    \/ \E g \in Cgroup : ProcessStep(g) \/ CgroupStep(g)
    \/ \E c \in CPU : InstallStep(c) \/ CloseStep(c)

Spec == Init /\ [][Next]_vars

-----------------------------------------------------------------------------
\* Properties.

(***************************************************************************)
(* The test of the counter and the add that follows it are not atomic, but *)
(* the overshoot is bounded: unless an update of the counter was lost, the *)
(* counter exceeds the largest limit by less than the number of CPUs.      *)
(***************************************************************************)
OvershootBound ==
    exact => lease.count <= MaxLimit + Cardinality(CPU) - 1

Objects == UNION {{g} \X (1..open[g]) : g \in Cgroup}

\* The CPUs whose object the counter may have although it is not yet, or no
\* longer, there.
Pending ==
    {c \in CPU : cpu[c].pc \in {"charged", "close", "cgsub", "nscheck", "sub"}}

\* In a namespace that keeps its limit and its cgroups the counter charges for
\* nothing but the objects that are there, or come or go at the moment, and those
\* that leaked: closed with a file that something else still referred to, or cloned
\* in vain.  An update of the counter that is lost is the only exception, and a
\* restart of the agent is none.
CountedAreOpen ==
    exact /\ ~Removes /\ ~Evicts =>
        lease.count <= Cardinality(Objects) + Cardinality(Pending) + leaked

\* A program decides that the quota is breached only when the count it has loaded
\* from the element in the map has reached the limit it enforces: of over_limit's
\* three tests two compare the count with the budget.
BreachOnlyAtLimit ==
    \A c \in CPU : cpu[c].live /\ cpu[c].pc = "breach" => cpu[c].count >= cpu[c].max

\* What the node's own counter says of cgroup g.
Usage(g) == IF cgCount[g] = Nil THEN 0 ELSE cgCount[g]

\* A breach is blamed on a cgroup that no other of the namespace exceeds, by the
\* counters of the node itself: lease.topCg, which over_limit signals or reports
\* to be killed.
BlamesTheAbuser ==
    \A c \in CPU : cpu[c].pc = "breach" /\ cpu[c].live /\ lease.topCg # Nil
                     => \A g \in mapped : Usage(g) <= Usage(lease.topCg)
=============================================================================
