--------------------------- MODULE EnforcerProofs ---------------------------
(***************************************************************************)
(* The types of Enforcer and its bound on the overshoot, for any number of *)
(* CPUs, cgroups, limits and counter widths.                               *)
(***************************************************************************)
EXTENDS Enforcer, FiniteSetTheorems, TLAPS

\* The programs that have seen the counter below the limit and will still
\* add to the element in the map.
Passed == {c \in CPU : cpu[c].live /\ cpu[c].pc \in {"slice", "budget", "recheck", "add"}}

\* Why the overshoot is bounded: a program that passes the test leaves room
\* for each CPU to do the same once.
Bound == MaxLimit + Cardinality(CPU) - 1

OvershootInv ==
    /\ \A c \in CPU : cpu[c].max <= MaxLimit
    /\ exact => lease.count + Cardinality(Passed) <= Bound

-----------------------------------------------------------------------------
\* There is a CPU, and the counters have a range.
LEMMA CPUCardinality ==
    /\ Cardinality(CPU) \in Nat \ {0}
    /\ Bound \in Nat
    /\ Modulus \in Nat \ {0}
BY EnforcerAssumption, FS_CardinalityType, FS_EmptySet DEF Bound

\* No more programs pass than there are CPUs.
LEMMA PassedCardinality ==
    /\ IsFiniteSet(Passed)
    /\ Cardinality(Passed) \in Nat
    /\ Cardinality(Passed) <= Cardinality(CPU)
BY EnforcerAssumption, FS_Subset, FS_CardinalityType DEF Passed

\* The arithmetic of the counters stays within the naturals.
LEMMA CounterTypes ==
    \A n \in Nat : /\ (n + 1) % Modulus \in Nat
                   /\ (n - 1) % Modulus \in Nat
BY CPUCardinality

\* Away from the ends of their range the counters count.
LEMMA CounterSteps ==
    ASSUME NEW n \in Nat
    PROVE  /\ n < Modulus - 1 => (n + 1) % Modulus = n + 1
           /\ 0 < n /\ n <= Modulus => (n - 1) % Modulus = n - 1
BY CPUCardinality

-----------------------------------------------------------------------------
\* A program in the middle of its run belongs to a cgroup.
ProgramsHaveCgroups ==
    \A c \in CPU : cpu[c].pc # "idle" => cpu[c].cg \in Cgroup

ProgramsOK == cpu \in [CPU -> Program] /\ ProgramsHaveCgroups

TypeInv == TypeOK /\ ProgramsHaveCgroups

\* One program moves on.
LEMMA ProgramMoves ==
    ASSUME ProgramsOK, NEW c \in CPU, NEW p \in Program,
           p.pc # "idle" => p.cg \in Cgroup,
           cpu' = [cpu EXCEPT ![c] = p]
    PROVE  ProgramsOK'
BY DEF ProgramsOK, ProgramsHaveCgroups

\* The case of a program that goes on to its next instruction.
LEMMA GotoMoves ==
    ASSUME ProgramsOK, NEW c \in CPU, cpu[c].pc # "idle", NEW pc \in PC,
           cpu' = [cpu EXCEPT ![c].pc = pc]
    PROVE  ProgramsOK'
<1>1. cpu[c] \in Program
  BY DEF ProgramsOK
<1> DEFINE p == [cpu[c] EXCEPT !.pc = pc]
<1>2. p \in Program /\ p.cg = cpu[c].cg
  BY <1>1 DEF Program, PC
<1>3. cpu' = [cpu EXCEPT ![c] = p]
  BY DEF ProgramsOK
<1>4. p.cg \in Cgroup
  BY <1>2 DEF ProgramsOK, ProgramsHaveCgroups
<1> HIDE DEF p
<1> QED
  BY <1>2, <1>3, <1>4, ProgramMoves

\* The case of a program that goes on with what it has loaded.
LEMMA LoadMoves ==
    ASSUME ProgramsOK, NEW c \in CPU, cpu[c].pc # "idle", NEW pc \in PC,
           NEW n \in Nat, NEW b \in Nat, Load(c, pc, n, b)
    PROVE  ProgramsOK'
<1>1. cpu[c] \in Program
  BY DEF ProgramsOK
<1> DEFINE p == [cpu[c] EXCEPT !.pc = pc, !.count = n, !.budget = b]
<1>2. p \in Program /\ p.cg = cpu[c].cg
  BY <1>1 DEF Program
<1>3. cpu' = [cpu EXCEPT ![c] = p]
  BY DEF Load
<1>4. p.cg \in Cgroup
  BY <1>2 DEF ProgramsOK, ProgramsHaveCgroups
<1> HIDE DEF p
<1> QED
  BY <1>2, <1>3, <1>4, ProgramMoves

\* The case of a program that begins, or ends before its kernel function does.
LEMMA RunsMoves ==
    ASSUME ProgramsOK, NEW c \in CPU, NEW pc \in PC, NEW g \in Cgroup, Runs(c, pc, g)
    PROVE  ProgramsOK'
<1> DEFINE p == [Quiet EXCEPT !.pc = pc, !.cg = g]
<1>1. p \in Program /\ p.cg \in Cgroup
  BY DEF Quiet, Program
<1>2. cpu' = [cpu EXCEPT ![c] = p]
  BY DEF Runs
<1> HIDE DEF p
<1> QED
  BY <1>1, <1>2, ProgramMoves

\* The case of a CPU that is through.
LEMMA QuietMoves ==
    ASSUME ProgramsOK, NEW c \in CPU, cpu' = [cpu EXCEPT ![c] = Quiet]
    PROVE  ProgramsOK'
<1>1. Quiet \in Program /\ Quiet.pc = "idle"
  BY DEF Quiet, Program, PC
<1> QED
  BY <1>1, ProgramMoves

\* All programs lose the element they hold.
LEMMA DetachMoves ==
    ASSUME ProgramsOK, Detach
    PROVE  ProgramsOK'
<1>1. \A c \in CPU : /\ [cpu[c] EXCEPT !.live = FALSE] \in Program
                     /\ [cpu[c] EXCEPT !.live = FALSE].pc = cpu[c].pc
                     /\ [cpu[c] EXCEPT !.live = FALSE].cg = cpu[c].cg
  BY DEF ProgramsOK, Program
<1> QED
  BY <1>1 DEF ProgramsOK, ProgramsHaveCgroups, Detach

\* A store to the counter keeps its type.
LEMMA LeaseFields ==
    ASSUME NEW l \in Lease, NEW n \in Nat, NEW g \in Cgroup \cup {Nil}
    PROVE  /\ [l EXCEPT !.count = n] \in Lease
           /\ [l EXCEPT !.budget = n] \in Lease
           /\ [l EXCEPT !.topCount = n] \in Lease
           /\ [l EXCEPT !.topCg = g] \in Lease
           /\ [l EXCEPT !.present = TRUE, !.budget = n] \in Lease
           /\ {l.count, l.budget, l.topCount} \subseteq Nat
           /\ l.topCg \in Cgroup \cup {Nil}
           /\ NoLease \in Lease
BY DEF Lease, NoLease

\* The cgroup of a program, its limit and what it has loaded.
LEMMA ProgramFields ==
    ASSUME ProgramsOK, NEW c \in CPU
    PROVE  /\ cpu[c] \in Program
           /\ {cpu[c].max, cpu[c].count, cpu[c].budget} \subseteq Nat
           /\ cpu[c].pc # "idle" => cpu[c].cg \in Cgroup
BY DEF ProgramsOK, ProgramsHaveCgroups, Program

\* What a program is after it has gone on to its next instruction.
LEMMA GotoFields ==
    ASSUME TypeInv, NEW c \in CPU, NEW pc, Goto(c, pc)
    PROVE  \E p : /\ cpu' = [cpu EXCEPT ![c] = p]
                  /\ p.pc = pc /\ p.cg = cpu[c].cg /\ p.live = cpu[c].live
                  /\ p.max = cpu[c].max
<1> DEFINE p == [cpu[c] EXCEPT !.pc = pc]
<1>1. cpu[c] \in Program
  BY DEF TypeInv, TypeOK
<1>2. /\ p.pc = pc /\ p.cg = cpu[c].cg /\ p.live = cpu[c].live
      /\ p.max = cpu[c].max
  BY <1>1 DEF Program
<1>3. cpu' = [cpu EXCEPT ![c] = p]
  BY DEF Goto, TypeInv, TypeOK
<1> HIDE DEF p
<1> QED
  BY <1>2, <1>3

-----------------------------------------------------------------------------
\* A worker goes on.
LEMMA WorkerMoves ==
    ASSUME agent \in [Worker -> Agent], NEW w \in Worker, NEW a \in Agent,
           agent' = [agent EXCEPT ![w] = a]
    PROVE  agent' \in [Worker -> Agent]
OBVIOUS

\* What a worker becomes.
LEMMA AgentFields ==
    /\ Resting \in Agent
    /\ \A l \in Limits : [Resting EXCEPT !.pc = "reset", !.max = l] \in Agent
    /\ \A l \in Lease : [Resting EXCEPT !.pc = "write", !.copy = l] \in Agent
    /\ [Resting EXCEPT !.pc = "map"] \in Agent
    /\ [Resting EXCEPT !.pc = "delcounter"] \in Agent
    /\ [Resting EXCEPT !.pc = "unmap"] \in Agent
    /\ \A a \in Agent : a.max \in Nat /\ a.copy \in Lease
<1>1. NoLease \in Lease /\ \A l \in Limits : l \in Nat
  BY EnforcerAssumption DEF NoLease, Lease
<1> QED
  BY <1>1 DEF Resting, Agent

\* The initial state has the types.
LEMMA InitTypes == Init => TypeInv
<1> SUFFICES ASSUME Init PROVE TypeInv
  OBVIOUS
<1>1. agent \in [Worker -> Agent]
  BY AgentFields DEF Init
<1>2. lease \in Lease
  BY DEF Init, NoLease, Lease
<1>3. cpu \in [CPU -> Program] /\ ProgramsHaveCgroups
  BY DEF Init, Quiet, Program, PC, ProgramsHaveCgroups
<1>4. /\ ring \in Seq([cg : Cgroup, top : Cgroup \cup {Nil}])
      /\ Len(ring) <= RingSize
  BY EnforcerAssumption DEF Init
<1>5. open \in [Cgroup -> Nat] /\ leaked \in Nat
  BY DEF Init
<1>6. /\ mapped \subseteq Cgroup /\ dying \subseteq Cgroup
      /\ cgCount \in [Cgroup -> Nat \cup {Nil}]
      /\ limit \in Limits \cup {Nil}
  BY DEF Init
<1>7. tracked \in BOOLEAN /\ exact \in BOOLEAN
  BY DEF Init
<1> QED
  BY <1>1, <1>2, <1>3, <1>4, <1>5, <1>6, <1>7 DEF TypeInv, TypeOK

\* resetNsCounter makes a counter of a counter.
LEMMA ResetTypes ==
    ASSUME NEW l \in Lease, NEW max \in Nat
    PROVE  Reset(l, max) \in Lease
<1>1. Microslice(max) \in Nat
  BY EnforcerAssumption DEF Microslice
<1> QED
  BY <1>1, LeaseFields, EnforcerAssumption DEF Reset

\* The steps of a worker of the agent keep the types.
LEMMA WorkerTypes ==
    ASSUME NEW w \in Worker
    PROVE  TypeInv /\ WorkerStep(w) => TypeInv'
<1> SUFFICES ASSUME TypeInv, WorkerStep(w) PROVE TypeInv'
  OBVIOUS
<1>1. /\ ProgramsOK
      /\ agent \in [Worker -> Agent]
      /\ agent[w].max \in Nat /\ agent[w].copy \in Lease
  BY AgentFields DEF TypeInv, TypeOK, ProgramsOK
<1>2. ASSUME NEW l \in Limits, SyncLimit(w, l) PROVE TypeInv'
  <2>1. agent' \in [Worker -> Agent]
    BY <1>1, <1>2, AgentFields, WorkerMoves DEF SyncLimit
  <2> QED
    BY <1>2, <2>1 DEF SyncLimit, TypeInv, TypeOK, ProgramsHaveCgroups, world
<1>3. CASE ResetLookup(w)
  <2>1. Reset(lease, agent[w].max) \in Lease
    BY <1>1, ResetTypes DEF TypeInv, TypeOK
  <2>2. agent' \in [Worker -> Agent]
    BY <1>1, <1>3, <2>1, AgentFields, WorkerMoves DEF ResetLookup
  <2> QED
    BY <1>3, <2>2 DEF ResetLookup, TypeInv, TypeOK, ProgramsHaveCgroups, world
<1>4. CASE ResetUpdate(w)
  <2>1. ProgramsOK'
    BY <1>1, <1>4, DetachMoves DEF ResetUpdate
  <2>2. agent' \in [Worker -> Agent]
    BY <1>1, <1>4, AgentFields, WorkerMoves DEF ResetUpdate
  <2> QED
    BY <1>1, <1>4, <2>1, <2>2 DEF ResetUpdate, TypeInv, TypeOK, ProgramsOK, world
<1>5. CASE ResetFails(w)
  <2>1. agent' \in [Worker -> Agent]
    BY <1>1, <1>5, AgentFields, WorkerMoves DEF ResetFails
  <2> QED
    BY <1>5, <2>1 DEF ResetFails, TypeInv, TypeOK, ProgramsHaveCgroups, world
<1>6. CASE FinishSync(w)
  <2>1. agent' \in [Worker -> Agent]
    BY <1>1, <1>6, AgentFields, WorkerMoves DEF FinishSync
  <2> QED
    BY <1>6, <2>1 DEF FinishSync, TypeInv, TypeOK, ProgramsHaveCgroups, world
<1>7. CASE RemoveLimit(w)
  <2>1. agent' \in [Worker -> Agent]
    BY <1>1, <1>7, AgentFields, WorkerMoves DEF RemoveLimit
  <2> QED
    BY <1>7, <2>1 DEF RemoveLimit, TypeInv, TypeOK, ProgramsHaveCgroups, world
<1>8. CASE RemoveCounter(w)
  <2>1. ProgramsOK' /\ lease' \in Lease
    <3>1. lease \in Lease
      BY DEF TypeInv, TypeOK
    <3>2. CASE lease' = NoLease /\ Detach
      BY <1>1, <3>1, <3>2, DetachMoves, LeaseFields
    <3>3. CASE UNCHANGED <<lease, cpu>>
      BY <1>1, <3>1, <3>3 DEF ProgramsOK, ProgramsHaveCgroups
    <3> QED
      BY <1>8, <3>2, <3>3 DEF RemoveCounter
  <2>2. agent' \in [Worker -> Agent]
    BY <1>1, <1>8, AgentFields, WorkerMoves DEF RemoveCounter
  <2> QED
    BY <1>8, <2>1, <2>2 DEF RemoveCounter, TypeInv, TypeOK, ProgramsOK, world
<1>9. CASE RemoveCgroups(w)
  <2>1. agent' \in [Worker -> Agent]
    BY <1>1, <1>9, AgentFields, WorkerMoves DEF RemoveCgroups
  <2>2. mapped' \subseteq Cgroup /\ cgCount' \in [Cgroup -> Nat \cup {Nil}]
    BY <1>9 DEF RemoveCgroups, TypeInv, TypeOK
  <2> QED
    BY <1>9, <2>1, <2>2
    DEF RemoveCgroups, TypeInv, TypeOK, ProgramsHaveCgroups, world
<1> QED
  BY <1>2, <1>3, <1>4, <1>5, <1>6, <1>7, <1>8, <1>9 DEF WorkerStep

\* So do those of the whole agent.
LEMMA AgentTypes == TypeInv /\ AgentStep => TypeInv'
<1> SUFFICES ASSUME TypeInv, AgentStep PROVE TypeInv'
  OBVIOUS
<1>1. CASE HandleBreach
  <2> DEFINE Event == [cg : Cgroup, top : Cgroup \cup {Nil}]
  <2>1. ring \in Seq(Event) /\ ring # <<>>
    BY <1>1 DEF HandleBreach, TypeInv, TypeOK
  <2> HIDE DEF Event
  <2>2. Tail(ring) \in Seq(Event) /\ Len(Tail(ring)) = Len(ring) - 1 /\ Len(ring) \in Nat
    BY <2>1
  <2>3. ring' \in Seq(Event) /\ Len(ring') <= RingSize
    BY <1>1, <2>2, EnforcerAssumption DEF HandleBreach, TypeInv, TypeOK
  <2> QED
    BY <1>1, <2>3 DEF HandleBreach, Event, TypeInv, TypeOK, ProgramsHaveCgroups
<1>2. CASE Restart
  <2>1. agent' \in [Worker -> Agent] /\ lease' \in Lease
    BY <1>2, AgentFields, LeaseFields DEF Restart, TypeInv, TypeOK
  <2>2. /\ ring' \in Seq([cg : Cgroup, top : Cgroup \cup {Nil}])
        /\ Len(ring') <= RingSize
    BY <1>2, EnforcerAssumption DEF Restart
  <2> QED
    BY <1>2, <2>1, <2>2 DEF Restart, TypeInv, TypeOK, ProgramsHaveCgroups, world
<1> QED
  BY <1>1, <1>2, WorkerTypes DEF AgentStep

\* So do the maps by cgroup.
LEMMA CgroupTypes ==
    ASSUME NEW g \in Cgroup
    PROVE  TypeInv /\ CgroupStep(g) => TypeInv'
BY DEF CgroupStep, MapCgroup, EvictCgroup, EvictCounter, TypeInv, TypeOK,
       ProgramsHaveCgroups, world

\* So do the processes of the pods.
LEMMA ProcessTypes ==
    ASSUME NEW g \in Cgroup
    PROVE  TypeInv /\ ProcessStep(g) => TypeInv'
<1> SUFFICES ASSUME TypeInv, ProcessStep(g) PROVE TypeInv'
  OBVIOUS
<1>1. ProgramsOK
  BY DEF TypeInv, TypeOK, ProgramsOK
<1>2. ASSUME NEW c \in CPU, Close(c, g) PROVE TypeInv'
  <2>1. ProgramsOK'
    BY <1>1, <1>2, RunsMoves DEF Close, PC
  <2>2. open' \in [Cgroup -> Nat]
    BY <1>2 DEF Close, TypeInv, TypeOK
  <2> QED
    BY <1>2, <2>1, <2>2 DEF Close, TypeInv, TypeOK, ProgramsOK
<1>3. ASSUME NEW c \in CPU, Enter(c, g) PROVE TypeInv'
  <2>1. ProgramsOK'
    BY <1>1, <1>3, RunsMoves DEF Enter, PC
  <2> QED
    BY <1>3, <2>1 DEF Enter, TypeInv, TypeOK, ProgramsOK, world
<1>4. CASE Inherit(g) \/ CloseShared(g)
  <2>1. open' \in [Cgroup -> Nat] /\ leaked' \in Nat
    BY <1>4 DEF Inherit, CloseShared, TypeInv, TypeOK
  <2> QED
    BY <1>4, <2>1 DEF Inherit, CloseShared, TypeInv, TypeOK, ProgramsHaveCgroups
<1>5. CASE Respawn(g)
  BY <1>5 DEF Respawn, TypeInv, TypeOK, ProgramsHaveCgroups
<1> QED
  BY <1>2, <1>3, <1>4, <1>5 DEF ProcessStep

\* So do the programs that watch an object come.
LEMMA InstallStepTypes ==
    ASSUME NEW c \in CPU
    PROVE  TypeInv /\ InstallStep(c) => TypeInv'
<1> SUFFICES ASSUME TypeInv, InstallStep(c) PROVE TypeInv'
  OBVIOUS
<1>1. ProgramsOK /\ lease \in Lease
  BY DEF TypeInv, TypeOK, ProgramsOK
<1>2. CASE RecordInc(c)
  <2>1. ProgramsOK'
    BY <1>1, <1>2, GotoMoves DEF RecordInc, Goto, PC
  <2>2. cgCount' \in [Cgroup -> Nat \cup {Nil}]
    <3>1. cpu[c].cg \in Cgroup /\ cgCount \in [Cgroup -> Nat \cup {Nil}]
      BY <1>1, <1>2, ProgramFields DEF RecordInc, TypeInv, TypeOK
    <3>2. CASE cgCount[cpu[c].cg] # Nil
      <4>1. (cgCount[cpu[c].cg] + 1) % Modulus \in Nat
        BY <3>1, <3>2, CounterTypes
      <4>2. cgCount' = [cgCount EXCEPT ![cpu[c].cg] = (cgCount[cpu[c].cg] + 1) % Modulus]
        BY <1>2, <3>1, <3>2 DEF RecordInc
      <4> QED
        BY <3>1, <4>1, <4>2
    <3>3. CASE cgCount[cpu[c].cg] = Nil
      BY <1>2, <3>1, <3>3 DEF RecordInc
    <3> QED
      BY <3>2, <3>3
  <2> QED
    BY <1>2, <2>1, <2>2 DEF RecordInc, TypeInv, TypeOK, ProgramsOK, world
<1>3. CASE RecordInsert(c)
  <2>1. ProgramsOK'
    BY <1>1, <1>3, GotoMoves DEF RecordInsert, Goto, PC
  <2>2. cgCount' \in [Cgroup -> Nat \cup {Nil}]
    BY <1>3 DEF RecordInsert, TypeInv, TypeOK
  <2> QED
    BY <1>3, <2>1, <2>2 DEF RecordInsert, TypeInv, TypeOK, ProgramsOK, world
<1>4. CASE LookupLimit(c)
  <2>1. cpu[c] \in Program /\ cpu[c].cg \in Cgroup
    BY <1>1, <1>4, ProgramFields DEF LookupLimit
  <2>2. ProgramsOK'
    <3>1. CASE Return(c, "return")
      BY <1>1, <2>1, <3>1, RunsMoves DEF Return, PC
    <3>2. CASE ~Return(c, "return")
      <4> DEFINE p == [cpu[c] EXCEPT !.pc = "counter", !.max = limit]
      <4>1. limit \in Nat /\ cpu' = [cpu EXCEPT ![c] = p]
        BY <1>4, <3>2, EnforcerAssumption DEF LookupLimit, TypeInv, TypeOK
      <4>2. p \in Program /\ p.cg \in Cgroup
        BY <2>1, <4>1 DEF Program, PC
      <4> HIDE DEF p
      <4> QED
        BY <1>1, <4>1, <4>2, ProgramMoves
    <3> QED
      BY <3>1, <3>2
  <2> QED
    BY <1>4, <2>2 DEF LookupLimit, TypeInv, TypeOK, ProgramsOK, world
<1>5. CASE LookupCounter(c)
  <2>1. cpu[c] \in Program /\ cpu[c].cg \in Cgroup
    BY <1>1, <1>5, ProgramFields DEF LookupCounter
  <2>2. ProgramsOK'
    <3>1. CASE Return(c, "return")
      BY <1>1, <2>1, <3>1, RunsMoves DEF Return, PC
    <3>2. CASE ~Return(c, "return")
      <4> DEFINE p == [cpu[c] EXCEPT !.pc = "top", !.live = TRUE]
      <4>1. cpu' = [cpu EXCEPT ![c] = p]
        BY <1>5, <3>2 DEF LookupCounter
      <4>2. p \in Program /\ p.cg \in Cgroup
        BY <2>1 DEF Program, PC
      <4> HIDE DEF p
      <4> QED
        BY <1>1, <4>1, <4>2, ProgramMoves
    <3> QED
      BY <3>1, <3>2
  <2> QED
    BY <1>5, <2>2 DEF LookupCounter, TypeInv, TypeOK, ProgramsOK, world
<1>13. CASE CompareTop(c)
  <2>1. ProgramsOK'
    BY <1>1, <1>13, GotoMoves DEF CompareTop, Goto, PC
  <2> QED
    BY <1>13, <2>1 DEF CompareTop, TypeInv, TypeOK, ProgramsOK, world
<1>6. CASE SetTopCgroup(c)
  <2>1. ProgramsOK'
    BY <1>1, <1>6, GotoMoves DEF SetTopCgroup, Goto, PC
  <2>2. lease' \in Lease
    BY <1>6, <1>1, LeaseFields, ProgramFields DEF SetTopCgroup, Store
  <2> QED
    BY <1>6, <2>1, <2>2 DEF SetTopCgroup, TypeInv, TypeOK, ProgramsOK, world
<1>7. CASE SetTopCount(c)
  <2>1. ProgramsOK'
    BY <1>1, <1>7, GotoMoves DEF SetTopCount, Goto, PC
  <2>2. lease' \in Lease
    BY <1>7, <1>1, LeaseFields, ProgramFields DEF SetTopCount, Store, TypeInv, TypeOK
  <2> QED
    BY <1>7, <2>1, <2>2 DEF SetTopCount, TypeInv, TypeOK, ProgramsOK, world
<1>8. CASE CheckLimit(c)
  <2>1. lease.count \in Nat
    BY <1>1, LeaseFields
  <2>2. ProgramsOK'
    BY <1>1, <1>8, <2>1, LoadMoves DEF CheckLimit, PC
  <2> QED
    BY <1>8, <2>2 DEF CheckLimit, TypeInv, TypeOK, ProgramsOK, world
<1>14. CASE CheckSlice(c)
  <2>1. {lease.count, cpu[c].count, lease.budget} \subseteq Nat
    BY <1>1, LeaseFields, ProgramFields
  <2>2. ProgramsOK'
    BY <1>1, <1>14, <2>1, LoadMoves DEF CheckSlice, PC
  <2> QED
    BY <1>14, <2>2 DEF CheckSlice, TypeInv, TypeOK, ProgramsOK, world
<1>9. CASE ExtendBudget(c)
  <2>1. {lease.budget, cpu[c].budget, cpu[c].count, cpu[c].max} \subseteq Nat
    BY <1>1, LeaseFields, ProgramFields
  <2>2. PICK b \in {cpu[c].budget, lease.budget} :
           /\ Store(c, [lease EXCEPT !.budget = Extended(b, cpu[c].max)])
           /\ Load(c, "recheck", cpu[c].count, Extended(b, cpu[c].max))
    BY <1>9 DEF ExtendBudget
  <2>3. Extended(b, cpu[c].max) \in Nat
    BY <2>1, <2>2, EnforcerAssumption DEF Extended, Step
  <2>4. lease' \in Lease
    BY <1>1, <2>2, <2>3, LeaseFields DEF Store
  <2>5. ProgramsOK'
    BY <1>1, <1>9, <2>1, <2>2, <2>3, LoadMoves DEF ExtendBudget, PC
  <2> QED
    BY <1>9, <2>4, <2>5 DEF ExtendBudget, TypeInv, TypeOK, ProgramsOK, world
<1>10. CASE CheckBudget(c)
  <2>1. {lease.count, cpu[c].count} \subseteq Nat
    BY <1>1, LeaseFields, ProgramFields
  <2>2. ProgramsOK'
    BY <1>1, <1>10, <2>1, LoadMoves DEF CheckBudget, PC
  <2> QED
    BY <1>10, <2>2 DEF CheckBudget, TypeInv, TypeOK, ProgramsOK, world
<1>11. CASE Add(c)
  <2>1. ProgramsOK'
    BY <1>1, <1>11, ProgramFields, RunsMoves DEF Add, Return, PC
  <2>2. lease' \in Lease
    <3>1. (lease.count + 1) % Modulus \in Nat
      BY <1>1, LeaseFields, CounterTypes
    <3> QED
      BY <1>1, <1>11, <3>1, LeaseFields DEF Add, Store
  <2> QED
    BY <1>11, <2>1, <2>2 DEF Add, TypeInv, TypeOK, ProgramsOK, world
<1>15. CASE Install(c)
  <2>1. ProgramsOK' /\ cpu[c].cg \in Cgroup
    BY <1>1, <1>15, ProgramFields, QuietMoves DEF Install
  <2>2. open' \in [Cgroup -> Nat]
    BY <1>15, <2>1 DEF Install, TypeInv, TypeOK
  <2> QED
    BY <1>15, <2>1, <2>2 DEF Install, TypeInv, TypeOK, ProgramsOK
<1>16. CASE CloneFails(c)
  <2>1. ProgramsOK'
    BY <1>1, <1>16, QuietMoves DEF CloneFails
  <2>2. leaked' \in Nat
    BY <1>16 DEF CloneFails, TypeInv, TypeOK
  <2> QED
    BY <1>16, <2>1, <2>2 DEF CloneFails, TypeInv, TypeOK, ProgramsOK
<1>12. CASE Breach(c)
  <2>1. ProgramsOK'
    BY <1>1, <1>12, ProgramFields, RunsMoves DEF Breach, Return, PC
  <2>2. cpu[c].cg \in Cgroup /\ lease.topCg \in Cgroup \cup {Nil}
    BY <1>1, <1>12, ProgramFields, LeaseFields DEF Breach
  <2>3. PICK top \in Cgroup \cup {Nil} :
           /\ ring' = Emitted(cpu[c].cg, top)
           /\ dying' \in {dying, dying \cup {cpu[c].cg}}
    BY <1>12, <2>2 DEF Breach
  <2> DEFINE Event == [cg : Cgroup, top : Cgroup \cup {Nil}]
             e == [cg |-> cpu[c].cg, top |-> top]
  <2>4. e \in Event /\ ring \in Seq(Event) /\ Len(ring) <= RingSize
    BY <2>2, <2>3 DEF TypeInv, TypeOK
  <2>5. ring' = IF Len(ring) < RingSize THEN Append(ring, e) ELSE ring
    BY <2>3 DEF Emitted
  <2> HIDE DEF Event, e
  <2>6. ring' \in Seq(Event) /\ Len(ring') <= RingSize
    BY <2>4, <2>5, EnforcerAssumption
  <2> QED
    BY <1>12, <2>1, <2>2, <2>3, <2>6 DEF Breach, Event, TypeInv, TypeOK, ProgramsOK
<1> QED
  BY <1>2, <1>3, <1>4, <1>5, <1>6, <1>7, <1>8, <1>9, <1>10, <1>11, <1>12, <1>13,
     <1>14, <1>15, <1>16 DEF InstallStep

\* So do those that watch one go.
LEMMA CloseStepTypes ==
    ASSUME NEW c \in CPU
    PROVE  TypeInv /\ CloseStep(c) => TypeInv'
<1> SUFFICES ASSUME TypeInv, CloseStep(c) PROVE TypeInv'
  OBVIOUS
<1>1. ProgramsOK /\ lease \in Lease
  BY DEF TypeInv, TypeOK, ProgramsOK
<1>2. CASE RecordDec(c)
  <2>1. ProgramsOK'
    BY <1>1, <1>2, GotoMoves DEF RecordDec, Goto, PC
  <2> QED
    BY <1>2, <2>1 DEF RecordDec, TypeInv, TypeOK, ProgramsOK, world
<1>3. CASE RecordSub(c)
  <2>1. ProgramsOK'
    BY <1>1, <1>3, GotoMoves DEF RecordSub, Goto, PC
  <2>2. cgCount' \in [Cgroup -> Nat \cup {Nil}]
    BY <1>3, CounterTypes, EnforcerAssumption DEF RecordSub, TypeInv, TypeOK
  <2> QED
    BY <1>3, <2>1, <2>2 DEF RecordSub, TypeInv, TypeOK, ProgramsOK, world
<1>4. CASE CheckCounter(c)
  <2> DEFINE p == [cpu[c] EXCEPT !.pc = "sub", !.live = TRUE]
  <2>1. p \in Program /\ p.cg = cpu[c].cg /\ cpu[c].cg \in Cgroup
    BY <1>1, <1>4, ProgramFields DEF CheckCounter, Program, PC
  <2>2. cpu' = [cpu EXCEPT ![c] = p] \/ cpu' = [cpu EXCEPT ![c] = Quiet]
    BY <1>4 DEF CheckCounter
  <2> HIDE DEF p
  <2>3. ProgramsOK'
    BY <1>1, <2>1, <2>2, ProgramMoves, QuietMoves
  <2> QED
    BY <1>4, <2>3 DEF CheckCounter, TypeInv, TypeOK, ProgramsOK, world
<1>5. CASE Subtract(c)
  <2>1. ProgramsOK'
    BY <1>1, <1>5, QuietMoves DEF Subtract
  <2>2. lease' \in Lease
    <3>1. (lease.count - 1) % Modulus \in Nat
      BY <1>1, LeaseFields, CounterTypes
    <3> QED
      BY <1>1, <1>5, <3>1, LeaseFields DEF Subtract, Store
  <2> QED
    BY <1>5, <2>1, <2>2 DEF Subtract, TypeInv, TypeOK, ProgramsOK, world
<1> QED
  BY <1>2, <1>3, <1>4, <1>5 DEF CloseStep

\* Every step keeps the types.
LEMMA StepTypes == TypeInv /\ [Next]_vars => TypeInv'
<1>1. TypeInv /\ UNCHANGED vars => TypeInv'
  BY DEF vars, TypeInv, TypeOK, ProgramsHaveCgroups
<1> QED
  BY <1>1, AgentTypes, CgroupTypes, ProcessTypes, InstallStepTypes, CloseStepTypes DEF Next

(***************************************************************************)
(* The maps, counters, programs and objects keep their types, and the ring *)
(* buffer its size, for every number of CPUs and cgroups.                  *)
(***************************************************************************)
THEOREM EnforcerTypes == Spec => []TypeOK
<1>1. TypeInv => TypeOK
  BY DEF TypeInv
<1> QED
  BY <1>1, InitTypes, StepTypes, PTL DEF Spec

-----------------------------------------------------------------------------
\* A program that has passed the test.
Passing(p) == p.live /\ p.pc \in {"slice", "budget", "recheck", "add"}

\* The numbers that the bound is about.
LEMMA CountTypes ==
    ASSUME TypeInv
    PROVE  /\ lease.count \in Nat
           /\ \A c \in CPU : cpu[c].max \in Nat
           /\ ProgramsOK
BY DEF TypeInv, TypeOK, ProgramsOK, Lease, Program

\* No program newly passes and the counter does not grow.
LEMMA NoneNewlyPasses ==
    ASSUME TypeInv, TypeInv', OvershootInv,
           \A c \in CPU : cpu'[c].max <= MaxLimit,
           \A c \in CPU : Passing(cpu'[c]) => Passing(cpu[c]),
           exact' => exact /\ lease'.count <= lease.count
    PROVE  OvershootInv'
<1>1. Passed' \subseteq Passed
  BY DEF Passed, Passing
<1>2. Cardinality(Passed') <= Cardinality(Passed)
  BY <1>1, PassedCardinality, FS_Subset
<1>3. Cardinality(Passed) \in Nat /\ Cardinality(Passed') \in Nat
  BY <1>1, PassedCardinality, FS_Subset, FS_CardinalityType
<1>4. lease.count \in Nat /\ lease'.count \in Nat
  BY CountTypes DEF TypeInv, TypeOK, Lease
<1> QED
  BY <1>2, <1>3, <1>4, CPUCardinality DEF OvershootInv, Bound

\* One program moves on and does not newly pass.
LEMMA OneMoves ==
    ASSUME TypeInv, TypeInv', OvershootInv,
           NEW c \in CPU, NEW p, cpu' = [cpu EXCEPT ![c] = p],
           p.max <= MaxLimit, Passing(p) => Passing(cpu[c]),
           exact' => exact /\ lease'.count <= lease.count
    PROVE  OvershootInv'
<1>1. \A d \in CPU : cpu'[d] = IF d = c THEN p ELSE cpu[d]
  BY DEF TypeInv, TypeOK
<1>2. \A d \in CPU : cpu'[d].max <= MaxLimit
  BY <1>1 DEF OvershootInv
<1>3. \A d \in CPU : Passing(cpu'[d]) => Passing(cpu[d])
  BY <1>1
<1> QED
  BY <1>2, <1>3, NoneNewlyPasses

\* The case of a program that only goes on to its next instruction.
LEMMA GotoKeeps ==
    ASSUME TypeInv, TypeInv', OvershootInv,
           NEW c \in CPU, NEW pc, Goto(c, pc),
           cpu[c].live /\ pc \in {"slice", "budget", "recheck", "add"}
               => cpu[c].pc \in {"slice", "budget", "recheck", "add"},
           exact' => exact /\ lease'.count <= lease.count
    PROVE  OvershootInv'
<1>1. PICK p : /\ cpu' = [cpu EXCEPT ![c] = p]
               /\ p.max = cpu[c].max /\ p.live = cpu[c].live /\ p.pc = pc
  BY GotoFields
<1>2. p.max <= MaxLimit
  BY <1>1 DEF OvershootInv
<1>3. Passing(p) => Passing(cpu[c])
  BY <1>1 DEF Passing
<1> QED
  BY <1>1, <1>2, <1>3, OneMoves

\* The case of a program that goes on with what it has loaded.
LEMMA LoadKeeps ==
    ASSUME TypeInv, TypeInv', OvershootInv,
           NEW c \in CPU, NEW pc, NEW n, NEW b, Load(c, pc, n, b),
           cpu[c].live /\ pc \in {"slice", "budget", "recheck", "add"}
               => cpu[c].pc \in {"slice", "budget", "recheck", "add"},
           exact' => exact /\ lease'.count <= lease.count
    PROVE  OvershootInv'
<1> DEFINE p == [cpu[c] EXCEPT !.pc = pc, !.count = n, !.budget = b]
<1>1. cpu[c] \in Program /\ cpu' = [cpu EXCEPT ![c] = p]
  BY DEF Load, TypeInv, TypeOK
<1>2. p.max = cpu[c].max /\ p.live = cpu[c].live /\ p.pc = pc
  BY <1>1 DEF Program
<1> HIDE DEF p
<1>3. p.max <= MaxLimit
  BY <1>2 DEF OvershootInv
<1>4. Passing(p) => Passing(cpu[c])
  BY <1>2 DEF Passing
<1> QED
  BY <1>1, <1>3, <1>4, OneMoves

\* The case of a program that begins, or ends before its kernel function does.
LEMMA RunsKeeps ==
    ASSUME TypeInv, TypeInv', OvershootInv,
           NEW c \in CPU, NEW pc, NEW g, Runs(c, pc, g),
           exact' => exact /\ lease'.count <= lease.count
    PROVE  OvershootInv'
<1> DEFINE p == [Quiet EXCEPT !.pc = pc, !.cg = g]
<1>1. p.max <= MaxLimit /\ ~Passing(p)
  BY EnforcerAssumption DEF Quiet, Passing
<1>2. cpu' = [cpu EXCEPT ![c] = p]
  BY DEF Runs
<1> HIDE DEF p
<1> QED
  BY <1>1, <1>2, OneMoves

\* The case of a CPU that is through.
LEMMA QuietKeeps ==
    ASSUME TypeInv, TypeInv', OvershootInv,
           NEW c \in CPU, cpu' = [cpu EXCEPT ![c] = Quiet],
           exact' => exact /\ lease'.count <= lease.count
    PROVE  OvershootInv'
<1>1. Quiet.max <= MaxLimit /\ ~Passing(Quiet)
  BY EnforcerAssumption DEF Quiet, Passing
<1> QED
  BY <1>1, OneMoves

\* Once every program has lost its element, none passes.
LEMMA DetachClears ==
    ASSUME TypeInv, TypeInv', OvershootInv, Detach,
           exact' => lease'.count <= Bound
    PROVE  OvershootInv'
<1>1. \A c \in CPU : cpu'[c].max = cpu[c].max /\ cpu'[c].live = FALSE
  BY DEF Detach, TypeInv, TypeOK, Program
<1>2. Passed' = {}
  BY <1>1 DEF Passed
<1>3. Cardinality(Passed') = 0
  BY <1>2, FS_EmptySet
<1>4. lease'.count \in Nat
  BY DEF TypeInv, TypeOK, Lease
<1> QED
  BY <1>1, <1>3, <1>4, CPUCardinality DEF OvershootInv, Bound

\* The step that matters: a program that passes read a count below its limit,
\* so there is room for every CPU.
LEMMA CheckLimitKeeps ==
    ASSUME TypeInv, TypeInv', OvershootInv, NEW c \in CPU, CheckLimit(c)
    PROVE  OvershootInv'
<1>1. CASE cpu[c].live /\ lease.count < cpu[c].max
  <2>1. lease.count \in Nat /\ cpu[c].max \in Nat /\ cpu[c].max <= MaxLimit
    BY CountTypes DEF OvershootInv
  <2>2. /\ Cardinality(Passed') \in Nat
        /\ Cardinality(Passed') <= Cardinality(CPU)
    <3>1. Passed' \subseteq CPU
      BY DEF Passed
    <3> QED
      BY <3>1, EnforcerAssumption, FS_Subset, FS_CardinalityType
  <2>3. \A d \in CPU : cpu'[d].max = cpu[d].max
    BY DEF CheckLimit, Load, TypeInv, TypeOK, Program
  <2>4. lease' = lease /\ exact' = exact
    BY DEF CheckLimit
  <2> QED
    BY <1>1, <2>1, <2>2, <2>3, <2>4, CPUCardinality, EnforcerAssumption DEF OvershootInv, Bound
<1>2. CASE ~cpu[c].live
  BY <1>2, CountTypes, LoadKeeps DEF CheckLimit
<1>3. CASE cpu[c].live /\ ~(lease.count < cpu[c].max)
  <2>1. Load(c, "breach", lease.count, 0)
    <3>1. AtLimit(lease.count, cpu[c].max)
      BY <1>3, CountTypes DEF AtLimit
    <3>2. Outcomes(c, AtLimit(lease.count, cpu[c].max)) = {TRUE}
      BY <1>3, <3>1 DEF Outcomes
    <3> QED
      BY <3>2 DEF CheckLimit
  <2> QED
    BY <2>1, CountTypes, LoadKeeps DEF CheckLimit
<1> QED
  BY <1>1, <1>2, <1>3

\* An add uses the room its program was given.
LEMMA AddKeeps ==
    ASSUME TypeInv, TypeInv', OvershootInv, NEW c \in CPU, Add(c)
    PROVE  OvershootInv'
<1> DEFINE p == [Quiet EXCEPT !.pc = "charged", !.cg = cpu[c].cg]
<1>1. Runs(c, "charged", cpu[c].cg) /\ cpu' = [cpu EXCEPT ![c] = p] /\ exact' = exact
  BY DEF Add, Return, Runs
<1>2. CASE ~cpu[c].live
  <2>1. exact' => exact /\ lease'.count <= lease.count
    BY <1>1, <1>2, CountTypes DEF Add, Store
  <2> QED
    BY <1>1, <2>1, RunsKeeps
<1>3. CASE cpu[c].live
  <2>1. \A d \in CPU : cpu'[d] = IF d = c THEN p ELSE cpu[d]
    BY <1>1 DEF TypeInv, TypeOK
  <2>2. c \in Passed
    BY <1>3 DEF Add, Passed
  <2>3. Passed' = Passed \ {c}
    BY <2>1 DEF Passed, Quiet
  <2>4. Cardinality(Passed') = Cardinality(Passed) - 1 /\ Cardinality(Passed) \in Nat
    BY <2>2, <2>3, PassedCardinality, FS_RemoveElement
  <2>5. Cardinality(Passed) # 0
    BY <2>2, PassedCardinality, FS_EmptySet
  <2>6. \A d \in CPU : cpu'[d].max <= MaxLimit
    <3>1. p.max <= MaxLimit
      BY EnforcerAssumption DEF Quiet
    <3> HIDE DEF p
    <3> QED
      BY <2>1, <3>1 DEF OvershootInv
  <2>7. lease.count \in Nat
    BY CountTypes
  <2>8. exact => lease'.count = lease.count + 1
    <3>1. exact => lease.count < Modulus - 1
      BY <2>4, <2>5, <2>7, CPUCardinality, EnforcerAssumption DEF OvershootInv, Bound
    <3>2. lease'.count = (lease.count + 1) % Modulus
      BY <1>3 DEF Add, Store, TypeInv, TypeOK, Lease
    <3> QED
      BY <2>7, <3>1, <3>2, CounterSteps
  <2> QED
    BY <1>1, <2>4, <2>6, <2>7, <2>8, CPUCardinality DEF OvershootInv, Bound
<1> QED
  BY <1>2, <1>3

\* A subtraction leaves more room, unless it is lost.
LEMMA SubtractKeeps ==
    ASSUME TypeInv, TypeInv', OvershootInv, NEW c \in CPU, Subtract(c)
    PROVE  OvershootInv'
<1>1. cpu' = [cpu EXCEPT ![c] = Quiet] /\ (exact' => exact)
  BY DEF Subtract
<1>2. lease.count \in Nat
  BY CountTypes
<1>3. CASE ~cpu[c].live
  <2>1. exact' => exact /\ lease'.count <= lease.count
    BY <1>1, <1>2, <1>3 DEF Subtract, Store
  <2> QED
    BY <1>1, <2>1, QuietKeeps
<1>4. CASE cpu[c].live
  <2>1. exact' => exact /\ lease.count > 0
    BY <1>4 DEF Subtract
  <2>2. exact => lease.count <= Modulus
    BY <1>2, PassedCardinality, CPUCardinality, EnforcerAssumption DEF OvershootInv, Bound
  <2>3. lease'.count = (lease.count - 1) % Modulus
    BY <1>4 DEF Subtract, Store, TypeInv, TypeOK, Lease
  <2>4. exact' => lease'.count = lease.count - 1
    BY <1>2, <2>1, <2>2, <2>3, CounterSteps
  <2>5. exact' => exact /\ lease'.count <= lease.count
    BY <1>2, <2>1, <2>4
  <2> QED
    BY <1>1, <2>5, QuietKeeps
<1> QED
  BY <1>3, <1>4

\* The stores to the other fields leave the count alone.
LEMMA StoresKeepCount ==
    ASSUME TypeInv, NEW c \in CPU,
           SetTopCgroup(c) \/ SetTopCount(c) \/ ExtendBudget(c)
    PROVE  lease'.count = lease.count /\ lease.count \in Nat
BY DEF SetTopCgroup, SetTopCount, ExtendBudget, Store, TypeInv, TypeOK, Lease

\* The programs that watch an object come keep the bound.
LEMMA InstallStepKeeps ==
    ASSUME TypeInv, TypeInv', OvershootInv, NEW c \in CPU, InstallStep(c)
    PROVE  OvershootInv'
<1>1. lease.count \in Nat
  BY CountTypes
<1>2. CASE RecordInc(c) \/ RecordInsert(c)
  BY <1>1, <1>2, GotoKeeps DEF RecordInc, RecordInsert
<1>3. CASE Breach(c)
  BY <1>1, <1>3, RunsKeeps DEF Breach, Return
<1>4. CASE LookupLimit(c)
  <2>1. CASE Return(c, "return")
    BY <1>1, <1>4, <2>1, RunsKeeps DEF LookupLimit, Return
  <2>2. CASE ~Return(c, "return")
    <3> DEFINE p == [cpu[c] EXCEPT !.pc = "counter", !.max = limit]
    <3>1. limit \in Nat /\ limit <= MaxLimit /\ cpu' = [cpu EXCEPT ![c] = p]
      BY <1>4, <2>2, EnforcerAssumption DEF LookupLimit, TypeInv, TypeOK
    <3>2. p.max = limit /\ p.pc = "counter"
      BY CountTypes, ProgramFields DEF Program
    <3> HIDE DEF p
    <3>3. p.max <= MaxLimit /\ ~Passing(p)
      BY <3>1, <3>2 DEF Passing
    <3>4. exact' => exact /\ lease'.count <= lease.count
      BY <1>1, <1>4 DEF LookupLimit
    <3> QED
      BY <3>1, <3>3, <3>4, OneMoves
  <2> QED
    BY <2>1, <2>2
<1>7. CASE LookupCounter(c)
  <2>1. CASE Return(c, "return")
    BY <1>1, <1>7, <2>1, RunsKeeps DEF LookupCounter, Return
  <2>2. CASE ~Return(c, "return")
    <3> DEFINE p == [cpu[c] EXCEPT !.pc = "top", !.live = TRUE]
    <3>1. cpu' = [cpu EXCEPT ![c] = p]
      BY <1>7, <2>2 DEF LookupCounter
    <3>2. p.max = cpu[c].max /\ p.pc = "top"
      BY CountTypes, ProgramFields DEF Program
    <3> HIDE DEF p
    <3>3. p.max <= MaxLimit /\ ~Passing(p)
      BY <3>2 DEF Passing, OvershootInv
    <3>4. exact' => exact /\ lease'.count <= lease.count
      BY <1>1, <1>7 DEF LookupCounter
    <3> QED
      BY <3>1, <3>3, <3>4, OneMoves
  <2> QED
    BY <2>1, <2>2
<1>5. CASE CompareTop(c) \/ SetTopCgroup(c) \/ SetTopCount(c)
  BY <1>1, <1>5, StoresKeepCount, GotoKeeps DEF CompareTop, SetTopCgroup, SetTopCount
<1>6. CASE CheckSlice(c) \/ CheckBudget(c)
  BY <1>1, <1>6, LoadKeeps DEF CheckSlice, CheckBudget
<1>8. CASE ExtendBudget(c)
  <2>1. PICK b, n : Load(c, "recheck", n, b)
    BY <1>8 DEF ExtendBudget
  <2>2. cpu[c].pc = "budget" /\ exact' = exact
    BY <1>8 DEF ExtendBudget
  <2>3. lease'.count = lease.count
    BY <1>8, StoresKeepCount
  <2>4. exact' => exact /\ lease'.count <= lease.count
    BY <1>1, <2>2, <2>3
  <2> QED
    BY <2>1, <2>2, <2>4, LoadKeeps
<1>9. CASE Install(c) \/ CloneFails(c)
  BY <1>1, <1>9, QuietKeeps DEF Install, CloneFails
<1> QED
  BY <1>2, <1>3, <1>4, <1>5, <1>6, <1>7, <1>8, <1>9, CheckLimitKeeps, AddKeeps
  DEF InstallStep

\* So do those that watch one go.
LEMMA CloseStepKeeps ==
    ASSUME TypeInv, TypeInv', OvershootInv, NEW c \in CPU, CloseStep(c)
    PROVE  OvershootInv'
<1>1. lease.count \in Nat
  BY CountTypes
<1>2. CASE RecordDec(c) \/ RecordSub(c)
  BY <1>1, <1>2, GotoKeeps DEF RecordDec, RecordSub
<1>3. CASE CheckCounter(c)
  <2> DEFINE p == [cpu[c] EXCEPT !.pc = "sub", !.live = TRUE]
  <2>1. p.max = cpu[c].max /\ p.pc = "sub"
    BY CountTypes, ProgramFields DEF Program
  <2>2. cpu' = [cpu EXCEPT ![c] = p] \/ cpu' = [cpu EXCEPT ![c] = Quiet]
    BY <1>3 DEF CheckCounter
  <2> HIDE DEF p
  <2>3. p.max <= MaxLimit /\ ~Passing(p)
    BY <2>1 DEF Passing, OvershootInv
  <2>4. exact' => exact /\ lease'.count <= lease.count
    BY <1>1, <1>3 DEF CheckCounter
  <2> QED
    BY <2>2, <2>3, <2>4, OneMoves, QuietKeeps
<1> QED
  BY <1>2, <1>3, SubtractKeeps DEF CloseStep

\* A counter that is deleted, or written back as it is, keeps the bound: no
\* program passes any more.
LEMMA WorkerKeeps ==
    ASSUME TypeInv, TypeInv', OvershootInv, NEW w \in Worker, WorkerStep(w)
    PROVE  OvershootInv'
<1>1. lease.count \in Nat
  BY CountTypes
<1>2. CASE ResetUpdate(w)
  <2>1. exact' => exact /\ lease'.count = lease.count
    BY <1>2 DEF ResetUpdate
  <2>2. exact => lease.count <= Bound
    BY <1>1, PassedCardinality, CPUCardinality DEF OvershootInv
  <2> QED
    BY <1>2, <2>1, <2>2, DetachClears DEF ResetUpdate
<1>4. CASE UNCHANGED <<lease, cpu, exact>>
  BY <1>1, <1>4, NoneNewlyPasses DEF OvershootInv
<1>3. CASE RemoveCounter(w) /\ Detach
  <2>1. lease'.count = 0 \/ UNCHANGED <<lease, cpu, exact>>
    BY <1>3 DEF RemoveCounter, NoLease
  <2> QED
    BY <1>3, <2>1, <1>4, CPUCardinality, DetachClears DEF RemoveCounter
<1> QED
  BY <1>2, <1>3, <1>4
  DEF WorkerStep, SyncLimit, ResetLookup, ResetFails, FinishSync, RemoveLimit,
      RemoveCounter, RemoveCgroups

\* So does the agent; a restart begins with an empty counter.
LEMMA AgentKeeps ==
    ASSUME TypeInv, TypeInv', OvershootInv, AgentStep
    PROVE  OvershootInv'
<1>1. lease.count \in Nat
  BY CountTypes
<1>2. CASE HandleBreach
  BY <1>1, <1>2, NoneNewlyPasses DEF HandleBreach, OvershootInv
<1>3. CASE Restart
  <2>1. lease'.count = 0 /\ cpu' = cpu /\ exact' = exact
    BY <1>3 DEF Restart, NoLease
  <2> QED
    BY <1>1, <2>1, NoneNewlyPasses DEF OvershootInv
<1> QED
  BY <1>2, <1>3, WorkerKeeps DEF AgentStep

\* The maps by cgroup have no part in it.
LEMMA CgroupKeeps ==
    ASSUME TypeInv, TypeInv', OvershootInv, NEW g \in Cgroup, CgroupStep(g)
    PROVE  OvershootInv'
<1>1. UNCHANGED <<lease, cpu, exact>>
  BY DEF CgroupStep, MapCgroup, EvictCgroup, EvictCounter
<1> QED
  BY <1>1, CountTypes, NoneNewlyPasses DEF OvershootInv

\* The processes of the pods only start programs.
LEMMA ProcessKeeps ==
    ASSUME TypeInv, TypeInv', OvershootInv, NEW g \in Cgroup, ProcessStep(g)
    PROVE  OvershootInv'
<1>1. lease.count \in Nat
  BY CountTypes
<1>2. CASE UNCHANGED <<lease, cpu, exact>>
  BY <1>1, <1>2, NoneNewlyPasses DEF OvershootInv
<1>3. ASSUME NEW c \in CPU, Close(c, g) \/ Enter(c, g) PROVE OvershootInv'
  BY <1>1, <1>3, RunsKeeps DEF Close, Enter
<1> QED
  BY <1>2, <1>3 DEF ProcessStep, Inherit, CloseShared, Respawn

\* Every step keeps the bound.
LEMMA StepKeeps == TypeInv /\ TypeInv' /\ OvershootInv /\ [Next]_vars => OvershootInv'
<1>1. TypeInv /\ TypeInv' /\ OvershootInv /\ UNCHANGED vars => OvershootInv'
  BY CountTypes, NoneNewlyPasses DEF vars, OvershootInv
<1> QED
  BY <1>1, AgentKeeps, CgroupKeeps, ProcessKeeps, InstallStepKeeps, CloseStepKeeps DEF Next

(***************************************************************************)
(* The counter of a namespace exceeds its largest limit by less than the   *)
(* number of CPUs, however over_limit's test and add interleave, as long as*)
(* no update of the counter is lost: OvershootInv says why.                *)
(***************************************************************************)
THEOREM EnforcerOvershoot == Spec => []OvershootBound
<1>1. Init => OvershootInv
  <2> SUFFICES ASSUME Init PROVE OvershootInv
    OBVIOUS
  <2>1. Passed = {} /\ lease.count = 0 /\ \A c \in CPU : cpu[c].max = 0
    BY DEF Init, Passed, Quiet, NoLease
  <2> QED
    BY <2>1, FS_EmptySet, CPUCardinality, EnforcerAssumption DEF OvershootInv
<1>2. TypeInv /\ OvershootInv => OvershootBound
  BY CountTypes, PassedCardinality, CPUCardinality DEF OvershootInv, OvershootBound, Bound
<1> QED
  BY <1>1, <1>2, InitTypes, StepTypes, StepKeeps, PTL DEF Spec

=============================================================================
