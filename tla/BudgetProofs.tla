---------------------------- MODULE BudgetProofs ----------------------------
(***************************************************************************)
(* When the programs of Enforcer decide that a quota is breached, for any  *)
(* number of CPUs and cgroups: under one limit that a single extension of  *)
(* its first budget reaches, only at the limit.                            *)
(***************************************************************************)
EXTENDS EnforcerProofs

\* The namespace has the limit max, and an extension makes its first budget whole.
OneLimit(max) == Limits = {max} /\ Extended(Microslice(max), max) = max

\* A limit that is not above SmallLimit has itself as the first budget.
LEMMA SmallIsOne ==
    ASSUME NEW max \in Nat, Limits = {max}, max <= SmallLimit
    PROVE  OneLimit(max)
<1>1. Microslice(max) = max /\ Step(max) \in Nat
  BY EnforcerAssumption DEF Microslice, Step
<1> QED
  BY <1>1 DEF Extended, OneLimit

\* No extension takes a budget from the limit.
LEMMA LimitStays ==
    ASSUME NEW max \in Nat
    PROVE  Extended(max, max) = max
<1>1. Step(max) \in Nat
  BY EnforcerAssumption DEF Step
<1> QED
  BY <1>1 DEF Extended

-----------------------------------------------------------------------------
\* The inductive invariant.

\* The points of a program that has looked its limit up.
Watching == {"counter", "top", "settop", "topcount", "check", "slice", "budget",
             "recheck", "add", "breach"}

\* The budgets that a counter can have.
Budgets(max) == {Microslice(max), max}

\* Program p holds the counter l.  It has loaded a budget that a counter can have;
\* before it tests the extended one, both its own and the counter's are the limit;
\* and it decides on a breach with a count at the limit.
Held(p, l, max) ==
    /\ p.pc \in Watching => p.max = max
    /\ p.live => l.present /\ p.pc \notin {"idle", "charged", "return"}
    /\ p.live /\ p.pc = "budget" => p.budget \in Budgets(max)
    /\ p.live /\ p.pc = "recheck" => p.budget = max /\ l.budget = max
    /\ p.live /\ p.pc = "breach" => p.count >= max

\* A worker writes the limit and a first budget.
WorkerHolds(a, max) ==
    /\ a.pc = "reset" => a.max = max
    /\ a.pc = "write" => a.copy.present /\ a.copy.budget \in Budgets(max)

BudgetInv(max) ==
    /\ \A c \in CPU : Held(cpu[c], lease, max)
    /\ lease.present => lease.budget \in Budgets(max)
    /\ \A w \in Worker : WorkerHolds(agent[w], max)

-----------------------------------------------------------------------------
\* The programs.

\* One program goes on, and the counter keeps what the others hold.
LEMMA ProgramBudgets ==
    ASSUME TypeInv, NEW max, BudgetInv(max), NEW c \in CPU, NEW p,
           cpu' = [cpu EXCEPT ![c] = p], Held(p, lease', max),
           UNCHANGED agent, lease'.present = lease.present,
           lease'.budget = lease.budget \/ lease'.budget = max
    PROVE  BudgetInv(max)'
<1>1. \A d \in CPU : cpu'[d] = IF d = c THEN p ELSE cpu[d]
  BY DEF TypeInv, TypeOK
<1>2. ASSUME NEW d \in CPU PROVE Held(cpu[d], lease, max)'
  <2>1. CASE d = c
    BY <1>1, <2>1 DEF Held, Budgets, Microslice
  <2>2. CASE d # c
    BY <1>1, <2>2 DEF BudgetInv, Held, Budgets, Microslice
  <2> QED
    BY <2>1, <2>2
<1>3. \A w \in Worker : WorkerHolds(agent[w], max)'
  BY DEF BudgetInv, WorkerHolds, Budgets, Microslice
<1>4. lease'.present => lease'.budget \in Budgets(max)
  BY DEF BudgetInv, Budgets
<1> QED
  BY <1>2, <1>3, <1>4 DEF BudgetInv, Budgets, Microslice

\* The case of a program that goes on to its next instruction.
LEMMA GotoBudgets ==
    ASSUME TypeInv, NEW max, BudgetInv(max), NEW c \in CPU, NEW pc, Goto(c, pc),
           cpu[c].pc # "idle", pc \in Watching \cup {"insert", "lookup", "cgsub", "nscheck"},
           pc \notin {"budget", "recheck", "breach"},
           pc \in Watching => cpu[c].pc \in Watching,
           UNCHANGED agent, lease'.present = lease.present,
           lease'.budget = lease.budget
    PROVE  BudgetInv(max)'
<1>1. PICK p : /\ cpu' = [cpu EXCEPT ![c] = p]
               /\ p.pc = pc /\ p.live = cpu[c].live /\ p.max = cpu[c].max
  BY GotoFields
<1>2. Held(cpu[c], lease, max)
  BY DEF BudgetInv
<1>3. Held(p, lease', max)
  BY <1>1, <1>2 DEF Held, Watching
<1> QED
  BY <1>1, <1>3, ProgramBudgets

\* The case of one that goes on with what it has loaded.
LEMMA LoadBudgets ==
    ASSUME TypeInv, NEW max, BudgetInv(max), NEW c \in CPU, NEW pc, NEW n, NEW b,
           Load(c, pc, n, b), cpu[c].pc \in Watching, pc \in Watching,
           cpu[c].live /\ pc = "budget" => b \in Budgets(max),
           cpu[c].live /\ pc = "recheck" => b = max /\ lease'.budget = max,
           cpu[c].live /\ pc = "breach" => n >= max,
           UNCHANGED agent, lease'.present = lease.present,
           lease'.budget = lease.budget \/ lease'.budget = max
    PROVE  BudgetInv(max)'
<1> DEFINE p == [cpu[c] EXCEPT !.pc = pc, !.count = n, !.budget = b]
<1>1. cpu[c] \in Program /\ cpu' = [cpu EXCEPT ![c] = p]
  BY DEF Load, TypeInv, TypeOK
<1>2. /\ p.pc = pc /\ p.max = cpu[c].max /\ p.live = cpu[c].live
      /\ p.count = n /\ p.budget = b
  BY <1>1 DEF Program
<1> HIDE DEF p
<1>3. Held(cpu[c], lease, max) /\ pc \notin {"idle", "charged", "return"}
  BY DEF BudgetInv, Watching
<1>4. Held(p, lease', max)
  BY <1>2, <1>3 DEF Held
<1> QED
  BY <1>1, <1>4, ProgramBudgets

\* The case of one that begins, or ends before its kernel function does.
LEMMA RunsBudgets ==
    ASSUME TypeInv, NEW max, BudgetInv(max), NEW c \in CPU,
           NEW pc \in {"record", "return", "charged", "close"}, NEW g, Runs(c, pc, g),
           UNCHANGED agent, lease'.present = lease.present, lease'.budget = lease.budget
    PROVE  BudgetInv(max)'
<1> DEFINE p == [Quiet EXCEPT !.pc = pc, !.cg = g]
<1>1. p.pc = pc /\ ~p.live /\ cpu' = [cpu EXCEPT ![c] = p]
  BY DEF Runs, Quiet
<1> HIDE DEF p
<1>2. Held(p, lease', max)
  BY <1>1 DEF Held, Watching
<1> QED
  BY <1>1, <1>2, ProgramBudgets

\* The case of a CPU that is through.
LEMMA QuietBudgets ==
    ASSUME TypeInv, NEW max, BudgetInv(max), NEW c \in CPU,
           cpu' = [cpu EXCEPT ![c] = Quiet],
           UNCHANGED agent, lease'.present = lease.present, lease'.budget = lease.budget
    PROVE  BudgetInv(max)'
<1>1. Held(Quiet, lease', max)
  BY DEF Held, Quiet, Watching
<1> QED
  BY <1>1, ProgramBudgets

\* The stores of the programs but one keep the budget.
LEMMA StoresKeepBudget ==
    ASSUME TypeInv, NEW c \in CPU,
           SetTopCgroup(c) \/ SetTopCount(c) \/ Add(c) \/ Subtract(c)
    PROVE  lease'.budget = lease.budget /\ lease'.present = lease.present
BY DEF SetTopCgroup, SetTopCount, Add, Subtract, Store, TypeInv, TypeOK, Lease

\* The first test finds a count at the limit, or goes on.
LEMMA CheckLimitBudgets ==
    ASSUME TypeInv, NEW max, BudgetInv(max), NEW c \in CPU, CheckLimit(c)
    PROVE  BudgetInv(max)'
<1>1. cpu[c].pc = "check" /\ UNCHANGED <<lease, agent>>
  BY DEF CheckLimit
<1>2. cpu[c].max = max /\ lease.count \in Nat /\ cpu[c].max \in Nat
  BY <1>1, CountTypes DEF BudgetInv, Held, Watching
<1>3. PICK full \in Outcomes(c, AtLimit(lease.count, cpu[c].max)) :
         Load(c, IF full THEN "breach" ELSE "slice", lease.count, 0)
  BY DEF CheckLimit
<1>4. CASE full
  <2>1. cpu[c].live => lease.count >= max
    BY <1>2, <1>3, <1>4 DEF Outcomes, AtLimit
  <2>2. Load(c, "breach", lease.count, 0)
    BY <1>3, <1>4
  <2> QED
    BY <1>1, <2>1, <2>2, LoadBudgets DEF Watching
<1>5. CASE ~full
  <2>1. Load(c, "slice", lease.count, 0)
    BY <1>3, <1>5
  <2> QED
    BY <1>1, <2>1, LoadBudgets DEF Watching
<1> QED
  BY <1>4, <1>5

\* The second loads the counter's budget.
LEMMA CheckSliceBudgets ==
    ASSUME TypeInv, NEW max, BudgetInv(max), NEW c \in CPU, CheckSlice(c)
    PROVE  BudgetInv(max)'
<1>1. cpu[c].pc = "slice" /\ UNCHANGED <<lease, agent>>
  BY DEF CheckSlice
<1>2. cpu[c].live => lease.budget \in Budgets(max)
  BY DEF BudgetInv, Held
<1>3. PICK n : Load(c, "budget", n, lease.budget) \/ Load(c, "add", 0, 0)
  BY DEF CheckSlice
<1> QED
  BY <1>1, <1>2, <1>3, LoadBudgets DEF Watching

\* The extension makes it the limit, whichever budget it starts from.
LEMMA ExtendBudgets ==
    ASSUME TypeInv, NEW max \in Nat, OneLimit(max), BudgetInv(max),
           NEW c \in CPU, ExtendBudget(c)
    PROVE  BudgetInv(max)'
<1>1. cpu[c].pc = "budget" /\ UNCHANGED agent
  BY DEF ExtendBudget
<1>2. PICK b \in {cpu[c].budget, lease.budget} :
         /\ Store(c, [lease EXCEPT !.budget = Extended(b, cpu[c].max)])
         /\ Load(c, "recheck", cpu[c].count, Extended(b, cpu[c].max))
  BY DEF ExtendBudget
<1>3. ASSUME cpu[c].live PROVE Extended(b, cpu[c].max) = max
  <2>1. cpu[c].max = max /\ b \in Budgets(max)
    BY <1>1, <1>2, <1>3 DEF BudgetInv, Held, Watching
  <2> QED
    BY <2>1, LimitStays DEF OneLimit, Budgets
<1>4. /\ lease'.present = lease.present
      /\ IF cpu[c].live THEN lease'.budget = max ELSE lease'.budget = lease.budget
  BY <1>2, <1>3 DEF Store, TypeInv, TypeOK, Lease
<1> QED
  BY <1>1, <1>2, <1>3, <1>4, LoadBudgets DEF Watching

\* So the third finds a count at the limit, or the program adds.
LEMMA CheckBudgetBudgets ==
    ASSUME TypeInv, NEW max, BudgetInv(max), NEW c \in CPU, CheckBudget(c)
    PROVE  BudgetInv(max)'
<1>1. cpu[c].pc = "recheck" /\ UNCHANGED <<lease, agent>>
  BY DEF CheckBudget
<1>2. cpu[c].live => cpu[c].budget = max /\ lease.budget = max
  BY <1>1 DEF BudgetInv, Held
<1>3. PICK n \in {cpu[c].count, lease.count}, b \in {cpu[c].budget, lease.budget} :
         \E spent \in Outcomes(c, n >= b) :
            \/ spent /\ Load(c, "breach", n, 0)
            \/ ~spent /\ Load(c, "add", 0, 0)
  BY DEF CheckBudget
<1>4. PICK spent \in Outcomes(c, n >= b) :
         \/ spent /\ Load(c, "breach", n, 0)
         \/ ~spent /\ Load(c, "add", 0, 0)
  BY <1>3
<1>5. cpu[c].live /\ spent => n >= max
  BY <1>2, <1>4 DEF Outcomes
<1> QED
  BY <1>1, <1>4, <1>5, LoadBudgets DEF Watching

\* The programs that watch an object come.
LEMMA InstallStepBudgets ==
    ASSUME TypeInv, NEW max \in Nat, OneLimit(max), BudgetInv(max),
           NEW c \in CPU, InstallStep(c)
    PROVE  BudgetInv(max)'
<1>1. CASE RecordInc(c) \/ RecordInsert(c)
  <2>1. /\ cpu[c].pc # "idle" /\ \E pc \in {"insert", "lookup"} : Goto(c, pc)
        /\ UNCHANGED <<agent, lease>>
    BY <1>1 DEF RecordInc, RecordInsert
  <2> QED
    BY <2>1, GotoBudgets DEF Watching
<1>2. CASE LookupLimit(c)
  <2>1. UNCHANGED <<agent, lease>>
    BY <1>2 DEF LookupLimit
  <2>2. CASE Return(c, "return")
    BY <2>1, <2>2, RunsBudgets DEF Return
  <2>3. CASE ~Return(c, "return")
    <3> DEFINE p == [cpu[c] EXCEPT !.pc = "counter", !.max = limit]
    <3>1. limit = max /\ cpu' = [cpu EXCEPT ![c] = p] /\ cpu[c].pc = "lookup"
      BY <1>2, <2>3 DEF LookupLimit, OneLimit, TypeInv, TypeOK
    <3>2. p.pc = "counter" /\ p.max = limit /\ p.live = cpu[c].live
      BY CountTypes, ProgramFields DEF Program
    <3> HIDE DEF p
    <3>3. Held(p, lease', max)
      BY <2>1, <3>1, <3>2 DEF BudgetInv, Held
    <3> QED
      BY <2>1, <3>1, <3>3, ProgramBudgets
  <2> QED
    BY <2>2, <2>3
<1>3. CASE LookupCounter(c)
  <2>1. UNCHANGED <<agent, lease>>
    BY <1>3 DEF LookupCounter
  <2>2. CASE Return(c, "return")
    BY <2>1, <2>2, RunsBudgets DEF Return
  <2>3. CASE ~Return(c, "return")
    <3> DEFINE p == [cpu[c] EXCEPT !.pc = "top", !.live = TRUE]
    <3>1. lease.present /\ cpu' = [cpu EXCEPT ![c] = p] /\ cpu[c].pc = "counter"
      BY <1>3, <2>3 DEF LookupCounter
    <3>2. p.pc = "top" /\ p.max = cpu[c].max
      BY CountTypes, ProgramFields DEF Program
    <3> HIDE DEF p
    <3>3. Held(p, lease', max)
      BY <2>1, <3>1, <3>2 DEF BudgetInv, Held, Watching
    <3> QED
      BY <2>1, <3>1, <3>3, ProgramBudgets
  <2> QED
    BY <2>2, <2>3
<1>4. CASE CompareTop(c) \/ SetTopCgroup(c) \/ SetTopCount(c)
  <2>1. /\ cpu[c].pc \in Watching /\ UNCHANGED agent
        /\ \E pc \in {"settop", "topcount", "check"} : Goto(c, pc)
    BY <1>4 DEF CompareTop, SetTopCgroup, SetTopCount, Watching
  <2>2. lease'.budget = lease.budget /\ lease'.present = lease.present
    BY <1>4, StoresKeepBudget DEF CompareTop
  <2> QED
    BY <2>1, <2>2, GotoBudgets DEF Watching
<1>5. CASE Add(c) \/ Breach(c)
  <2>1. UNCHANGED agent /\ \E pc \in {"charged", "return"} : Runs(c, pc, cpu[c].cg)
    BY <1>5 DEF Add, Breach, Return
  <2>2. lease'.budget = lease.budget /\ lease'.present = lease.present
    BY <1>5, StoresKeepBudget DEF Breach
  <2> QED
    BY <2>1, <2>2, RunsBudgets
<1>6. CASE Install(c) \/ CloneFails(c)
  BY <1>6, QuietBudgets DEF Install, CloneFails
<1> QED
  BY <1>1, <1>2, <1>3, <1>4, <1>5, <1>6, CheckLimitBudgets, CheckSliceBudgets,
     ExtendBudgets, CheckBudgetBudgets
  DEF InstallStep

\* Those that watch one go.
LEMMA CloseStepBudgets ==
    ASSUME TypeInv, NEW max, BudgetInv(max), NEW c \in CPU, CloseStep(c)
    PROVE  BudgetInv(max)'
<1>1. CASE RecordDec(c) \/ RecordSub(c)
  <2>1. /\ cpu[c].pc # "idle" /\ \E pc \in {"cgsub", "nscheck"} : Goto(c, pc)
        /\ UNCHANGED <<agent, lease>>
    BY <1>1 DEF RecordDec, RecordSub
  <2> QED
    BY <2>1, GotoBudgets DEF Watching
<1>2. CASE CheckCounter(c)
  <2>1. UNCHANGED <<agent, lease>>
    BY <1>2 DEF CheckCounter
  <2>2. CASE Counted(cpu[c].cg)
    <3> DEFINE p == [cpu[c] EXCEPT !.pc = "sub", !.live = TRUE]
    <3>1. p.pc = "sub"
      BY CountTypes, ProgramFields DEF Program
    <3>2. cpu' = [cpu EXCEPT ![c] = p] /\ lease.present
      BY <1>2, <2>2 DEF CheckCounter, Counted
    <3> HIDE DEF p
    <3>3. Held(p, lease', max)
      BY <2>1, <3>1, <3>2 DEF Held, Watching
    <3> QED
      BY <2>1, <3>2, <3>3, ProgramBudgets
  <2>3. CASE ~Counted(cpu[c].cg)
    <3>1. cpu' = [cpu EXCEPT ![c] = Quiet]
      BY <1>2, <2>3 DEF CheckCounter
    <3> QED
      BY <2>1, <3>1, QuietBudgets
  <2> QED
    BY <2>2, <2>3
<1>3. CASE Subtract(c)
  BY <1>3, StoresKeepBudget, QuietBudgets DEF Subtract
<1> QED
  BY <1>1, <1>2, <1>3 DEF CloseStep

\* The processes of the pods start programs.
LEMMA ProcessBudgets ==
    ASSUME TypeInv, NEW max, BudgetInv(max), NEW g \in Cgroup, ProcessStep(g)
    PROVE  BudgetInv(max)'
<1>1. CASE UNCHANGED <<lease, cpu, agent>>
  BY <1>1 DEF BudgetInv, Held, WorkerHolds, Budgets, Microslice
<1>2. ASSUME NEW c \in CPU, Close(c, g) \/ Enter(c, g) PROVE BudgetInv(max)'
  BY <1>2, RunsBudgets DEF Close, Enter
<1> QED
  BY <1>1, <1>2 DEF ProcessStep, Inherit, CloseShared, Respawn

-----------------------------------------------------------------------------
\* The agent.

\* A worker goes on, and the programs and the counter stay.
LEMMA WorkerOnlyBudgets ==
    ASSUME TypeInv, NEW max, BudgetInv(max), NEW w \in Worker, NEW a,
           agent' = [agent EXCEPT ![w] = a],
           WorkerHolds(a, max), UNCHANGED <<lease, cpu>>
    PROVE  BudgetInv(max)'
<1>1. \A v \in Worker : agent'[v] = IF v = w THEN a ELSE agent[v]
  BY DEF TypeInv, TypeOK
<1>2. \A v \in Worker : WorkerHolds(agent[v], max)'
  BY <1>1 DEF BudgetInv, WorkerHolds, Budgets, Microslice
<1> QED
  BY <1>2 DEF BudgetInv, Held, Budgets, Microslice

\* The counter is replaced by one with a first budget, or deleted: no program
\* holds it any more.
LEMMA ReplaceBudgets ==
    ASSUME TypeInv, NEW max, BudgetInv(max), NEW w \in Worker,
           ResetUpdate(w) \/ RemoveCounter(w)
    PROVE  BudgetInv(max)'
<1>1. PICK a : agent' = [agent EXCEPT ![w] = a] /\ WorkerHolds(a, max)
  <2>1. \A pc \in {"map", "unmap"} : WorkerHolds([Resting EXCEPT !.pc = pc], max)
    BY DEF Resting, WorkerHolds
  <2>2. \E pc \in {"map", "unmap"} : agent' = [agent EXCEPT ![w] = [Resting EXCEPT !.pc = pc]]
    BY DEF ResetUpdate, RemoveCounter
  <2> QED
    BY <2>1, <2>2
<1>2. CASE UNCHANGED <<lease, cpu>>
  BY <1>1, <1>2, WorkerOnlyBudgets
<1>3. CASE /\ Detach
           /\ \/ lease' = NoLease
              \/ lease' = agent[w].copy /\ agent[w].pc = "write"
  <2>1. \A v \in Worker : WorkerHolds(agent[v], max)'
    BY <1>1 DEF BudgetInv, WorkerHolds, Budgets, Microslice, TypeInv, TypeOK
  <2>2. \A c \in CPU : /\ cpu'[c].pc = cpu[c].pc /\ cpu'[c].max = cpu[c].max
                       /\ cpu'[c].live = FALSE
    BY <1>3 DEF Detach, TypeInv, TypeOK, Program
  <2>3. \A c \in CPU : Held(cpu[c], lease, max)'
    BY <2>2 DEF BudgetInv, Held
  <2>4. lease'.present => lease'.budget \in Budgets(max)
    BY <1>3 DEF NoLease, BudgetInv, WorkerHolds
  <2> QED
    BY <2>1, <2>3, <2>4 DEF BudgetInv, Budgets, Microslice
<1> QED
  BY <1>2, <1>3 DEF ResetUpdate, RemoveCounter

\* The syncs and removals of the agent.
LEMMA WorkerBudgets ==
    ASSUME TypeInv, NEW max, OneLimit(max), BudgetInv(max), NEW w \in Worker, WorkerStep(w)
    PROVE  BudgetInv(max)'
<1>1. ASSUME NEW l \in Limits, SyncLimit(w, l) PROVE BudgetInv(max)'
  <2> DEFINE a == [Resting EXCEPT !.pc = "reset", !.max = l]
  <2>1. a.pc = "reset" /\ a.max = max
    BY DEF Resting, OneLimit
  <2>2. agent' = [agent EXCEPT ![w] = a] /\ UNCHANGED <<lease, cpu>>
    BY <1>1 DEF SyncLimit
  <2> HIDE DEF a
  <2>3. WorkerHolds(a, max)
    BY <2>1 DEF WorkerHolds
  <2> QED
    BY <2>2, <2>3, WorkerOnlyBudgets
<1>2. CASE ResetLookup(w)
  <2> DEFINE l == Reset(lease, agent[w].max)
             a == [Resting EXCEPT !.pc = "write", !.copy = l]
  <2>1. agent[w].max = max
    BY <1>2 DEF ResetLookup, BudgetInv, WorkerHolds
  <2>2. l.present /\ l.budget \in Budgets(max)
    BY <2>1 DEF Reset, Budgets, TypeInv, TypeOK, Lease
  <2>3. agent' = [agent EXCEPT ![w] = a] /\ UNCHANGED <<lease, cpu>>
    BY <1>2 DEF ResetLookup
  <2> HIDE DEF l
  <2>4. a.pc = "write" /\ a.copy = l
    BY DEF Resting
  <2> HIDE DEF a
  <2>5. WorkerHolds(a, max)
    BY <2>2, <2>4 DEF WorkerHolds
  <2> QED
    BY <2>3, <2>5, WorkerOnlyBudgets
<1>3. CASE ResetFails(w) \/ FinishSync(w) \/ RemoveCgroups(w) \/ RemoveLimit(w)
  <2>1. /\ UNCHANGED <<lease, cpu>>
        /\ agent' \in {[agent EXCEPT ![w] = Resting],
                       [agent EXCEPT ![w] = [Resting EXCEPT !.pc = "delcounter"]]}
    BY <1>3 DEF ResetFails, FinishSync, RemoveCgroups, RemoveLimit
  <2>2. /\ WorkerHolds(Resting, max)
        /\ WorkerHolds([Resting EXCEPT !.pc = "delcounter"], max)
    BY DEF WorkerHolds, Resting
  <2> QED
    BY <2>1, <2>2, WorkerOnlyBudgets
<1> QED
  BY <1>1, <1>2, <1>3, ReplaceBudgets DEF WorkerStep

\* A restart leaves no counter, and finds no program that holds one.
LEMMA RestartBudgets ==
    ASSUME NEW max, BudgetInv(max), Restart
    PROVE  BudgetInv(max)'
<1>1. /\ lease' = NoLease
      /\ \A c \in CPU : cpu[c].pc \in {"idle", "charged", "return"}
      /\ \A w \in Worker : agent'[w] = Resting
      /\ UNCHANGED cpu
  BY DEF Restart
<1>2. ~lease'.present /\ Resting.pc = "idle"
  BY <1>1 DEF NoLease, Resting
<1>3. \A c \in CPU : Held(cpu[c], lease, max)'
  BY <1>1 DEF BudgetInv, Held, Watching
<1>4. \A w \in Worker : WorkerHolds(agent[w], max)'
  BY <1>1, <1>2 DEF WorkerHolds
<1> QED
  BY <1>2, <1>3, <1>4 DEF BudgetInv

\* Every step preserves the invariant.
LEMMA StepBudgets ==
    ASSUME TypeInv, NEW max \in Nat, OneLimit(max), BudgetInv(max), [Next]_vars
    PROVE  BudgetInv(max)'
<1>1. CASE UNCHANGED <<lease, cpu, agent>>
  BY <1>1 DEF BudgetInv, Held, WorkerHolds, Budgets, Microslice
<1>2. CASE AgentStep
  BY <1>1, <1>2, WorkerBudgets, RestartBudgets DEF AgentStep, HandleBreach
<1>3. ASSUME NEW g \in Cgroup, CgroupStep(g) PROVE BudgetInv(max)'
  BY <1>1, <1>3 DEF CgroupStep, MapCgroup, EvictCgroup, EvictCounter
<1>4. CASE UNCHANGED vars
  BY <1>1, <1>4 DEF vars
<1> QED
  BY <1>2, <1>3, <1>4, ProcessBudgets, InstallStepBudgets, CloseStepBudgets DEF Next

(***************************************************************************)
(* In a namespace with one limit that an extension of its first budget     *)
(* reaches (SmallIsOne: any limit up to 100 in the code), over_limit       *)
(* decides on a breach only with a count at the limit, on any number of    *)
(* CPUs and whichever reads the compiler drops, while syncs replace the    *)
(* counter, the namespace is removed and set again and the agent restarts. *)
(* With two limits a program that knows the old one can take the budget    *)
(* back to it under a program that knows the new one; a limit above 100 is *)
(* enforced by its budgets.                                                *)
(***************************************************************************)
THEOREM EnforcerBreaches ==
    ASSUME NEW max \in Nat, OneLimit(max)
    PROVE  Spec => []BreachOnlyAtLimit
<1>1. Init => BudgetInv(max)
  BY DEF Init, BudgetInv, Held, WorkerHolds, Watching, Quiet, NoLease, Resting
<1>2. TypeInv /\ BudgetInv(max) /\ [Next]_vars => BudgetInv(max)'
  BY StepBudgets
<1>3. BudgetInv(max) => BreachOnlyAtLimit
  BY DEF BudgetInv, Held, Watching, BreachOnlyAtLimit
<1> QED
  BY <1>1, <1>2, <1>3, InitTypes, StepTypes, PTL DEF Spec
=============================================================================
