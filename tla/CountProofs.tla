---------------------------- MODULE CountProofs ----------------------------
(***************************************************************************)
(* What the counter of Enforcer charges for, for any number of CPUs and    *)
(* cgroups: in a namespace that keeps its limit and its cgroups, nothing   *)
(* that is gone but what no program was there to take off.                 *)
(***************************************************************************)
EXTENDS EnforcerProofs

-----------------------------------------------------------------------------
\* The inductive invariant.

\* The points of the programs that watch an object come and go, and those at which
\* a CPU has an object that is charged and not there.
Installing == {"record", "insert", "lookup", "counter", "top", "settop", "topcount",
               "check", "slice", "budget", "recheck", "add", "breach"}
Leaving == {"close", "cgsub", "nscheck", "sub"}
Holding == Leaving \cup {"charged"}

\* A program that counts an object found its cgroup in the map, which keeps it,
\* and holds a counter that is in the map; one that is about to subtract holds it
\* unless an update was lost.
ProgramSteady(p) ==
    /\ p.pc \in Installing => p.cg \in mapped
    /\ p.live => lease.present /\ p.pc \notin {"idle", "charged", "return"}
    /\ p.pc = "sub" => p.live \/ ~exact

\* No worker removes the namespace, and what is written back is a counter.
WorkerSteady(a) ==
    /\ a.pc \notin {"delcounter", "unmap"}
    /\ a.pc = "write" => a.copy.present

Steady ==
    /\ \A c \in CPU : ProgramSteady(cpu[c])
    /\ ~lease.present => lease.count = 0
    /\ \A w \in Worker : WorkerSteady(agent[w])

\* The objects of the cgroups gs.
ObjectsOf(f, gs) == UNION {{g} \X (1..f[g]) : g \in gs}

\* The CPUs whose charged object of the cgroups gs is not there: not yet, or no
\* longer.
PendingOf(p, gs) == {c \in CPU : p[c].pc \in Holding /\ p[c].cg \in gs}

\* Only the objects of mapped cgroups are charged, those that are open, those that
\* come or go, and those that leaked.
Covered == Cardinality(ObjectsOf(open, mapped)) + Cardinality(PendingOf(cpu, mapped)) + leaked

Charged == exact => lease.count <= Covered

CountInv == Steady /\ Charged

-----------------------------------------------------------------------------
\* Counting objects and programs.

\* A cgroup's objects are finitely many, and so are those of several.
LEMMA ObjectsFinite ==
    ASSUME NEW f \in [Cgroup -> Nat], NEW gs \in SUBSET Cgroup
    PROVE  /\ IsFiniteSet(ObjectsOf(f, gs))
           /\ Cardinality(ObjectsOf(f, gs)) \in Nat
<1> DEFINE Of(g) == {g} \X (1..f[g])
           All == {Of(g) : g \in gs}
           F == [g \in gs |-> Of(g)]
<1>1. IsFiniteSet(gs)
  BY EnforcerAssumption, FS_Subset
<1>2. IsFiniteSet(All)
  <2>1. F \in Surjection(gs, All)
    BY DEF Surjection
  <2> QED
    BY <1>1, <2>1, FS_Surjection
<1>3. \A T \in All : IsFiniteSet(T)
  <2> SUFFICES ASSUME NEW g \in gs PROVE IsFiniteSet(Of(g))
    OBVIOUS
  <2>1. f[g] \in Int /\ 1 \in Int
    OBVIOUS
  <2>2. IsFiniteSet({g}) /\ IsFiniteSet(1..f[g])
    BY <2>1, FS_Singleton, FS_Interval
  <2> QED
    BY <2>2, FS_Product
<1> HIDE DEF All
<1>4. IsFiniteSet(UNION All)
  BY <1>2, <1>3, FS_UNION
<1>5. UNION All = ObjectsOf(f, gs)
  BY DEF All, ObjectsOf
<1> QED
  BY <1>4, <1>5, FS_CardinalityType

\* One object more of cgroup g counts if g is among the cgroups.
LEMMA ObjectAdded ==
    ASSUME NEW f \in [Cgroup -> Nat], NEW h \in [Cgroup -> Nat], NEW g \in Cgroup,
           h[g] = f[g] + 1, \A x \in Cgroup \ {g} : h[x] = f[x],
           NEW gs \in SUBSET Cgroup
    PROVE  Cardinality(ObjectsOf(h, gs))
             = Cardinality(ObjectsOf(f, gs)) + (IF g \in gs THEN 1 ELSE 0)
<1>1. h[g] = f[g] + 1 /\ \A x \in Cgroup \ {g} : h[x] = f[x]
  OBVIOUS
<1>2. IsFiniteSet(ObjectsOf(f, gs)) /\ Cardinality(ObjectsOf(f, gs)) \in Nat
  BY ObjectsFinite
<1>3. CASE g \notin gs
  <2>1. ObjectsOf(h, gs) = ObjectsOf(f, gs)
    BY <1>1, <1>3 DEF ObjectsOf
  <2> QED
    BY <1>2, <1>3, <2>1
<1>4. CASE g \in gs
  <2> DEFINE o == <<g, f[g] + 1>>
  <2>1. 1..h[g] = (1..f[g]) \cup {f[g] + 1}
    BY <1>1
  <2>2. o \notin ObjectsOf(f, gs)
    BY DEF ObjectsOf
  <2>3. ObjectsOf(h, gs) = ObjectsOf(f, gs) \cup {o}
    <3>1. \A x \in gs : {x} \X (1..h[x]) = IF x = g THEN ({x} \X (1..f[x])) \cup {o}
                                                    ELSE {x} \X (1..f[x])
      BY <1>1, <2>1
    <3> QED
      BY <1>4, <3>1 DEF ObjectsOf
  <2> HIDE DEF o
  <2> QED
    BY <1>2, <1>4, <2>2, <2>3, FS_AddElement
<1> QED
  BY <1>3, <1>4

\* One object less of one of the cgroups.
LEMMA ObjectRemoved ==
    ASSUME NEW f \in [Cgroup -> Nat], NEW h \in [Cgroup -> Nat], NEW g \in Cgroup,
           h[g] = f[g] - 1, \A x \in Cgroup \ {g} : h[x] = f[x],
           NEW gs \in SUBSET Cgroup, g \in gs
    PROVE  Cardinality(ObjectsOf(f, gs)) = Cardinality(ObjectsOf(h, gs)) + 1
<1>1. f[g] = h[g] + 1
  OBVIOUS
<1> QED
  BY <1>1, ObjectAdded

\* The CPUs with a charged object are finitely many.
LEMMA PendingFinite ==
    ASSUME NEW p, NEW gs
    PROVE  IsFiniteSet(PendingOf(p, gs)) /\ Cardinality(PendingOf(p, gs)) \in Nat
<1>1. PendingOf(p, gs) \subseteq CPU
  BY DEF PendingOf
<1> QED
  BY <1>1, EnforcerAssumption, FS_Subset, FS_CardinalityType

\* The numbers that the invariant is about.
LEMMA CoveredTypes ==
    ASSUME TypeInv
    PROVE  /\ Cardinality(ObjectsOf(open, mapped)) \in Nat
           /\ Cardinality(PendingOf(cpu, mapped)) \in Nat
           /\ {leaked, Covered, lease.count} \subseteq Nat
<1>1. leaked \in Nat /\ lease.count \in Nat
  BY DEF TypeInv, TypeOK, Lease
<1> QED
  BY <1>1, ObjectsFinite, PendingFinite DEF TypeInv, TypeOK, Covered

\* The same numbers after a step.
LEMMA CoveredTypesNext ==
    ASSUME TypeInv'
    PROVE  /\ Cardinality(ObjectsOf(open', mapped')) \in Nat
           /\ Cardinality(PendingOf(cpu', mapped')) \in Nat
           /\ {leaked', Covered', lease'.count} \subseteq Nat
<1>1. leaked' \in Nat /\ lease'.count \in Nat
  BY DEF TypeInv, TypeOK, Lease
<1> QED
  BY <1>1, ObjectsFinite, PendingFinite DEF TypeInv, TypeOK, Covered

\* What is charged stays covered when the counter grows no more than what covers it.
LEMMA ChargedCovered ==
    ASSUME TypeInv, TypeInv', Charged,
           exact' => exact /\ lease'.count + Covered <= lease.count + Covered'
    PROVE  Charged'
BY CoveredTypes, CoveredTypesNext DEF Charged

\* What is charged stays covered when the counter does not grow and neither
\* objects, nor CPUs with one, nor leaks go.
LEMMA ChargedKeeps ==
    ASSUME TypeInv, TypeInv', Charged,
           exact' => exact /\ lease'.count <= lease.count,
           ObjectsOf(open, mapped) \subseteq ObjectsOf(open', mapped'),
           PendingOf(cpu, mapped) \subseteq PendingOf(cpu', mapped'),
           leaked' = leaked
    PROVE  Charged'
<1> DEFINE o == Cardinality(ObjectsOf(open, mapped))
           u == Cardinality(ObjectsOf(open', mapped'))
           d == Cardinality(PendingOf(cpu, mapped))
           e == Cardinality(PendingOf(cpu', mapped'))
<1>1. /\ o \in Nat /\ u \in Nat /\ d \in Nat /\ e \in Nat
      /\ IsFiniteSet(ObjectsOf(open', mapped')) /\ IsFiniteSet(PendingOf(cpu', mapped'))
  BY ObjectsFinite, PendingFinite DEF TypeInv, TypeOK
<1>2. o <= u /\ d <= e
  BY <1>1, FS_Subset
<1>3. lease.count \in Nat /\ lease'.count \in Nat /\ leaked \in Nat
  BY DEF TypeInv, TypeOK, Lease
<1>4. exact => lease.count <= o + d + leaked
  BY DEF Charged, Covered
<1> HIDE DEF o, u, d, e
<1>5. exact' => lease'.count <= u + e + leaked'
  BY <1>1, <1>2, <1>3, <1>4
<1> QED
  BY <1>5 DEF Charged, Covered, u, e

-----------------------------------------------------------------------------
\* The programs.

\* One program goes on, and the maps keep what the others hold.
LEMMA SteadyMoves ==
    ASSUME TypeInv, Steady, NEW c \in CPU, NEW p,
           cpu' = [cpu EXCEPT ![c] = p],
           p.pc \in Installing => p.cg \in mapped,
           p.live => lease.present /\ p.pc \notin {"idle", "charged", "return"},
           p.pc = "sub" => p.live \/ ~exact',
           UNCHANGED <<mapped, agent>>, lease'.present = lease.present, exact' => exact,
           ~lease'.present => lease'.count = 0
    PROVE  Steady'
<1>1. \A d \in CPU : cpu'[d] = IF d = c THEN p ELSE cpu[d]
  BY DEF TypeInv, TypeOK
<1>2. ASSUME NEW d \in CPU PROVE ProgramSteady(cpu[d])'
  <2>1. CASE d = c
    BY <1>1, <2>1 DEF ProgramSteady
  <2>2. CASE d # c
    BY <1>1, <2>2 DEF Steady, ProgramSteady
  <2> QED
    BY <2>1, <2>2
<1>3. \A w \in Worker : WorkerSteady(agent[w])'
  BY DEF Steady, WorkerSteady
<1> QED
  BY <1>2, <1>3 DEF Steady

\* A CPU that keeps its charged object leaves the others what they are.
LEMMA PendingMoves ==
    ASSUME TypeInv, NEW c \in CPU, NEW p, cpu' = [cpu EXCEPT ![c] = p],
           cpu[c].pc \in Holding /\ cpu[c].cg \in mapped
               => p.pc \in Holding /\ p.cg = cpu[c].cg,
           mapped \subseteq mapped'
    PROVE  PendingOf(cpu, mapped) \subseteq PendingOf(cpu', mapped')
<1>1. \A d \in CPU : cpu'[d] = IF d = c THEN p ELSE cpu[d]
  BY DEF TypeInv, TypeOK
<1> QED
  BY <1>1 DEF PendingOf

\* A CPU that gives its charged object up is one less.
LEMMA PendingLeaves ==
    ASSUME TypeInv, NEW c \in CPU, NEW p, cpu' = [cpu EXCEPT ![c] = p],
           p.pc \notin Holding, UNCHANGED mapped
    PROVE  /\ cpu[c].cg \in mapped /\ cpu[c].pc \in Holding
               => Cardinality(PendingOf(cpu, mapped)) = Cardinality(PendingOf(cpu', mapped')) + 1
           /\ Cardinality(PendingOf(cpu, mapped)) <= Cardinality(PendingOf(cpu', mapped')) + 1
<1>1. \A d \in CPU : cpu'[d] = IF d = c THEN p ELSE cpu[d]
  BY DEF TypeInv, TypeOK
<1>2. PendingOf(cpu', mapped') = PendingOf(cpu, mapped) \ {c}
  BY <1>1 DEF PendingOf
<1>3. /\ IsFiniteSet(PendingOf(cpu, mapped))
      /\ Cardinality(PendingOf(cpu, mapped)) \in Nat
      /\ Cardinality(PendingOf(cpu', mapped')) \in Nat
  BY PendingFinite
<1>4. CASE c \in PendingOf(cpu, mapped)
  <2>1. Cardinality(PendingOf(cpu', mapped')) = Cardinality(PendingOf(cpu, mapped)) - 1
    BY <1>2, <1>3, <1>4, FS_RemoveElement
  <2> QED
    BY <1>3, <2>1
<1>5. CASE c \notin PendingOf(cpu, mapped)
  <2>1. PendingOf(cpu', mapped') = PendingOf(cpu, mapped)
    BY <1>2, <1>5
  <2> QED
    BY <1>3, <1>5, <2>1 DEF PendingOf
<1> QED
  BY <1>4, <1>5

\* A CPU that gets a charged object is one more.
LEMMA PendingJoins ==
    ASSUME TypeInv, NEW c \in CPU, NEW p, cpu' = [cpu EXCEPT ![c] = p],
           p.pc \in Holding, cpu[c].pc \notin Holding, p.cg \in mapped, UNCHANGED mapped
    PROVE  Cardinality(PendingOf(cpu', mapped')) = Cardinality(PendingOf(cpu, mapped)) + 1
<1>1. \A d \in CPU : cpu'[d] = IF d = c THEN p ELSE cpu[d]
  BY DEF TypeInv, TypeOK
<1>2. c \notin PendingOf(cpu, mapped)
  BY DEF PendingOf
<1>3. PendingOf(cpu', mapped') = PendingOf(cpu, mapped) \cup {c}
  BY <1>1 DEF PendingOf
<1> QED
  BY <1>2, <1>3, PendingFinite, FS_AddElement

\* Objects stay when none is closed and no cgroup is forgotten.
LEMMA ObjectsStay ==
    ASSUME NEW f \in [Cgroup -> Nat], NEW h \in [Cgroup -> Nat],
           \A g \in Cgroup : f[g] <= h[g],
           NEW gs \in SUBSET Cgroup, NEW hs \in SUBSET Cgroup, gs \subseteq hs
    PROVE  ObjectsOf(f, gs) \subseteq ObjectsOf(h, hs)
<1>1. \A g \in Cgroup : 1..f[g] \subseteq 1..h[g]
  OBVIOUS
<1> QED
  BY <1>1 DEF ObjectsOf

\* A program goes on without adding or subtracting, and keeps a charged object.
LEMMA ProgramCounts ==
    ASSUME TypeInv, TypeInv', CountInv, NEW c \in CPU, NEW p,
           cpu' = [cpu EXCEPT ![c] = p],
           p.pc \in Installing => p.cg \in mapped,
           p.live => lease.present /\ p.pc \notin {"idle", "charged", "return"},
           p.pc = "sub" => p.live,
           cpu[c].pc \in Holding /\ cpu[c].cg \in mapped
               => p.pc \in Holding /\ p.cg = cpu[c].cg,
           lease'.present = lease.present, lease'.count = lease.count,
           UNCHANGED <<mapped, agent, open, leaked, exact>>
    PROVE  CountInv'
<1>1. Steady /\ Charged
  BY DEF CountInv
<1>2. Steady'
  BY <1>1, SteadyMoves DEF Steady
<1>3. PendingOf(cpu, mapped) \subseteq PendingOf(cpu', mapped')
  BY PendingMoves
<1>4. lease'.count <= lease.count
  BY CountTypes
<1>5. Charged'
  BY <1>1, <1>3, <1>4, ChargedKeeps
<1> QED
  BY <1>2, <1>5 DEF CountInv

\* It goes to its next instruction.
LEMMA GotoCounts ==
    ASSUME TypeInv, TypeInv', CountInv, NEW c \in CPU, NEW pc, Goto(c, pc),
           \/ cpu[c].pc \in Installing /\ pc \in Installing
           \/ cpu[c].pc \in Leaving /\ pc \in Leaving \ {"sub"},
           lease'.present = lease.present, lease'.count = lease.count,
           UNCHANGED <<mapped, agent, open, leaked, exact>>
    PROVE  CountInv'
<1>1. PICK p : /\ cpu' = [cpu EXCEPT ![c] = p]
               /\ p.pc = pc /\ p.cg = cpu[c].cg /\ p.live = cpu[c].live
  BY GotoFields
<1>2. ProgramSteady(cpu[c])
  BY DEF CountInv, Steady
<1>3. /\ p.pc \in Installing => p.cg \in mapped
      /\ p.live => lease.present /\ p.pc \notin {"idle", "charged", "return"}
      /\ p.pc # "sub"
      /\ cpu[c].pc \in Holding => p.pc \in Holding
  BY <1>1, <1>2 DEF ProgramSteady, Installing, Leaving, Holding
<1> QED
  BY <1>1, <1>3, ProgramCounts

\* It goes there with what it has loaded.
LEMMA LoadCounts ==
    ASSUME TypeInv, TypeInv', CountInv, NEW c \in CPU, NEW pc \in Installing, NEW n, NEW b,
           Load(c, pc, n, b), cpu[c].pc \in Installing,
           lease'.present = lease.present, lease'.count = lease.count,
           UNCHANGED <<mapped, agent, open, leaked, exact>>
    PROVE  CountInv'
<1> DEFINE p == [cpu[c] EXCEPT !.pc = pc, !.count = n, !.budget = b]
<1>1. cpu[c] \in Program /\ cpu' = [cpu EXCEPT ![c] = p]
  BY DEF Load, TypeInv, TypeOK
<1>2. p.cg = cpu[c].cg /\ p.live = cpu[c].live /\ p.pc = pc
  BY <1>1 DEF Program
<1> HIDE DEF p
<1>3. ProgramSteady(cpu[c])
  BY DEF CountInv, Steady
<1>4. /\ p.pc \in Installing => p.cg \in mapped
      /\ p.live => lease.present /\ p.pc \notin {"idle", "charged", "return"}
      /\ p.pc # "sub" /\ cpu[c].pc \notin Holding
  BY <1>2, <1>3 DEF ProgramSteady, Installing, Leaving, Holding
<1> QED
  BY <1>1, <1>4, ProgramCounts

\* It begins for a cgroup that is mapped or not, or it ends and charges nothing.
LEMMA RunsCounts ==
    ASSUME TypeInv, TypeInv', CountInv, NEW c \in CPU, NEW pc, NEW g, Runs(c, pc, g),
           pc = "return" \/ (pc = "record" /\ g \in mapped), cpu[c].pc \notin Holding,
           UNCHANGED <<mapped, lease, agent, open, leaked, exact>>
    PROVE  CountInv'
<1> DEFINE p == [Quiet EXCEPT !.pc = pc, !.cg = g]
<1>1. p.pc = pc /\ p.cg = g /\ ~p.live /\ cpu' = [cpu EXCEPT ![c] = p]
  BY DEF Runs, Quiet
<1> HIDE DEF p
<1>2. p.pc \in Installing => p.cg \in mapped
  BY <1>1 DEF Installing
<1> QED
  BY <1>1, <1>2, ProgramCounts

\* A CPU rests.
LEMMA QuietFields ==
    /\ Quiet.pc = "idle" /\ ~Quiet.live
    /\ Quiet.pc \notin Installing /\ Quiet.pc \notin Holding /\ Quiet.pc # "sub"
BY DEF Quiet, Installing, Leaving, Holding

\* The counter grows by 1, or by nothing, for an object that will be there.
LEMMA AddCounts ==
    ASSUME TypeInv, TypeInv', CountInv, NEW c \in CPU, Add(c)
    PROVE  CountInv'
<1> DEFINE p == [Quiet EXCEPT !.pc = "charged", !.cg = cpu[c].cg]
<1>1. /\ cpu[c].pc = "add" /\ cpu' = [cpu EXCEPT ![c] = p]
      /\ UNCHANGED <<mapped, agent, open, leaked, exact>>
      /\ lease' = IF cpu[c].live THEN [lease EXCEPT !.count = (lease.count + 1) % Modulus]
                                 ELSE lease
  BY DEF Add, Store, Return, Runs, world
<1>2. /\ p.pc = "charged" /\ p.cg = cpu[c].cg /\ ~p.live
      /\ p.pc \notin Installing /\ p.pc \in Holding /\ p.pc # "sub"
  BY DEF Quiet, Installing, Holding
<1> HIDE DEF p
<1>3. /\ Steady /\ Charged /\ ProgramSteady(cpu[c])
      /\ lease.count \in Nat /\ lease \in Lease /\ lease' \in Lease
  BY CountTypes DEF CountInv, Steady, TypeInv, TypeOK
<1>4. cpu[c].cg \in mapped /\ cpu[c].pc \notin Holding /\ (cpu[c].live => lease.present)
  BY <1>1, <1>3 DEF ProgramSteady, Installing, Holding, Leaving
<1>5. /\ lease'.present = lease.present
      /\ lease'.count = lease.count \/ lease'.count = (lease.count + 1) % Modulus
  BY <1>1, <1>3 DEF Lease
<1>6. lease'.count <= lease.count + 1 /\ lease'.count \in Nat
  <2>1. (lease.count + 1) % Modulus <= lease.count + 1
    BY <1>3, CPUCardinality
  <2> QED
    BY <1>3, <1>5, <2>1 DEF Lease
<1>7. ~lease'.present => lease'.count = 0
  BY <1>1, <1>3, <1>4, <1>5 DEF Steady
<1>8. Steady'
  BY <1>1, <1>2, <1>3, <1>5, <1>7, SteadyMoves
<1>9. Cardinality(PendingOf(cpu', mapped')) = Cardinality(PendingOf(cpu, mapped)) + 1
  BY <1>1, <1>2, <1>4, PendingJoins
<1>10. Covered' = Covered + 1
  BY <1>1, <1>9, CoveredTypes, CoveredTypesNext DEF Covered
<1>11. Charged'
  BY <1>1, <1>3, <1>6, <1>10, CoveredTypes, CoveredTypesNext DEF Charged
<1> QED
  BY <1>8, <1>11 DEF CountInv

\* The object is there: of a mapped cgroup it takes the place of the CPU that had
\* it charged.
LEMMA InstallCounts ==
    ASSUME TypeInv, TypeInv', CountInv, NEW c \in CPU, Install(c)
    PROVE  CountInv'
<1> DEFINE g == cpu[c].cg
<1>1. /\ cpu[c].pc \in {"charged", "return"} /\ cpu' = [cpu EXCEPT ![c] = Quiet]
      /\ open' = [open EXCEPT ![g] = open[g] + 1]
      /\ UNCHANGED <<mapped, lease, agent, leaked, exact>>
  BY DEF Install
<1>2. /\ Steady /\ Charged /\ g \in Cgroup /\ mapped \in SUBSET Cgroup
      /\ open \in [Cgroup -> Nat] /\ open' \in [Cgroup -> Nat]
  BY <1>1, CountTypes, ProgramFields DEF CountInv, TypeInv, TypeOK
<1> HIDE DEF g
<1>3. Steady'
  BY <1>1, <1>2, QuietFields, SteadyMoves DEF Steady
<1>4. CASE g \in mapped
  <2>1. Cardinality(ObjectsOf(open', mapped')) = Cardinality(ObjectsOf(open, mapped)) + 1
    <3>1. /\ open'[g] = open[g] + 1 /\ \A x \in Cgroup \ {g} : open'[x] = open[x]
          /\ mapped' = mapped
      BY <1>1, <1>2
    <3>2. Cardinality(ObjectsOf(open', mapped)) = Cardinality(ObjectsOf(open, mapped)) + 1
      BY <1>2, <1>4, <3>1, ObjectAdded
    <3> QED
      BY <3>1, <3>2
  <2>2. Cardinality(PendingOf(cpu, mapped)) <= Cardinality(PendingOf(cpu', mapped')) + 1
    BY <1>1, QuietFields, PendingLeaves
  <2>3. Covered <= Covered'
    BY <1>1, <2>1, <2>2, CoveredTypes, CoveredTypesNext DEF Covered
  <2>4. Charged'
    BY <1>1, <1>2, <2>3, CoveredTypes, CoveredTypesNext DEF Charged
  <2> QED
    BY <1>3, <2>4 DEF CountInv
<1>5. CASE g \notin mapped
  <2>1. ObjectsOf(open', mapped') = ObjectsOf(open, mapped)
    BY <1>1, <1>2, <1>5 DEF ObjectsOf
  <2>2. PendingOf(cpu, mapped) \subseteq PendingOf(cpu', mapped')
    BY <1>1, <1>5, PendingMoves DEF g
  <2>3. (exact' => exact /\ lease'.count <= lease.count) /\ leaked' = leaked
    BY <1>1, CountTypes
  <2>4. Charged'
    BY <1>2, <2>1, <2>2, <2>3, ChargedKeeps
  <2> QED
    BY <1>3, <2>4 DEF CountInv
<1> QED
  BY <1>4, <1>5

\* The clone fails: if it was counted, its charge leaks.
LEMMA CloneFailsCounts ==
    ASSUME TypeInv, TypeInv', CountInv, NEW c \in CPU, CloneFails(c)
    PROVE  CountInv'
<1>1. /\ cpu' = [cpu EXCEPT ![c] = Quiet]
      /\ UNCHANGED <<mapped, lease, agent, open, exact>>
      /\ \/ cpu[c].pc = "return" /\ leaked' = leaked
         \/ cpu[c].pc = "charged" /\ leaked' = leaked + 1
  BY DEF CloneFails
<1>2. Steady /\ Charged
  BY DEF CountInv
<1>3. Steady'
  BY <1>1, <1>2, QuietFields, SteadyMoves DEF Steady
<1>4. CASE cpu[c].pc = "return" /\ leaked' = leaked
  <2>1. cpu[c].pc \notin Holding
    BY <1>4 DEF Holding, Leaving
  <2>2. PendingOf(cpu, mapped) \subseteq PendingOf(cpu', mapped')
    BY <1>1, <2>1, PendingMoves
  <2>3. exact' => exact /\ lease'.count <= lease.count
    BY <1>1, CountTypes
  <2>4. ObjectsOf(open', mapped') = ObjectsOf(open, mapped)
    BY <1>1
  <2>5. Charged'
    BY <1>2, <1>4, <2>2, <2>3, <2>4, ChargedKeeps
  <2> QED
    BY <1>3, <2>5 DEF CountInv
<1>5. CASE leaked' = leaked + 1
  <2>1. Cardinality(PendingOf(cpu, mapped)) <= Cardinality(PendingOf(cpu', mapped')) + 1
    BY <1>1, QuietFields, PendingLeaves
  <2>2. Covered <= Covered'
    BY <1>1, <1>5, <2>1, CoveredTypes, CoveredTypesNext DEF Covered
  <2>3. Charged'
    BY <1>1, <1>2, <2>2, CoveredTypes, CoveredTypesNext DEF Charged
  <2> QED
    BY <1>3, <2>3 DEF CountInv
<1> QED
  BY <1>1, <1>4, <1>5

\* The lookups: a program ends, or goes on with the limit or with the counter that
\* is in the map.
LEMMA LookupCounts ==
    ASSUME TypeInv, TypeInv', CountInv, NEW c \in CPU, LookupLimit(c) \/ LookupCounter(c)
    PROVE  CountInv'
<1>1. /\ cpu[c].pc \in Installing /\ cpu[c].pc \notin Holding
      /\ UNCHANGED <<mapped, lease, agent, open, leaked, exact>>
  BY DEF LookupLimit, LookupCounter, Installing, Holding, Leaving, world
<1>2. CASE Return(c, "return")
  BY <1>1, <1>2, RunsCounts DEF Return
<1>3. CASE ~Return(c, "return")
  <2>1. PICK p \in Program : /\ cpu' = [cpu EXCEPT ![c] = p]
                             /\ p.cg = cpu[c].cg /\ p.pc \in {"counter", "top"}
                             /\ p.live => cpu[c].live \/ lease.present
    <3>1. cpu[c] \in Program
      BY DEF TypeInv, TypeOK
    <3>2. CASE LookupLimit(c)
      <4> DEFINE p == [cpu[c] EXCEPT !.pc = "counter", !.max = limit]
      <4>1. limit \in Nat /\ cpu' = [cpu EXCEPT ![c] = p]
        BY <1>3, <3>2, EnforcerAssumption DEF LookupLimit, TypeInv, TypeOK
      <4>2. p \in Program /\ p.cg = cpu[c].cg /\ p.pc = "counter" /\ p.live = cpu[c].live
        BY <3>1, <4>1 DEF Program, PC
      <4> HIDE DEF p
      <4> QED
        BY <4>1, <4>2
    <3>3. CASE LookupCounter(c)
      <4> DEFINE p == [cpu[c] EXCEPT !.pc = "top", !.live = TRUE]
      <4>1. lease.present /\ cpu' = [cpu EXCEPT ![c] = p]
        BY <1>3, <3>3 DEF LookupCounter
      <4>2. p \in Program /\ p.cg = cpu[c].cg /\ p.pc = "top"
        BY <3>1 DEF Program, PC
      <4> HIDE DEF p
      <4> QED
        BY <4>1, <4>2
    <3> QED
      BY <3>2, <3>3
  <2>2. ProgramSteady(cpu[c])
    BY DEF CountInv, Steady
  <2>3. /\ p.pc \in Installing => p.cg \in mapped
        /\ p.live => lease.present /\ p.pc \notin {"idle", "charged", "return"}
        /\ p.pc # "sub"
    BY <1>1, <2>1, <2>2 DEF ProgramSteady
  <2> QED
    BY <1>1, <2>1, <2>3, ProgramCounts
<1> QED
  BY <1>2, <1>3

\* A program about to subtract holds the counter; one that does not subtract
\* had nothing charged.
LEMMA CheckCounterCounts ==
    ASSUME TypeInv, TypeInv', CountInv, NEW c \in CPU, CheckCounter(c)
    PROVE  CountInv'
<1>1. /\ cpu[c].pc = "nscheck"
      /\ UNCHANGED <<mapped, lease, agent, open, leaked, exact>>
  BY DEF CheckCounter, world
<1>2. Steady /\ Charged /\ ProgramSteady(cpu[c]) /\ lease.count \in Nat
  BY CountTypes DEF CountInv, Steady
<1>3. CASE Counted(cpu[c].cg)
  <2> DEFINE p == [cpu[c] EXCEPT !.pc = "sub", !.live = TRUE]
  <2>1. p.pc = "sub" /\ p.live = TRUE /\ p.cg = cpu[c].cg
    BY CountTypes, ProgramFields DEF Program
  <2>2. cpu' = [cpu EXCEPT ![c] = p]
    BY <1>3 DEF CheckCounter
  <2> HIDE DEF p
  <2>3. p.pc \notin Installing /\ p.pc \in Holding /\ lease.present
    BY <1>2, <1>3, <2>1 DEF Installing, Holding, Leaving, Counted
  <2> QED
    BY <1>1, <2>1, <2>2, <2>3, ProgramCounts
<1>4. CASE ~Counted(cpu[c].cg)
  <2>1. cpu' = [cpu EXCEPT ![c] = Quiet]
    BY <1>4 DEF CheckCounter
  <2>2. CASE cpu[c].cg \notin mapped
    BY <1>1, <2>1, <2>2, QuietFields, ProgramCounts
  <2>3. CASE cpu[c].cg \in mapped
    <3>1. lease'.count = 0
      BY <1>1, <1>2, <1>4, <2>3 DEF Counted, Steady
    <3>2. Steady'
      BY <1>1, <1>2, <2>1, QuietFields, SteadyMoves DEF Steady
    <3>3. Covered' \in Nat
      BY CoveredTypesNext
    <3>4. Charged'
      BY <3>1, <3>3 DEF Charged
    <3> QED
      BY <3>2, <3>4 DEF CountInv
  <2> QED
    BY <2>2, <2>3
<1> QED
  BY <1>3, <1>4

\* A subtraction takes one off with one program that was closing.
LEMMA SubtractCounts ==
    ASSUME TypeInv, TypeInv', CountInv, NEW c \in CPU, Subtract(c)
    PROVE  CountInv'
<1>1. /\ cpu[c].pc = "sub" /\ cpu' = [cpu EXCEPT ![c] = Quiet]
      /\ UNCHANGED <<mapped, agent, open, leaked>>
      /\ exact' => exact /\ (cpu[c].live => lease.count > 0)
      /\ lease' = IF cpu[c].live THEN [lease EXCEPT !.count = (lease.count - 1) % Modulus]
                                 ELSE lease
  BY DEF Subtract, Store, world
<1>2. /\ Steady /\ Charged /\ ProgramSteady(cpu[c])
      /\ lease.count \in Nat /\ lease \in Lease /\ lease' \in Lease
  BY CountTypes DEF CountInv, Steady, TypeInv, TypeOK
<1>3. lease'.present = lease.present
  BY <1>1, <1>2 DEF Lease
<1>4. ~lease'.present => lease'.count = 0
  BY <1>1, <1>2, <1>3 DEF Steady, ProgramSteady
<1>5. Steady'
  BY <1>1, <1>2, <1>3, <1>4, QuietFields, SteadyMoves DEF Steady
<1>6. exact' => lease'.count <= lease.count - 1
  <2>1. exact' => cpu[c].live /\ lease.count > 0
    BY <1>1, <1>2 DEF ProgramSteady
  <2>2. cpu[c].live => lease'.count = (lease.count - 1) % Modulus
    BY <1>1, <1>2 DEF Lease
  <2>3. lease.count > 0 => (lease.count - 1) % Modulus <= lease.count - 1
    BY <1>2, CPUCardinality
  <2> QED
    BY <2>1, <2>2, <2>3
<1>7. Charged'
  <2>1. Cardinality(PendingOf(cpu, mapped)) <= Cardinality(PendingOf(cpu', mapped')) + 1
    BY <1>1, QuietFields, PendingLeaves
  <2>2. Covered <= Covered' + 1
    BY <1>1, <2>1, CoveredTypes, CoveredTypesNext DEF Covered
  <2>3. lease'.count \in Nat
    BY <1>2 DEF Lease
  <2> QED
    BY <1>1, <1>2, <1>6, <2>2, <2>3, CoveredTypes, CoveredTypesNext DEF Charged
<1> QED
  BY <1>5, <1>7 DEF CountInv

\* The programs that watch an object come.
LEMMA InstallStepCounts ==
    ASSUME TypeInv, TypeInv', CountInv, NEW c \in CPU, InstallStep(c)
    PROVE  CountInv'
<1>1. CASE RecordInc(c) \/ RecordInsert(c) \/ CompareTop(c)
  <2>1. /\ cpu[c].pc \in Installing
        /\ \E pc \in Installing : Goto(c, pc)
    BY <1>1 DEF RecordInc, RecordInsert, CompareTop, Installing
  <2>2. UNCHANGED <<mapped, lease, agent, open, leaked, exact>>
    BY <1>1 DEF RecordInc, RecordInsert, CompareTop, world
  <2> QED
    BY <2>1, <2>2, GotoCounts
<1>2. CASE SetTopCgroup(c) \/ SetTopCount(c)
  <2>1. /\ cpu[c].pc \in Installing
        /\ \E pc \in Installing : Goto(c, pc)
    BY <1>2 DEF SetTopCgroup, SetTopCount, Installing
  <2>2. UNCHANGED <<mapped, agent, open, leaked, exact>>
    BY <1>2 DEF SetTopCgroup, SetTopCount, world
  <2>3. lease'.count = lease.count /\ lease'.present = lease.present
    BY <1>2 DEF SetTopCgroup, SetTopCount, Store, TypeInv, TypeOK, Lease
  <2> QED
    BY <2>1, <2>2, <2>3, GotoCounts
<1>3. CASE CheckLimit(c) \/ CheckSlice(c) \/ CheckBudget(c)
  <2>1. /\ cpu[c].pc \in Installing
        /\ \E n, b : \E pc \in Installing : Load(c, pc, n, b)
    BY <1>3 DEF CheckLimit, CheckSlice, CheckBudget, Installing
  <2>2. UNCHANGED <<mapped, lease, agent, open, leaked, exact>>
    BY <1>3 DEF CheckLimit, CheckSlice, CheckBudget, world
  <2> QED
    BY <2>1, <2>2, LoadCounts
<1>4. CASE ExtendBudget(c)
  <2>1. /\ cpu[c].pc \in Installing /\ "recheck" \in Installing
        /\ \E n, b : Load(c, "recheck", n, b)
    BY <1>4 DEF ExtendBudget, Installing
  <2>2. UNCHANGED <<mapped, agent, open, leaked, exact>>
    BY <1>4 DEF ExtendBudget, world
  <2>3. lease'.count = lease.count /\ lease'.present = lease.present
    BY <1>4 DEF ExtendBudget, Store, TypeInv, TypeOK, Lease
  <2> QED
    BY <2>1, <2>2, <2>3, LoadCounts
<1>5. CASE Breach(c)
  <2>1. cpu[c].pc \notin Holding /\ Runs(c, "return", cpu[c].cg)
    BY <1>5 DEF Breach, Return, Holding, Leaving
  <2>2. UNCHANGED <<mapped, lease, agent, open, leaked, exact>>
    BY <1>5 DEF Breach
  <2> QED
    BY <2>1, <2>2, RunsCounts
<1> QED
  BY <1>1, <1>2, <1>3, <1>4, <1>5, AddCounts, LookupCounts, InstallCounts, CloneFailsCounts
  DEF InstallStep

\* Those that watch one go.
LEMMA CloseStepCounts ==
    ASSUME TypeInv, TypeInv', CountInv, NEW c \in CPU, CloseStep(c)
    PROVE  CountInv'
<1>1. CASE RecordDec(c) \/ RecordSub(c)
  <2>1. /\ cpu[c].pc \in Leaving
        /\ \E pc \in Leaving \ {"sub"} : Goto(c, pc)
    BY <1>1 DEF RecordDec, RecordSub, Leaving
  <2>2. UNCHANGED <<mapped, lease, agent, open, leaked, exact>>
    BY <1>1 DEF RecordDec, RecordSub, world
  <2> QED
    BY <2>1, <2>2, GotoCounts
<1> QED
  BY <1>1, CheckCounterCounts, SubtractCounts DEF CloseStep

-----------------------------------------------------------------------------
\* The processes of the pods.

\* A process closes an object: one object less, one CPU that has it more.
LEMMA CloseCounts ==
    ASSUME TypeInv, TypeInv', CountInv, NEW c \in CPU, NEW g \in Cgroup, Close(c, g)
    PROVE  CountInv'
<1> DEFINE p == [Quiet EXCEPT !.pc = "close", !.cg = g]
<1>1. /\ p.pc = "close" /\ p.cg = g /\ ~p.live
      /\ p.pc \in Holding /\ p.pc \notin Installing
  BY DEF Quiet, Installing, Leaving, Holding
<1>2. /\ cpu[c].pc = "idle" /\ cpu' = [cpu EXCEPT ![c] = p]
      /\ UNCHANGED <<mapped, lease, agent, leaked, exact>>
      /\ open[g] > 0 /\ open' = [open EXCEPT ![g] = open[g] - 1]
  BY DEF Close, Runs
<1> HIDE DEF p
<1>3. /\ Steady /\ Charged /\ lease.count \in Nat /\ mapped \in SUBSET Cgroup
      /\ open \in [Cgroup -> Nat] /\ open' \in [Cgroup -> Nat]
  BY CountTypes DEF CountInv, TypeInv, TypeOK
<1>4. cpu[c].pc \notin Holding
  BY <1>2 DEF Holding, Leaving
<1>5. Steady'
  BY <1>1, <1>2, <1>3, SteadyMoves DEF Steady
<1>6. CASE g \notin mapped
  <2>1. ObjectsOf(open', mapped') = ObjectsOf(open, mapped)
    BY <1>2, <1>3, <1>6 DEF ObjectsOf
  <2>2. PendingOf(cpu, mapped) \subseteq PendingOf(cpu', mapped')
    BY <1>2, <1>4, PendingMoves
  <2>3. (exact' => exact /\ lease'.count <= lease.count) /\ leaked' = leaked
    BY <1>2, CountTypes
  <2>4. Charged'
    BY <1>3, <2>1, <2>2, <2>3, ChargedKeeps
  <2> QED
    BY <1>5, <2>4 DEF CountInv
<1>7. CASE g \in mapped
  <2>1. Cardinality(ObjectsOf(open, mapped)) = Cardinality(ObjectsOf(open', mapped')) + 1
    <3>1. /\ open'[g] = open[g] - 1 /\ \A x \in Cgroup \ {g} : open'[x] = open[x]
          /\ mapped' = mapped
      BY <1>2, <1>3
    <3>2. Cardinality(ObjectsOf(open, mapped)) = Cardinality(ObjectsOf(open', mapped)) + 1
      BY <1>3, <1>7, <3>1, ObjectRemoved
    <3> QED
      BY <3>1, <3>2
  <2>2. Cardinality(PendingOf(cpu', mapped')) = Cardinality(PendingOf(cpu, mapped)) + 1
    BY <1>1, <1>2, <1>4, <1>7, PendingJoins
  <2>3. Covered' = Covered
    BY <1>2, <2>1, <2>2, CoveredTypes, CoveredTypesNext DEF Covered
  <2>4. Charged'
    BY <1>2, <1>3, <2>3 DEF Charged
  <2> QED
    BY <1>5, <2>4 DEF CountInv
<1> QED
  BY <1>6, <1>7

\* Programs and workers stay what they are, only objects come or go.
LEMMA SteadyStays ==
    ASSUME Steady, UNCHANGED <<mapped, lease, cpu, agent, exact>>
    PROVE  Steady'
BY DEF Steady, ProgramSteady, WorkerSteady

\* A descriptor that is closed while something refers to its file leaks.
LEMMA CloseSharedCounts ==
    ASSUME TypeInv, TypeInv', CountInv, NEW g \in Cgroup, CloseShared(g)
    PROVE  CountInv'
<1>1. /\ UNCHANGED <<mapped, lease, cpu, agent, exact>> /\ leaked' = leaked + 1
      /\ open[g] > 0 /\ open' = [open EXCEPT ![g] = open[g] - 1]
  BY DEF CloseShared
<1>2. /\ Steady /\ Charged /\ mapped \in SUBSET Cgroup
      /\ open \in [Cgroup -> Nat] /\ open' \in [Cgroup -> Nat]
  BY DEF CountInv, TypeInv, TypeOK
<1>3. Cardinality(ObjectsOf(open, mapped)) <= Cardinality(ObjectsOf(open', mapped')) + 1
  <2>1. CASE g \in mapped
    <3>1. /\ open'[g] = open[g] - 1 /\ \A x \in Cgroup \ {g} : open'[x] = open[x]
          /\ mapped' = mapped
      BY <1>1, <1>2
    <3>2. Cardinality(ObjectsOf(open, mapped)) = Cardinality(ObjectsOf(open', mapped)) + 1
      BY <1>2, <2>1, <3>1, ObjectRemoved
    <3> QED
      BY <3>1, <3>2, CoveredTypes, CoveredTypesNext
  <2>2. CASE g \notin mapped
    <3>1. ObjectsOf(open', mapped') = ObjectsOf(open, mapped)
      BY <1>1, <1>2, <2>2 DEF ObjectsOf
    <3> QED
      BY <1>2, <3>1, ObjectsFinite
  <2> QED
    BY <2>1, <2>2
<1>4. PendingOf(cpu', mapped') = PendingOf(cpu, mapped)
  BY <1>1
<1>5. Covered <= Covered'
  BY <1>1, <1>2, <1>3, <1>4, CoveredTypes, CoveredTypesNext DEF Covered
<1>6. Charged'
  BY <1>1, <1>2, <1>5, CoveredTypes, CoveredTypesNext DEF Charged
<1> QED
  BY <1>1, <1>2, <1>6, SteadyStays DEF CountInv

\* A descriptor that is inherited is one object more.
LEMMA InheritCounts ==
    ASSUME TypeInv, TypeInv', CountInv, NEW g \in Cgroup, Inherit(g)
    PROVE  CountInv'
<1>1. /\ UNCHANGED <<mapped, lease, cpu, agent, leaked, exact>>
      /\ open' = [open EXCEPT ![g] = open[g] + 1]
  BY DEF Inherit
<1>2. /\ Steady /\ Charged /\ lease.count \in Nat /\ mapped \in SUBSET Cgroup
      /\ open \in [Cgroup -> Nat] /\ open' \in [Cgroup -> Nat]
  BY CountTypes DEF CountInv, TypeInv, TypeOK
<1>3. \A x \in Cgroup : open[x] <= open'[x]
  BY <1>1, <1>2
<1>4. ObjectsOf(open, mapped) \subseteq ObjectsOf(open', mapped')
  BY <1>1, <1>2, <1>3, ObjectsStay
<1>5. (exact' => exact /\ lease'.count <= lease.count) /\ leaked' = leaked
  BY <1>1, CountTypes
<1>6. PendingOf(cpu', mapped') = PendingOf(cpu, mapped)
  BY <1>1
<1>7. Charged'
  BY <1>2, <1>4, <1>5, <1>6, ChargedKeeps
<1> QED
  BY <1>1, <1>2, <1>7, SteadyStays DEF CountInv

\* The processes of the pods.
LEMMA ProcessCounts ==
    ASSUME TypeInv, TypeInv', CountInv, NEW g \in Cgroup, ProcessStep(g)
    PROVE  CountInv'
<1>1. ASSUME NEW c \in CPU, Enter(c, g) PROVE CountInv'
  <2>1. cpu[c].pc \notin Holding /\ UNCHANGED <<mapped, lease, agent, open, leaked, exact>>
    BY <1>1 DEF Enter, Holding, Leaving, world
  <2>2. PICK pc : Runs(c, pc, g) /\ (pc = "return" \/ (pc = "record" /\ g \in mapped))
    BY <1>1 DEF Enter
  <2> QED
    BY <2>1, <2>2, RunsCounts
<1>2. CASE Respawn(g)
  <2>1. UNCHANGED <<mapped, lease, cpu, agent, open, leaked, exact>>
    BY <1>2 DEF Respawn
  <2> QED
    BY <2>1, SteadyStays DEF CountInv, Charged, Covered
<1> QED
  BY <1>1, <1>2, CloseCounts, CloseSharedCounts, InheritCounts DEF ProcessStep

-----------------------------------------------------------------------------
\* The agent.

\* Only steps of the workers, with the kernel's objects and maps as they are.
LEMMA WorkerOnly ==
    ASSUME TypeInv, CountInv, NEW w \in Worker, NEW a, agent' = [agent EXCEPT ![w] = a],
           WorkerSteady(a), UNCHANGED <<mapped, lease, cpu, open, leaked, exact>>
    PROVE  CountInv'
<1>1. \A v \in Worker : agent'[v] = IF v = w THEN a ELSE agent[v]
  BY DEF TypeInv, TypeOK
<1>2. \A v \in Worker : WorkerSteady(agent[v])'
  BY <1>1 DEF CountInv, Steady, WorkerSteady
<1>3. Steady'
  BY <1>2 DEF CountInv, Steady, ProgramSteady
<1> QED
  BY <1>3 DEF CountInv, Charged, Covered

\* A counter is written back: unless that changes it or detaches a program that
\* is about to subtract, what is charged is the same.
LEMMA ResetCounts ==
    ASSUME TypeInv, TypeInv', CountInv, NEW w \in Worker, ResetUpdate(w)
    PROVE  CountInv'
<1> DEFINE a == [Resting EXCEPT !.pc = "map"]
<1>1. a.pc = "map"
  BY DEF Resting
<1>2. agent' = [agent EXCEPT ![w] = a]
  BY DEF ResetUpdate
<1> HIDE DEF a
<1>3. /\ agent[w].pc = "write" /\ lease' = agent[w].copy /\ Detach
      /\ exact' => /\ exact /\ lease'.count = lease.count
                   /\ \A c \in CPU : cpu[c].live => cpu[c].pc # "sub"
      /\ UNCHANGED <<mapped, open, leaked>>
  BY DEF ResetUpdate, world
<1>4. Steady /\ Charged /\ lease.count \in Nat
  BY CountTypes DEF CountInv
<1>5. lease'.present
  BY <1>3, <1>4 DEF Steady, WorkerSteady
<1>6. \A c \in CPU : /\ cpu'[c].pc = cpu[c].pc /\ cpu'[c].cg = cpu[c].cg
                     /\ cpu'[c].live = FALSE
  BY <1>3 DEF Detach, TypeInv, TypeOK, Program
<1>7. ASSUME NEW c \in CPU PROVE ProgramSteady(cpu[c])'
  <2>1. ProgramSteady(cpu[c])
    BY <1>4 DEF Steady
  <2>2. cpu[c].pc = "sub" => ~exact'
    BY <1>3, <2>1 DEF ProgramSteady
  <2> QED
    BY <1>3, <1>6, <2>1, <2>2 DEF ProgramSteady
<1>8. \A v \in Worker : WorkerSteady(agent[v])'
  BY <1>1, <1>2, <1>4 DEF Steady, WorkerSteady, TypeInv, TypeOK
<1>9. Steady'
  BY <1>3, <1>4, <1>5, <1>7, <1>8 DEF Steady
<1>10. PendingOf(cpu, mapped) \subseteq PendingOf(cpu', mapped')
  BY <1>3, <1>6 DEF PendingOf
<1>11. Charged'
  BY <1>3, <1>4, <1>10, ChargedKeeps
<1> QED
  BY <1>9, <1>11 DEF CountInv

\* A sync, which no removal follows.
LEMMA WorkerCounts ==
    ASSUME TypeInv, TypeInv', CountInv, ~Removes, NEW w \in Worker, WorkerStep(w)
    PROVE  CountInv'
<1>1. agent[w].pc \notin {"delcounter", "unmap"}
  BY DEF CountInv, Steady, WorkerSteady
<1>2. ~RemoveLimit(w) /\ ~RemoveCounter(w) /\ ~RemoveCgroups(w)
  BY <1>1 DEF RemoveLimit, RemoveCounter, RemoveCgroups
<1>3. ASSUME NEW l \in Limits, SyncLimit(w, l) PROVE CountInv'
  <2> DEFINE a == [Resting EXCEPT !.pc = "reset", !.max = l]
  <2>1. a.pc = "reset"
    BY DEF Resting
  <2>2. agent' = [agent EXCEPT ![w] = a] /\ UNCHANGED <<mapped, lease, cpu, open, leaked, exact>>
    BY <1>3 DEF SyncLimit, world
  <2> HIDE DEF a
  <2>3. WorkerSteady(a)
    BY <2>1 DEF WorkerSteady
  <2> QED
    BY <2>2, <2>3, WorkerOnly
<1>4. CASE ResetLookup(w)
  <2> DEFINE l == Reset(lease, agent[w].max)
             a == [Resting EXCEPT !.pc = "write", !.copy = l]
  <2>1. l.present
    BY DEF Reset, TypeInv, TypeOK, Lease
  <2>2. agent' = [agent EXCEPT ![w] = a] /\ UNCHANGED <<mapped, lease, cpu, open, leaked, exact>>
    BY <1>4 DEF ResetLookup, world
  <2> HIDE DEF l
  <2>3. a.pc = "write" /\ a.copy = l
    BY DEF Resting
  <2> HIDE DEF a
  <2>4. WorkerSteady(a)
    BY <2>1, <2>3 DEF WorkerSteady
  <2> QED
    BY <2>2, <2>4, WorkerOnly
<1>5. CASE ResetFails(w) \/ FinishSync(w)
  <2>1. agent' = [agent EXCEPT ![w] = Resting] /\ UNCHANGED <<mapped, lease, cpu, open, leaked, exact>>
    BY <1>5 DEF ResetFails, FinishSync, world
  <2>2. WorkerSteady(Resting)
    BY DEF WorkerSteady, Resting
  <2> QED
    BY <2>1, <2>2, WorkerOnly
<1> QED
  BY <1>2, <1>3, <1>4, <1>5, ResetCounts DEF WorkerStep

\* A restart begins with an empty counter.
LEMMA RestartCounts ==
    ASSUME TypeInv, TypeInv', CountInv, Restart
    PROVE  CountInv'
<1>1. /\ lease' = NoLease
      /\ \A c \in CPU : cpu[c].pc \in {"idle", "charged", "return"}
      /\ \A w \in Worker : agent'[w] = Resting
      /\ UNCHANGED <<cpu, open, exact>>
  BY DEF Restart, world
<1>2. ~lease'.present /\ lease'.count = 0 /\ Resting.pc = "idle"
  BY <1>1 DEF NoLease, Resting
<1>3. \A c \in CPU : ProgramSteady(cpu[c])'
  BY <1>1 DEF CountInv, Steady, ProgramSteady, Installing
<1>4. \A w \in Worker : WorkerSteady(agent[w])'
  BY <1>1, <1>2 DEF WorkerSteady
<1>5. Steady'
  BY <1>1, <1>2, <1>3, <1>4 DEF CountInv, Steady
<1>6. Covered' \in Nat
  BY CoveredTypesNext
<1>7. Charged'
  BY <1>2, <1>6 DEF Charged
<1> QED
  BY <1>5, <1>7 DEF CountInv

\* A cgroup is mapped: its objects, counted or not, are now covered.
LEMMA MapCounts ==
    ASSUME TypeInv, TypeInv', CountInv, NEW g \in Cgroup, MapCgroup(g)
    PROVE  CountInv'
<1>1. mapped \subseteq mapped' /\ UNCHANGED <<lease, cpu, agent, open, leaked, exact>>
  BY DEF MapCgroup, world
<1>2. Steady'
  BY <1>1 DEF CountInv, Steady, ProgramSteady, WorkerSteady
<1>3. ObjectsOf(open, mapped) \subseteq ObjectsOf(open', mapped')
  BY <1>1 DEF ObjectsOf
<1>4. PendingOf(cpu, mapped) \subseteq PendingOf(cpu', mapped')
  BY <1>1 DEF PendingOf
<1> QED
  BY <1>1, <1>2, <1>3, <1>4, CountTypes, ChargedKeeps DEF CountInv

-----------------------------------------------------------------------------
\* The invariant holds at the start.
LEMMA InitCounts == Init => CountInv
<1> SUFFICES ASSUME Init PROVE CountInv
  OBVIOUS
<1>1. Steady
  BY QuietFields DEF Init, Steady, ProgramSteady, WorkerSteady, NoLease, Resting
<1>2. TypeInv /\ lease.count = 0
  BY InitTypes DEF Init, NoLease
<1>3. Covered \in Nat
  BY <1>2, CoveredTypes
<1>4. Charged
  BY <1>2, <1>3 DEF Charged
<1> QED
  BY <1>1, <1>4 DEF CountInv

\* Every step preserves it.
LEMMA StepCounts ==
    ASSUME TypeInv, TypeInv', CountInv, [Next]_vars, ~Removes, ~Evicts
    PROVE  CountInv'
<1>1. CASE UNCHANGED <<mapped, lease, cpu, agent, open, leaked, exact>>
  BY <1>1, SteadyStays DEF CountInv, Charged, Covered
<1>2. CASE AgentStep
  BY <1>1, <1>2, WorkerCounts, RestartCounts DEF AgentStep, HandleBreach
<1>3. ASSUME NEW g \in Cgroup, CgroupStep(g) PROVE CountInv'
  BY <1>3, MapCounts DEF CgroupStep, EvictCgroup, EvictCounter
<1>4. CASE UNCHANGED vars
  BY <1>1, <1>4 DEF vars
<1> QED
  BY <1>2, <1>3, <1>4, ProcessCounts, InstallStepCounts, CloseStepCounts DEF Next

(***************************************************************************)
(* In a namespace that keeps its limit and its cgroups the counter charges *)
(* for nothing but objects that are there, objects that come or go at the  *)
(* moment, and as many as leaked, on any number of CPUs and through        *)
(* restarts of the agent: over_limit adds for an object of a mapped cgroup *)
(* that is about to exist, and the last close takes it off again, unless   *)
(* no program ran for it (a file that something else still referred to, a  *)
(* clone that failed) or an update of the counter was lost.                *)
(***************************************************************************)
THEOREM EnforcerCounted == Spec => []CountedAreOpen
<1>1. TypeInv /\ CountInv => CountedAreOpen
  <2> SUFFICES ASSUME TypeInv, CountInv PROVE CountedAreOpen
    OBVIOUS
  <2>1. Objects = ObjectsOf(open, Cgroup) /\ Pending = {c \in CPU : cpu[c].pc \in Holding}
    BY DEF Objects, ObjectsOf, Pending, Leaving, Holding
  <2>2. ObjectsOf(open, mapped) \subseteq Objects /\ PendingOf(cpu, mapped) \subseteq Pending
    BY <2>1 DEF ObjectsOf, PendingOf, TypeInv, TypeOK
  <2>3. IsFiniteSet(Objects) /\ Cardinality(Objects) \in Nat
    BY <2>1, ObjectsFinite DEF TypeInv, TypeOK
  <2>4. IsFiniteSet(Pending) /\ Cardinality(Pending) \in Nat
    BY <2>1, EnforcerAssumption, FS_Subset, FS_CardinalityType
  <2>5. /\ Cardinality(ObjectsOf(open, mapped)) <= Cardinality(Objects)
        /\ Cardinality(PendingOf(cpu, mapped)) <= Cardinality(Pending)
    BY <2>2, <2>3, <2>4, FS_Subset
  <2> QED
    BY <2>3, <2>4, <2>5, CoveredTypes DEF CountInv, Charged, Covered, CountedAreOpen
<1>2. CASE Removes \/ Evicts
  <2>1. CountedAreOpen
    BY <1>2 DEF CountedAreOpen
  <2> QED
    BY <2>1, PTL
<1>3. CASE ~Removes /\ ~Evicts
  <2>1. TypeInv /\ TypeInv' /\ CountInv /\ [Next]_vars => CountInv'
    BY <1>3, StepCounts
  <2> QED
    BY <1>1, <2>1, InitTypes, StepTypes, InitCounts, PTL DEF Spec
<1> QED
  BY <1>2, <1>3
=============================================================================
