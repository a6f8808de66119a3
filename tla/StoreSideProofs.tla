---------------------------- MODULE StoreSideProofs ----------------------------
(***************************************************************************)
(* What holds of the component graph of an environment, for every graph     *)
(* and number of readers, and of trace topologies, for every set of runs,   *)
(* traces and collectors.                                                   *)
(*                                                                         *)
(* Graphs: a plan is a function of the graph it was made of.  The level of  *)
(* a component is one above its highest provider at every step of the       *)
(* fixpoint, so no level below the highest is empty, and the batches are    *)
(* the levels in their order.                                               *)
(*                                                                         *)
(* Traces: what a collector holds is true of one trace as soon as it was    *)
(* built, since the provider only ever adds spans; a save keeps every run   *)
(* and step a row, or counts it as moved; and while the rows of a case are  *)
(* copied, the last of those that are left is the one its evidence showed.  *)
(*                                                                         *)
(* Together: the parts share no state, so a behaviour of MCStoreSide is one *)
(* of every part, and keeps the types of them all.                          *)
(***************************************************************************)
EXTENDS MCStoreSide, ProfileCatalogProofs, SchemaUpgradeProofs, FiniteOrders

-----------------------------------------------------------------------------
(* Startup levels.                                                         *)

LEMMA HighestLevelIs ==
    ASSUME NEW levels \in SUBSET Nat, IsFiniteSet(levels)
    PROVE  /\ HighestLevel(levels) \in Nat
           /\ \A l \in levels : l <= HighestLevel(levels)
           /\ HighestLevel(levels) # 0 => HighestLevel(levels) \in levels
<1>1. CASE levels = {}
  BY <1>1 DEF HighestLevel
<1>2. CASE levels # {}
  <2>1. \E l \in levels : \A m \in levels : m <= l
    BY <1>2, Greatest
  <2> QED
    BY <1>2, <2>1 DEF HighestLevel
<1> QED
  BY <1>1, <1>2

LEMMA GraphIds ==
    ASSUME NEW g \in Graphs
    PROVE  IsFiniteSet(Ids(g)) /\ Cardinality(Ids(g)) \in Nat
<1>1. Ids(g) \in SUBSET Components
  BY DEF Ids, Graphs, EnvironmentComponents
<1> QED
  BY <1>1, GraphConstants, FS_Subset, FS_CardinalityType

LEMMA ProviderIds ==
    ASSUME NEW g \in Graphs, ValidateEnvironmentComponentGraph(g), NEW id
    PROVE  Providers(g, id) \subseteq Ids(g)
BY DEF Providers, Blocking, ValidateEnvironmentComponentGraph

\* The levels of the providers of a component, each raised by one.
Above(g, id, levels) == {levels[p] + 1 : p \in Providers(g, id)}

LEMMA AboveFinite ==
    ASSUME NEW g \in Graphs, ValidateEnvironmentComponentGraph(g), NEW id,
           NEW levels \in [Ids(g) -> Nat]
    PROVE  Above(g, id, levels) \in SUBSET Nat /\ IsFiniteSet(Above(g, id, levels))
<1>1. Providers(g, id) \subseteq Ids(g) /\ IsFiniteSet(Providers(g, id))
  BY ProviderIds, GraphIds, FS_Subset
<1>a. \A p \in Providers(g, id) : levels[p] + 1 \in Nat
  BY <1>1
<1>2. PICK raised : raised = [p \in Providers(g, id) |-> levels[p] + 1]
  OBVIOUS
<1>b. raised \in [Providers(g, id) -> Nat]
  BY <1>a, <1>2
<1>3. Above(g, id, levels) = {raised[p] : p \in Providers(g, id)}
  BY <1>2 DEF Above
<1>4. Above(g, id, levels) \in SUBSET Nat
  BY <1>b, <1>3
<1>5. IsFiniteSet({raised[p] : p \in Providers(g, id)})
  <2>1. raised \in Surjection(Providers(g, id), {raised[p] : p \in Providers(g, id)})
    BY <1>b DEF Surjection
  <2> QED
    BY <1>1, <2>1, FS_Surjection
<1> QED
  BY <1>3, <1>4, <1>5

\* An order of all components.
LEMMA OrderOfIds ==
    ASSUME NEW g \in Graphs, NEW order \in BlockingOrders(g)
    PROVE  /\ order \in [1 .. Cardinality(Ids(g)) -> Ids(g)]
           /\ order \in Seq(Ids(g)) /\ Len(order) = Cardinality(Ids(g))
           /\ \A i, j \in 1 .. Len(order) : order[i] = order[j] => i = j
           /\ \A id \in Ids(g) : \E i \in 1 .. Len(order) : order[i] = id
<1> DEFINE n == Cardinality(Ids(g))
<1>1. n \in Nat /\ IsFiniteSet(Ids(g))
  BY GraphIds
<1>2. /\ order \in [1 .. n -> Ids(g)]
      /\ \A i, j \in 1 .. n : i # j => order[i] # order[j]
  BY DEF BlockingOrders, SetToSeqs
<1>3. order \in Seq(Ids(g)) /\ Len(order) = n
  BY <1>1, <1>2
<1>4. order \in Injection(1 .. n, Ids(g))
  BY <1>2 DEF Injection, IsInjective
<1>5. IsFiniteSet(1 .. n) /\ Cardinality(1 .. n) = n
  BY <1>1, FS_Interval
<1>6. order \in Surjection(1 .. n, Ids(g))
  BY <1>1, <1>4, <1>5, FS_Injection
<1> QED
  BY <1>2, <1>3, <1>6 DEF Surjection

\* The levels after each component of the order.
LevelsInOrder(g, order, level) ==
    /\ level \in [0 .. Len(order) -> [Ids(g) -> Nat]]
    /\ level[Len(order)] = environmentComponentStartupLevels(g, order)
    /\ \A i \in 1 .. Len(order) :
          level[i] = [level[i - 1] EXCEPT ![order[i]] =
                         HighestLevel(Above(g, order[i], level[i - 1]))]

LEMMA LevelsOneByOne ==
    ASSUME NEW g \in Graphs, ValidateEnvironmentComponentGraph(g), NEW order \in BlockingOrders(g)
    PROVE  \E level : LevelsInOrder(g, order, level)
<1>1. PICK n : n = Len(order)
  OBVIOUS
<1>2. PICK S : S = [Ids(g) -> Nat]
  OBVIOUS
<1>3. PICK first : first = [id \in Ids(g) |-> 0]
  OBVIOUS
<1>4. n \in Nat /\ first \in S /\ \A i \in 1 .. n : order[i] \in Ids(g)
  BY <1>1, <1>2, <1>3, OrderOfIds
<1>5. PICK step : step = [i \in 1 .. n |-> [levels \in S |->
                            [levels EXCEPT ![order[i]] = HighestLevel(Above(g, order[i], levels))]]]
  OBVIOUS
<1>6. ASSUME NEW i \in 1 .. n, NEW levels \in S
      PROVE  [levels EXCEPT ![order[i]] = HighestLevel(Above(g, order[i], levels))] \in S
  <2>1. HighestLevel(Above(g, order[i], levels)) \in Nat
    BY <1>2, AboveFinite, HighestLevelIs
  <2> QED
    BY <1>2, <1>4, <2>1
<1>7. step \in [1 .. n -> [S -> S]]
  BY <1>5, <1>6
<1>8. PICK f \in [0 .. n -> S] : f[0] = first /\ \A i \in 1 .. n : f[i] = step[i][f[i - 1]]
  <2>1. Iterations(S, n, first, step) # {}
    BY <1>4, <1>7, Iterated
  <2> QED
    BY <2>1 DEF Iterations
<1>9. \A i \in 1 .. n : /\ f[i - 1] \in S
                       /\ f[i] = [f[i - 1] EXCEPT ![order[i]] = HighestLevel(Above(g, order[i], f[i - 1]))]
  <2> SUFFICES ASSUME NEW i \in 1 .. n
               PROVE  /\ f[i - 1] \in S
                      /\ f[i] = [f[i - 1] EXCEPT ![order[i]] = HighestLevel(Above(g, order[i], f[i - 1]))]
    OBVIOUS
  <2>1. i - 1 \in 0 .. n
    BY <1>4
  <2>2. f[i - 1] \in S
    BY <2>1
  <2> QED
    BY <1>5, <1>8, <2>2
<1> DEFINE Level(h) == [i \in 0 .. Len(order) |->
                          IF i = 0 THEN [id \in Ids(g) |-> 0]
                          ELSE [h[i - 1] EXCEPT ![order[i]] =
                                   HighestLevel({h[i - 1][p] + 1 : p \in Providers(g, order[i])})]]
           Chosen == CHOOSE h : h = Level(h)
<1>10. f = Level(f)
  <2>1. \A i \in 0 .. n : i = 0 \/ i \in 1 .. n
    BY <1>4
  <2>2. \A i \in 0 .. n : f[i] = Level(f)[i]
    BY <1>1, <1>3, <1>8, <1>9, <2>1 DEF Above
  <2> QED
    BY <1>1, <2>2
<1>11. Chosen = Level(Chosen)
  BY <1>10
<1>12. environmentComponentStartupLevels(g, order) = Chosen[Len(order)]
  BY DEF environmentComponentStartupLevels
<1>13. \A i \in 0 .. n : Chosen[i] = f[i]
  <2> DEFINE Wrong == {i \in 0 .. n : Chosen[i] # f[i]}
  <2> SUFFICES ASSUME Wrong # {} PROVE FALSE
    OBVIOUS
  <2> HIDE DEF Chosen
  <2>1. PICK k \in Wrong : \A m \in Wrong : k <= m
    <3>1. Wrong \in SUBSET Nat
      OBVIOUS
    <3> QED
      BY <3>1, Least
  <2>2. Chosen[0] = first
    BY <1>1, <1>3, <1>4, <1>11
  <2>3. k # 0 /\ k \in 1 .. n /\ k - 1 \in 0 .. n
    BY <1>4, <1>8, <2>1, <2>2
  <2>4. Chosen[k - 1] = f[k - 1]
    BY <2>1, <2>3
  <2>5. Chosen[k] = [Chosen[k - 1] EXCEPT ![order[k]] = HighestLevel(Above(g, order[k], Chosen[k - 1]))]
    BY <1>1, <1>11, <2>3 DEF Above
  <2> QED
    BY <1>9, <2>1, <2>3, <2>4, <2>5
<1> HIDE DEF Chosen
<1>14. n \in 0 .. n /\ environmentComponentStartupLevels(g, order) = f[n]
  BY <1>1, <1>4, <1>12, <1>13
<1>15. LevelsInOrder(g, order, f)
  BY <1>1, <1>2, <1>8, <1>9, <1>14 DEF LevelsInOrder
<1> QED
  BY <1>15

\* A graph whose providers can all come first.
Plannable(g) == /\ g \in Graphs /\ ValidateEnvironmentComponentGraph(g)
                /\ SelfCycles(g) = {}

\* Whatever the order, a component's level is one above the highest of its providers'.
LEMMA LevelsFollow ==
    ASSUME NEW g, Plannable(g), NEW order \in BlockingOrders(g),
           NEW levels, levels = environmentComponentStartupLevels(g, order)
    PROVE  /\ levels \in [Ids(g) -> Nat]
           /\ \A id \in Ids(g) : levels[id] = HighestLevel(Above(g, id, levels))
<1>1. PICK n : n = Len(order)
  OBVIOUS
<1>2. /\ n \in Nat /\ \A i \in 1 .. n : order[i] \in Ids(g)
      /\ \A i, j \in 1 .. n : order[i] = order[j] => i = j
      /\ \A id \in Ids(g) : \E i \in 1 .. n : order[i] = id
  BY <1>1, OrderOfIds, GraphIds DEF Plannable
<1>a. PICK level : LevelsInOrder(g, order, level)
  BY LevelsOneByOne DEF Plannable
<1>3. /\ level \in [0 .. n -> [Ids(g) -> Nat]] /\ level[n] = levels
      /\ \A i \in 1 .. n :
            level[i] = [level[i - 1] EXCEPT ![order[i]] = HighestLevel(Above(g, order[i], level[i - 1]))]
  BY <1>1, <1>a DEF LevelsInOrder
<1>4. levels \in [Ids(g) -> Nat]
  BY <1>2, <1>3
\* A level that was assigned is kept.
<1>5. ASSUME NEW k \in 1 .. n PROVE \A i \in k .. n : level[i][order[k]] = level[k][order[k]]
  <2> DEFINE Wrong == {i \in k .. n : level[i][order[k]] # level[k][order[k]]}
  <2> SUFFICES ASSUME Wrong # {} PROVE FALSE
    OBVIOUS
  <2>1. PICK i \in Wrong : \A m \in Wrong : i <= m
    <3>1. Wrong \in SUBSET Nat
      BY <1>2
    <3> QED
      BY <3>1, Least
  <2>2. i # k /\ i \in 1 .. n /\ i - 1 \in k .. n /\ i - 1 \in 0 .. n /\ i - 1 < i
    BY <1>2, <2>1
  <2>3. level[i - 1][order[k]] = level[k][order[k]]
    BY <1>2, <2>1, <2>2
  <2>4. order[i] # order[k]
    BY <1>2, <2>2
  <2>5. level[i][order[k]] = level[i - 1][order[k]]
    <3>1. level[i - 1] \in [Ids(g) -> Nat] /\ order[k] \in Ids(g)
      BY <1>2, <1>3, <2>2
    <3> QED
      BY <1>3, <2>2, <2>4, <3>1
  <2> QED
    BY <2>1, <2>3, <2>5
<1>6. ASSUME NEW id \in Ids(g) PROVE levels[id] = HighestLevel(Above(g, id, levels))
  <2>1. PICK k \in 1 .. n : order[k] = id
    BY <1>2
  <2>2. k - 1 \in 0 .. n /\ n \in k .. n /\ level[k - 1] \in [Ids(g) -> Nat]
    BY <1>2, <1>3
  <2>3. levels[id] = HighestLevel(Above(g, id, level[k - 1]))
    <3>1. levels[id] = level[k][id]
      BY <1>3, <1>5, <2>1, <2>2
    <3> QED
      BY <1>3, <2>1, <2>2, <3>1
  <2>4. ASSUME NEW p \in Providers(g, id) PROVE p \in Ids(g) /\ level[k - 1][p] = levels[p]
    <3>1. PICK d \in Blocking(g) : d.consumer = id /\ d.provider = p
      BY DEF Providers
    <3>2. d \notin SelfCycles(g) /\ p \in Ids(g)
      BY <2>4, ProviderIds DEF Plannable
    <3>3. PICK j \in 1 .. n : order[j] = p
      BY <1>2, <3>2
    <3>4. j < k
      <4>1. DOMAIN order = 1 .. n
        BY <1>1, OrderOfIds DEF Plannable
      <4>2. IsBlockingOrder(g, order)
        BY DEF BlockingOrders
      <4> QED
        BY <2>1, <3>1, <3>2, <3>3, <4>1, <4>2 DEF IsBlockingOrder
    <3>5. k - 1 \in j .. n /\ n \in j .. n
      BY <1>2, <3>4
    <3> QED
      BY <1>3, <1>5, <3>2, <3>3, <3>5
  <2>5. Above(g, id, level[k - 1]) = Above(g, id, levels)
    BY <2>4 DEF Above
  <2> QED
    BY <2>3, <2>5
<1> QED
  BY <1>4, <1>6

-----------------------------------------------------------------------------
(* Startup batches.                                                        *)

Used(g, levels) == {levels[id] : id \in Ids(g)}

\* Levels that follow the providers leave no gap.
Follow(g, levels) ==
    /\ levels \in [Ids(g) -> Nat]
    /\ \A id \in Ids(g) :
          /\ \A p \in Providers(g, id) : levels[p] < levels[id]
          /\ levels[id] # 0 => \E p \in Providers(g, id) : levels[p] = levels[id] - 1

LEMMA LevelsDoFollow ==
    ASSUME NEW g, Plannable(g), NEW order \in BlockingOrders(g)
    PROVE  Follow(g, environmentComponentStartupLevels(g, order))
<1>1. PICK levels : levels = environmentComponentStartupLevels(g, order)
  OBVIOUS
<1>2. /\ levels \in [Ids(g) -> Nat]
      /\ \A id \in Ids(g) : levels[id] = HighestLevel(Above(g, id, levels))
  BY <1>1, LevelsFollow
<1>3. ASSUME NEW id \in Ids(g)
      PROVE  /\ \A p \in Providers(g, id) : levels[p] < levels[id]
             /\ levels[id] # 0 => \E p \in Providers(g, id) : levels[p] = levels[id] - 1
  <2>1. /\ levels[id] \in Nat
        /\ \A l \in Above(g, id, levels) : l <= levels[id]
        /\ levels[id] # 0 => levels[id] \in Above(g, id, levels)
    <3>1. Above(g, id, levels) \in SUBSET Nat /\ IsFiniteSet(Above(g, id, levels))
      BY <1>2, AboveFinite DEF Plannable
    <3> QED
      BY <1>2, <3>1, HighestLevelIs
  <2>2. \A p \in Providers(g, id) : levels[p] \in Nat
    BY <1>2, ProviderIds DEF Plannable
  <2>3. \A p \in Providers(g, id) : levels[p] + 1 <= levels[id]
    BY <2>1 DEF Above
  <2>4. levels[id] # 0 => \E p \in Providers(g, id) : levels[p] + 1 = levels[id]
    BY <2>1 DEF Above
  <2> QED
    BY <2>1, <2>2, <2>3, <2>4
<1> QED
  BY <1>1, <1>2, <1>3 DEF Follow

LEMMA NoGap ==
    ASSUME NEW g \in Graphs, ValidateEnvironmentComponentGraph(g), NEW levels, Follow(g, levels)
    PROVE  /\ IsFiniteSet(Used(g, levels)) /\ Used(g, levels) \in SUBSET Nat
           /\ \A l \in Used(g, levels) : \A m \in 0 .. l : m \in Used(g, levels)
<1>1. PICK used : used = Used(g, levels)
  OBVIOUS
<1>2. used \in SUBSET Nat /\ levels \in [Ids(g) -> Nat]
  BY <1>1 DEF Used, Follow
<1>3. IsFiniteSet(used)
  <2>1. levels \in Surjection(Ids(g), used)
    BY <1>1, <1>2 DEF Surjection, Used
  <2> QED
    BY <2>1, GraphIds, FS_Surjection
<1>4. \A l \in used : l # 0 => l - 1 \in used
  <2> SUFFICES ASSUME NEW l \in used, l # 0 PROVE l - 1 \in used
    OBVIOUS
  <2>1. PICK id \in Ids(g) : levels[id] = l
    BY <1>1 DEF Used
  <2>2. PICK p \in Providers(g, id) : levels[p] = l - 1
    BY <2>1 DEF Follow
  <2>3. p \in Ids(g)
    BY ProviderIds
  <2> QED
    BY <1>1, <2>2, <2>3 DEF Used
<1>5. ASSUME NEW l \in used PROVE \A m \in 0 .. l : m \in used
  <2> DEFINE Missing == {d \in 0 .. l : l - d \notin used}
  <2>1. l \in Nat
    BY <1>2
  <2>2. Missing = {}
    <3> SUFFICES ASSUME Missing # {} PROVE FALSE
      OBVIOUS
    <3>1. Missing \in SUBSET Nat
      OBVIOUS
    <3>2. PICK d \in Missing : \A e \in Missing : d <= e
      BY <3>1, Least
    <3>3. d # 0 /\ d - 1 \in 0 .. l /\ d - 1 < d /\ l - (d - 1) # 0 /\ (l - (d - 1)) - 1 = l - d
      BY <2>1, <3>2
    <3>4. l - (d - 1) \in used
      BY <3>2, <3>3
    <3> QED
      BY <1>4, <3>2, <3>3, <3>4
  <2>3. ASSUME NEW m \in 0 .. l PROVE m \in used
    <3>1. l - m \in 0 .. l /\ l - (l - m) = m
      BY <2>1
    <3> QED
      BY <2>2, <3>1
  <2> QED
    BY <2>3
<1> QED
  BY <1>1, <1>2, <1>3, <1>5

\* Batch number i holds the components of level i - 1.
LEMMA BatchesAreLevels ==
    ASSUME NEW g \in Graphs, ValidateEnvironmentComponentGraph(g), NEW levels, Follow(g, levels),
           NEW batches, batches = environmentComponentStartupBatches(g, levels)
    PROVE  \E n \in Nat :
              /\ DOMAIN batches = 1 .. n
              /\ \A id \in Ids(g) : levels[id] + 1 \in 1 .. n
              /\ \A i \in 1 .. n :
                    /\ batches[i].components = {id \in Ids(g) : levels[id] = i - 1}
                    /\ batches[i].waitFor = UNION {Providers(g, id) : id \in batches[i].components}
<1>1. PICK used : used = Used(g, levels)
  OBVIOUS
<1>2. /\ IsFiniteSet(used) /\ used \in SUBSET Nat
      /\ \A l \in used : \A m \in 0 .. l : m \in used
  BY <1>1, NoGap
<1>3. PICK n : n = Cardinality(used)
  OBVIOUS
<1>4. \A l \in used : Cardinality({m \in used : m < l}) = l
  <2> SUFFICES ASSUME NEW l \in used PROVE Cardinality({m \in used : m < l}) = l
    OBVIOUS
  <2>1. l \in Nat /\ {m \in used : m < l} = 0 .. l - 1
    <3>1. l \in Nat /\ \A m \in used : m \in Nat
      BY <1>2
    <3>2. \A m \in 0 .. l - 1 : m \in 0 .. l
      BY <3>1
    <3>3. \A m \in 0 .. l - 1 : m \in used /\ m < l
      BY <1>2, <3>1, <3>2
    <3>4. \A m \in used : m < l => m \in 0 .. l - 1
      BY <3>1
    <3> QED
      BY <3>1, <3>3, <3>4
  <2>2. Cardinality(0 .. l - 1) = l
    BY <2>1, FS_Interval
  <2> QED
    BY <2>1, <2>2
<1>5. /\ n \in Nat
      /\ \A i \in 1 .. n : \E l \in used : Cardinality({m \in used : m < l}) = i - 1
      /\ \A l \in used : Cardinality({m \in used : m < l}) + 1 \in 1 .. n
  BY <1>2, <1>3, RanksOfNumbers
<1> DEFINE Nth(i) == CHOOSE l \in used : Cardinality({m \in used : m < l}) = i - 1
<1>6. \A i \in 1 .. n : Nth(i) = i - 1
  BY <1>4, <1>5
<1>7. batches = [i \in 1 .. n |->
                    [components |-> {id \in Ids(g) : levels[id] = Nth(i)},
                     waitFor |-> UNION {Providers(g, id) : id \in {x \in Ids(g) : levels[x] = Nth(i)}}]]
  BY <1>1, <1>3 DEF environmentComponentStartupBatches, Used
<1>8. \A id \in Ids(g) : levels[id] + 1 \in 1 .. n
  BY <1>1, <1>4, <1>5 DEF Used
<1> HIDE DEF Nth
<1>9. \A i \in 1 .. n :
          /\ batches[i].components = {id \in Ids(g) : levels[id] = i - 1}
          /\ batches[i].waitFor = UNION {Providers(g, id) : id \in batches[i].components}
  BY <1>6, <1>7
<1>10. DOMAIN batches = 1 .. n
  BY <1>7
<1> QED
  BY <1>5, <1>8, <1>9, <1>10

-----------------------------------------------------------------------------
(* Replacing and reading.                                                  *)

PlanSet == {NoPlan} \cup UNION {StartupPlans(g) : g \in Graphs}

GraphRead == [pc : {"idle", "dependencies", "assets", "plan", "planned"}, graph : Graphs,
              plan : PlanSet, alone : BOOLEAN]

\* What a read that no replacement overlapped has read is still stored.
ReadFits(read) ==
    /\ read.pc = "planned" => read.plan \in StartupPlans(read.graph)
    /\ read.alone =>
          /\ read.pc # "idle" => read.graph.components = stored.components
          /\ read.pc \notin {"idle", "dependencies"} => read.graph.dependencies = stored.dependencies
          /\ read.pc \in {"plan", "planned"} => read.graph.assets = stored.assets

\* Ready, unless it outgrew the limit.
ReadyInLimit(g) == Bytes(g) <= MaxBytes => ReadinessOK(g)

GraphInv ==
    /\ stored \in Graphs /\ replaces \in 0 .. MaxReplaces
    /\ reads \in [Readers -> GraphRead]
    /\ \A r \in Readers : ReadFits(reads[r])
    /\ replaces > 0 => ReadyInLimit(stored)

LEMMA NoReadIs == NoRead \in GraphRead /\ NoRead.pc = "idle"
<1>1. EmptyGraph \in Graphs
  BY DEF EmptyGraph, Graphs
<1>2. NoPlan \in PlanSet
  BY DEF PlanSet
<1> HIDE DEF EmptyGraph, NoPlan, Graphs, PlanSet
<1> QED
  BY <1>1, <1>2 DEF NoRead, GraphRead

LEMMA GraphInitInv == GraphInit => GraphInv
<1> SUFFICES ASSUME GraphInit PROVE GraphInv
  OBVIOUS
<1>1. stored \in Graphs /\ reads = [r \in Readers |-> NoRead] /\ replaces = 0 /\ MaxReplaces \in Nat
  BY GraphConstants DEF GraphInit
<1>2. \A r \in Readers : ReadFits(reads[r])
  BY <1>1, NoReadIs DEF ReadFits
<1> QED
  BY <1>1, <1>2, NoReadIs DEF GraphInv

\* Filling in targets keeps a graph ready, as long as it is within the limit.
LEMMA TargetedReady ==
    ASSUME NEW file \in Graphs, ReadinessOK(file), ValidateEnvironmentComponentGraph(file),
           NEW g, g = [file EXCEPT !.assets = {Targeted(a) : a \in @}]
    PROVE  g \in Graphs /\ ReadyInLimit(g)
<1>1. /\ g.components = file.components /\ g.dependencies = file.dependencies
      /\ g.assets = {Targeted(a) : a \in file.assets} /\ file.assets \subseteq Assets
  BY DEF Graphs
<1>2. ASSUME NEW a \in file.assets
      PROVE  /\ Targeted(a) \in Assets /\ Targeted(a).owner = a.owner
             /\ Targeted(a).inline = a.inline /\ Targeted(a).source = a.source
             /\ Targeted(a).target = IF a.target = NoTarget THEN a.owner ELSE a.target
  <2>1. a \in Assets
    BY <1>1
  <2> QED
    BY <2>1 DEF Targeted, Assets
<1>3. g \in Graphs
  <2>1. g.assets \in SUBSET Assets
    BY <1>1, <1>2
  <2> QED
    BY <1>1, <2>1 DEF Graphs
<1>4. Ids(g) = Ids(file) /\ Blocking(g) = Blocking(file)
  BY <1>1 DEF Ids, Blocking
<1>5. SelfCycles(g) = SelfCycles(file) /\ BlockingOrders(g) = BlockingOrders(file)
  BY <1>4 DEF SelfCycles, BlockingOrders, IsBlockingOrder
<1>6. MissingHealthChecks(g) = MissingHealthChecks(file)
  BY <1>1 DEF MissingHealthChecks
<1>7. MissingRemoteAssetRefs(file) = {} => MissingRemoteAssetRefs(g) = {}
  BY <1>1, <1>2 DEF MissingRemoteAssetRefs
<1>8. Configured(g) => Configured(file)
  <2> SUFFICES ASSUME file = EmptyGraph PROVE g = EmptyGraph
    BY DEF Configured
  <2>1. g.assets = {}
    BY <1>1 DEF EmptyGraph
  <2> QED
    BY <1>1, <1>3, <2>1 DEF EmptyGraph, Graphs
<1>9. Bytes(g) <= MaxBytes => ValidateEnvironmentComponentGraph(g)
  BY <1>1, <1>2, <1>4 DEF ValidateEnvironmentComponentGraph
<1> QED
  BY <1>3, <1>5, <1>6, <1>7, <1>8, <1>9
     DEF ReadyInLimit, ReadinessOK, environmentComponentBlockingDependencyOrder

LEMMA GraphReplaces ==
    ASSUME GraphInv, NEW file \in GraphFiles, ReplaceEnvironmentComponentGraph(file)
    PROVE  GraphInv'
<1>1. /\ file \in Graphs /\ ReadinessOK(file) /\ ValidateEnvironmentComponentGraph(file)
      /\ replaces < MaxReplaces /\ replaces' = replaces + 1 /\ MaxReplaces \in Nat
      /\ stored' = [file EXCEPT !.assets = {Targeted(a) : a \in @}]
  BY GraphConstants DEF ReplaceEnvironmentComponentGraph, UncheckedReplace, WriteGraph
<1>2. stored' \in Graphs /\ ReadyInLimit(stored')
  BY <1>1, TargetedReady
<1>3. ASSUME NEW r \in Readers
      PROVE  /\ reads'[r] \in GraphRead
             /\ ReadFits(reads[r])'
  <2>1. reads[r] \in GraphRead /\ ReadFits(reads[r])
    BY DEF GraphInv
  <2>2. CASE reads[r].pc = "idle"
    <3>1. reads'[r] = reads[r]
      BY <2>2 DEF ReplaceEnvironmentComponentGraph, UncheckedReplace
    <3> QED
      BY <2>1, <2>2, <3>1 DEF ReadFits
  <2>3. CASE reads[r].pc # "idle"
    <3>1. reads'[r] = [reads[r] EXCEPT !.alone = FALSE]
      BY <2>3 DEF ReplaceEnvironmentComponentGraph, UncheckedReplace
    <3>2. /\ reads'[r] \in GraphRead /\ ~reads'[r].alone /\ reads'[r].pc = reads[r].pc
          /\ reads'[r].graph = reads[r].graph /\ reads'[r].plan = reads[r].plan
      BY <2>1, <3>1 DEF GraphRead
    <3> QED
      BY <2>1, <3>2 DEF ReadFits
  <2> QED
    BY <2>2, <2>3
<1>4. reads' \in [Readers -> GraphRead]
  BY <1>3 DEF ReplaceEnvironmentComponentGraph, UncheckedReplace
<1>5. replaces' \in 0 .. MaxReplaces
  BY <1>1 DEF GraphInv
<1>6. (ReadyInLimit(stored))'
  BY <1>2 DEF ReadyInLimit
<1> QED
  BY <1>2, <1>3, <1>4, <1>5, <1>6 DEF GraphInv

\* A step of a read.
LEMMA GraphContinues ==
    ASSUME GraphInv, NEW r \in Readers, NEW read \in GraphRead, ReadFits(read), Continue(r, read)
    PROVE  GraphInv'
<1>1. UNCHANGED <<stored, replaces>> /\ reads' = [reads EXCEPT ![r] = read]
  BY DEF Continue
<1>2. reads' \in [Readers -> GraphRead]
  BY <1>1 DEF GraphInv
<1>3. ASSUME NEW x \in Readers PROVE ReadFits(reads[x])'
  <2>1. reads[x] \in GraphRead /\ ReadFits(reads[x])
    BY DEF GraphInv
  <2>2. reads'[x] = IF x = r THEN read ELSE reads[x]
    BY <1>1 DEF GraphInv
  <2>3. ReadFits(reads'[x])
    BY <2>1, <2>2
  <2> QED
    BY <1>1, <2>3 DEF ReadFits
<1> QED
  BY <1>1, <1>2, <1>3 DEF GraphInv, ReadyInLimit

LEMMA GraphReads ==
    ASSUME GraphInv, NEW r \in Readers,
           ReadComponents(r) \/ ReadDependencies(r) \/ ReadAssets(r) \/ PlanStartup(r) \/ FinishRead(r)
    PROVE  GraphInv'
<1>1. /\ reads[r] \in GraphRead /\ ReadFits(reads[r]) /\ reads[r].graph \in Graphs
      /\ stored \in Graphs
  BY DEF GraphInv, GraphRead
<1>2. CASE ReadComponents(r)
  <2>1. PICK read : read = [NoRead EXCEPT !.pc = "dependencies", !.graph.components = stored.components]
    OBVIOUS
  <2>2. /\ read.pc = "dependencies" /\ read.graph = [EmptyGraph EXCEPT !.components = stored.components]
        /\ read.plan = NoPlan /\ read.alone = TRUE
        /\ read = [pc |-> "dependencies", graph |-> [EmptyGraph EXCEPT !.components = stored.components],
                   plan |-> NoPlan, alone |-> TRUE]
    BY <2>1 DEF NoRead
  <2>3. read.graph.components = stored.components /\ read.graph \in Graphs /\ NoPlan \in PlanSet
    BY <1>1, <2>2 DEF EmptyGraph, Graphs, PlanSet
  <2> HIDE DEF NoPlan, PlanSet
  <2>4. read \in GraphRead /\ ReadFits(read)
    BY <2>2, <2>3 DEF GraphRead, ReadFits
  <2> QED
    BY <1>2, <2>1, <2>4, GraphContinues DEF ReadComponents
<1>3. CASE ReadDependencies(r)
  <2>1. PICK read : read = [reads[r] EXCEPT !.pc = "assets", !.graph.dependencies = stored.dependencies]
    OBVIOUS
  <2>2. /\ read.pc = "assets" /\ read.graph = [reads[r].graph EXCEPT !.dependencies = stored.dependencies]
        /\ read.plan = reads[r].plan /\ read.alone = reads[r].alone /\ reads[r].plan \in PlanSet
        /\ read = [pc |-> "assets", graph |-> [reads[r].graph EXCEPT !.dependencies = stored.dependencies],
                   plan |-> reads[r].plan, alone |-> reads[r].alone]
    BY <1>1, <2>1 DEF GraphRead
  <2>3. /\ read.graph \in Graphs /\ read.graph.components = reads[r].graph.components
        /\ read.graph.dependencies = stored.dependencies
    BY <1>1, <2>2 DEF Graphs
  <2>4. read \in GraphRead /\ ReadFits(read)
    BY <1>1, <1>3, <2>2, <2>3 DEF GraphRead, ReadFits, ReadDependencies
  <2> QED
    BY <1>3, <2>1, <2>4, GraphContinues DEF ReadDependencies
<1>4. CASE ReadAssets(r)
  <2>1. PICK read : read = [reads[r] EXCEPT !.pc = "plan", !.graph.assets = stored.assets]
    OBVIOUS
  <2>2. /\ read.pc = "plan" /\ read.graph = [reads[r].graph EXCEPT !.assets = stored.assets]
        /\ read.plan = reads[r].plan /\ read.alone = reads[r].alone /\ reads[r].plan \in PlanSet
        /\ read = [pc |-> "plan", graph |-> [reads[r].graph EXCEPT !.assets = stored.assets],
                   plan |-> reads[r].plan, alone |-> reads[r].alone]
    BY <1>1, <2>1 DEF GraphRead
  <2>3. /\ read.graph \in Graphs /\ read.graph.components = reads[r].graph.components
        /\ read.graph.dependencies = reads[r].graph.dependencies
        /\ read.graph.assets = stored.assets
    BY <1>1, <2>2 DEF Graphs
  <2>4. read \in GraphRead /\ ReadFits(read)
    BY <1>1, <1>4, <2>2, <2>3 DEF GraphRead, ReadFits, ReadAssets
  <2> QED
    BY <1>4, <2>1, <2>4, GraphContinues DEF ReadAssets
<1>5. CASE PlanStartup(r)
  <2>1. PICK plan \in StartupPlans(reads[r].graph) :
            Continue(r, [reads[r] EXCEPT !.pc = "planned", !.plan = plan])
    BY <1>5 DEF PlanStartup
  <2>2. PICK read : read = [reads[r] EXCEPT !.pc = "planned", !.plan = plan]
    OBVIOUS
  <2>3. plan \in PlanSet /\ reads[r].pc = "plan"
    BY <1>1, <1>5 DEF PlanSet, PlanStartup
  <2>4. /\ read \in GraphRead /\ read.pc = "planned" /\ read.plan = plan
        /\ read.graph = reads[r].graph /\ read.alone = reads[r].alone
    BY <1>1, <2>2, <2>3 DEF GraphRead
  <2>5. ReadFits(read)
    BY <1>1, <2>3, <2>4 DEF ReadFits
  <2> QED
    BY <2>1, <2>2, <2>4, <2>5, GraphContinues
<1>6. CASE FinishRead(r)
  <2>1. ReadFits(NoRead)
    BY NoReadIs DEF ReadFits
  <2> QED
    BY <1>6, <2>1, NoReadIs, GraphContinues DEF FinishRead
<1> QED
  BY <1>2, <1>3, <1>4, <1>5, <1>6

LEMMA GraphNextInv == GraphInv /\ [GraphNext]_graphVars => GraphInv'
<1> SUFFICES ASSUME GraphInv, [GraphNext]_graphVars PROVE GraphInv'
  OBVIOUS
<1>1. CASE UNCHANGED graphVars
  BY <1>1 DEF graphVars, GraphInv, ReadFits, ReadyInLimit
<1>2. CASE GraphNext
  BY <1>2, GraphReplaces, GraphReads DEF GraphNext
<1> QED
  BY <1>1, <1>2

LEMMA GraphInvHolds == GraphSpec => []GraphInv
BY GraphInitInv, GraphNextInv, PTL DEF GraphSpec

-----------------------------------------------------------------------------
(* Plans.                                                                  *)

\* What a plan that is ok was made of.
LEMMA PlansFollow ==
    ASSUME NEW g \in Graphs, Configured(g), NEW plan \in StartupPlans(g), plan.ok
    PROVE  /\ ValidateEnvironmentComponentGraph(g)
           /\ \E levels : /\ Follow(g, levels)
                          /\ plan.batches = environmentComponentStartupBatches(g, levels)
<1>1. ReadinessOK(g)
  BY DEF StartupPlans, NoPlan
<1>2. PICK order \in BlockingOrders(g) :
          plan = [ok |-> TRUE,
                  batches |-> environmentComponentStartupBatches(
                                  g, environmentComponentStartupLevels(g, order)),
                  gates |-> environmentComponentStartupHealthGates(g)]
  BY <1>1 DEF StartupPlans
<1>3. Plannable(g)
  BY <1>1 DEF ReadinessOK, Plannable, environmentComponentBlockingDependencyOrder
<1> QED
  BY <1>2, <1>3, LevelsDoFollow DEF Plannable

LEMMA PlansStartProvidersEarlier ==
    ASSUME NEW g \in Graphs, NEW plan \in StartupPlans(g), plan.ok,
           NEW d \in Blocking(g), NEW j \in DOMAIN plan.batches,
           d.consumer \in plan.batches[j].components
    PROVE  /\ d.provider \in plan.batches[j].waitFor
           /\ \E i \in 1 .. j - 1 : d.provider \in plan.batches[i].components
<1>1. Configured(g)
  BY DEF Configured, EmptyGraph, Blocking
<1>2. PICK levels : Follow(g, levels) /\ plan.batches = environmentComponentStartupBatches(g, levels)
  BY <1>1, PlansFollow
<1>3. ValidateEnvironmentComponentGraph(g)
  BY <1>1, PlansFollow
<1>4. PICK n \in Nat :
          /\ DOMAIN plan.batches = 1 .. n
          /\ \A id \in Ids(g) : levels[id] + 1 \in 1 .. n
          /\ \A i \in 1 .. n :
                /\ plan.batches[i].components = {id \in Ids(g) : levels[id] = i - 1}
                /\ plan.batches[i].waitFor =
                       UNION {Providers(g, id) : id \in plan.batches[i].components}
  BY <1>2, <1>3, BatchesAreLevels
<1>5. d.provider \in Providers(g, d.consumer) /\ d.provider \in Ids(g)
  <2>1. d.provider \in Providers(g, d.consumer)
    BY DEF Providers
  <2> QED
    BY <1>3, <2>1, ProviderIds
<1>6. levels[d.provider] \in Nat /\ levels[d.provider] < j - 1 /\ j \in 1 .. n
  <2>1. d.consumer \in Ids(g) /\ levels[d.consumer] = j - 1 /\ j \in 1 .. n
    BY <1>4
  <2>2. levels[d.provider] < levels[d.consumer] /\ levels[d.provider] \in Nat
    BY <1>2, <1>5, <2>1 DEF Follow
  <2> QED
    BY <2>1, <2>2
<1>7. PICK i : i = levels[d.provider] + 1
  OBVIOUS
<1>8. i \in 1 .. j - 1 /\ i \in 1 .. n /\ i - 1 = levels[d.provider]
  BY <1>6, <1>7
<1>9. d.provider \in plan.batches[i].components
  BY <1>4, <1>5, <1>8
<1> QED
  BY <1>4, <1>5, <1>8, <1>9

LEMMA PlansAreTight ==
    ASSUME NEW g \in Graphs, NEW plan \in StartupPlans(g), plan.ok
    PROVE  /\ \A id \in Ids(g) :
                 Cardinality({i \in DOMAIN plan.batches : id \in plan.batches[i].components}) = 1
           /\ \A i \in DOMAIN plan.batches : i > 1 =>
                 \A id \in plan.batches[i].components :
                     Providers(g, id) \cap plan.batches[i - 1].components # {}
<1>1. CASE ~Configured(g)
  <2>1. plan.batches = << >> /\ Ids(g) = {}
    BY <1>1 DEF StartupPlans, NoPlan, Configured, EmptyGraph, Ids
  <2> QED
    BY <2>1
<1>2. CASE Configured(g)
  <2>1. PICK levels : Follow(g, levels) /\ plan.batches = environmentComponentStartupBatches(g, levels)
    BY <1>2, PlansFollow
  <2>2. ValidateEnvironmentComponentGraph(g)
    BY <1>2, PlansFollow
  <2>3. PICK n \in Nat :
            /\ DOMAIN plan.batches = 1 .. n
            /\ \A id \in Ids(g) : levels[id] + 1 \in 1 .. n
            /\ \A i \in 1 .. n :
                  /\ plan.batches[i].components = {id \in Ids(g) : levels[id] = i - 1}
                  /\ plan.batches[i].waitFor =
                         UNION {Providers(g, id) : id \in plan.batches[i].components}
    BY <2>1, <2>2, BatchesAreLevels
  <2>4. ASSUME NEW id \in Ids(g)
        PROVE  Cardinality({i \in DOMAIN plan.batches : id \in plan.batches[i].components}) = 1
    <3>1. levels[id] \in Nat
      BY <2>1 DEF Follow
    <3>2. {i \in DOMAIN plan.batches : id \in plan.batches[i].components} = {levels[id] + 1}
      BY <2>3, <3>1
    <3> QED
      BY <3>2, FS_Singleton
  <2>5. ASSUME NEW i \in DOMAIN plan.batches, i > 1, NEW id \in plan.batches[i].components
        PROVE  Providers(g, id) \cap plan.batches[i - 1].components # {}
    <3>1. i \in 1 .. n /\ i - 1 \in 1 .. n /\ id \in Ids(g) /\ levels[id] = i - 1
      BY <2>3, <2>5
    <3>2. PICK p \in Providers(g, id) : levels[p] = levels[id] - 1
      BY <2>1, <3>1 DEF Follow
    <3>3. p \in Ids(g) /\ levels[p] = (i - 1) - 1
      BY <2>2, <3>1, <3>2, ProviderIds
    <3>4. p \in plan.batches[i - 1].components
      BY <2>3, <3>1, <3>3
    <3> QED
      BY <3>2, <3>4
  <2> QED
    BY <2>4, <2>5
<1> QED
  BY <1>1, <1>2

-----------------------------------------------------------------------------
\* What is stored and what readers hold keeps its types (GraphTypeOK).
THEOREM GraphsKeepTypes == GraphSpec => []GraphTypeOK
<1>1. GraphInv => GraphTypeOK
  <2> SUFFICES ASSUME GraphInv, NEW r \in Readers PROVE reads[r].plan.ok \in BOOLEAN
    BY DEF GraphInv, GraphRead, GraphTypeOK
  <2>1. reads[r].plan \in PlanSet
    BY DEF GraphInv, GraphRead
  <2>2. NoPlan.ok \in BOOLEAN /\ [NoPlan EXCEPT !.ok = TRUE].ok \in BOOLEAN
    BY DEF NoPlan
  <2>3. ASSUME NEW g \in Graphs, NEW plan \in StartupPlans(g) PROVE plan.ok \in BOOLEAN
    <3>1. \/ plan = NoPlan \/ plan = [NoPlan EXCEPT !.ok = TRUE]
          \/ \E batches, gates : plan = [ok |-> TRUE, batches |-> batches, gates |-> gates]
      BY <2>3 DEF StartupPlans
    <3>2. CASE \E batches, gates : plan = [ok |-> TRUE, batches |-> batches, gates |-> gates]
      <4>1. PICK batches : \E gates : plan = [ok |-> TRUE, batches |-> batches, gates |-> gates]
        BY <3>2
      <4>2. PICK gates : plan = [ok |-> TRUE, batches |-> batches, gates |-> gates]
        BY <4>1
      <4> QED
        BY <4>2
    <3> QED
      BY <2>2, <3>1, <3>2
  <2> QED
    BY <2>1, <2>2, <2>3 DEF PlanSet
<1> QED
  BY <1>1, GraphInvHolds, PTL

\* A plan never starts a component before, or together with, a provider it blocks on, whatever
\* mixture of two graphs its queries read and whichever order it took (ProvidersStartEarlier).
THEOREM PlansStartProviders == GraphSpec => []ProvidersStartEarlier
<1>1. GraphInv => ProvidersStartEarlier
  <2> SUFFICES ASSUME GraphInv, NEW r \in Readers, Planned(r)
               PROVE  \A d \in Blocking(reads[r].graph) : \A j \in DOMAIN reads[r].plan.batches :
                        d.consumer \in reads[r].plan.batches[j].components =>
                          /\ d.provider \in reads[r].plan.batches[j].waitFor
                          /\ \E i \in 1 .. j - 1 : d.provider \in reads[r].plan.batches[i].components
    BY DEF ProvidersStartEarlier
  <2>1. reads[r].graph \in Graphs /\ reads[r].plan \in StartupPlans(reads[r].graph) /\ reads[r].plan.ok
    BY DEF GraphInv, GraphRead, ReadFits, Planned
  <2> QED
    BY <2>1, PlansStartProvidersEarlier
<1> QED
  BY <1>1, GraphInvHolds, PTL

\* A plan starts each component once, and as early as its providers let it (BatchesAreTight).
THEOREM PlansStartEachOnce == GraphSpec => []BatchesAreTight
<1>1. GraphInv => BatchesAreTight
  <2> SUFFICES ASSUME GraphInv, NEW r \in Readers, Planned(r)
               PROVE  /\ \A id \in Ids(reads[r].graph) :
                           Cardinality({i \in DOMAIN reads[r].plan.batches :
                                          id \in reads[r].plan.batches[i].components}) = 1
                      /\ \A i \in DOMAIN reads[r].plan.batches : i > 1 =>
                           \A id \in reads[r].plan.batches[i].components :
                               Providers(reads[r].graph, id)
                                   \cap reads[r].plan.batches[i - 1].components # {}
    BY DEF BatchesAreTight
  <2>1. reads[r].graph \in Graphs /\ reads[r].plan \in StartupPlans(reads[r].graph) /\ reads[r].plan.ok
    BY DEF GraphInv, GraphRead, ReadFits, Planned
  <2> QED
    BY <2>1, PlansAreTight
<1> QED
  BY <1>1, GraphInvHolds, PTL

\* A read that no replacement overlaps plans the stored graph, and a replaced graph within the
\* limit is ready (LoneReadsPlanTheStore).
THEOREM LoneReadsSeeTheStore == GraphSpec => []LoneReadsPlanTheStore
<1>1. GraphInv => LoneReadsPlanTheStore
  <2> SUFFICES ASSUME GraphInv, NEW r \in Readers, reads[r].pc \in {"plan", "planned"}, reads[r].alone
               PROVE  /\ reads[r].graph = stored
                      /\ reads[r].pc = "planned" /\ replaces > 0 /\ Bytes(stored) <= MaxBytes =>
                            reads[r].plan.ok
    BY DEF LoneReadsPlanTheStore
  <2>1. reads[r].graph \in Graphs /\ stored \in Graphs /\ ReadFits(reads[r])
    BY DEF GraphInv, GraphRead
  <2>2. reads[r].graph = stored
    BY <2>1 DEF ReadFits, Graphs
  <2>3. ASSUME reads[r].pc = "planned", replaces > 0, Bytes(stored) <= MaxBytes
        PROVE  reads[r].plan.ok
    <3>1. ReadinessOK(stored) /\ reads[r].plan \in StartupPlans(stored)
      BY <2>1, <2>2, <2>3 DEF GraphInv, ReadFits, ReadyInLimit
    <3> QED
      BY <3>1 DEF StartupPlans, NoPlan
  <2> QED
    BY <2>2, <2>3
<1> QED
  BY <1>1, GraphInvHolds, PTL

-----------------------------------------------------------------------------
(* Trace topologies.                                                       *)

Built == {topology \in [trace : Traces, spans : Nat, edges : SUBSET (STRING \X STRING), complete : BOOLEAN] :
            topology.edges \subseteq ConfirmedEdges(TraceSpans[topology.trace])}

Truthful == {topology \in Built : topology.spans # 0}

TopologyRow == [run : Runs, step : CaseRuns, case : CaseRuns \cup {None}, topology : Truthful, at : Nat]

Collection ==
    [pc : {"idle", "find", "query", "saved", "failed"}, kind : {None, "own", "request"},
     run : Runs, step : CaseRuns \cup {None}, case : CaseRuns \cup {None}, trace : Traces \cup {None},
     id : GivenIds \cup {NoId}, left : SUBSET Traces, best : Built \cup {NoTopology},
     error : BOOLEAN, attempt : 0 .. MaxAttempts - 1]

Copying ==
    [pc : {"waiting"} \cup CaseRuns, left : SUBSET CaseRuns, rows : Seq(TopologyRow),
     shown : UNION {[R -> Truthful \cup {NoTopology}] : R \in SUBSET CaseRuns},
     foreign : SUBSET CaseRuns, failed : SUBSET CaseRuns]

\* A row of the run and step is there, or one was taken over.
HasTopology(run, step) ==
    \/ <<run, step>> \in moved
    \/ \E id \in DOMAIN topologies : topologies[id].run = run /\ topologies[id].step = step

IndexedInv ==
    /\ indexed \in [Traces -> SUBSET UNION {TraceSpans[t] : t \in Traces}]
    /\ \A t \in Traces : indexed[t] \subseteq TraceSpans[t]

\* Every row has a time of its own, before now.
RowsInv ==
    /\ now \in Nat \ {0} /\ moved \subseteq Runs \X CaseRuns
    /\ IsFiniteSet(DOMAIN topologies)
    /\ topologies \in [DOMAIN topologies -> TopologyRow]
    /\ \A id \in DOMAIN topologies : topologies[id].at \in 1 .. now - 1
    /\ \A x, y \in DOMAIN topologies : topologies[x].at = topologies[y].at => x = y

TasksInv ==
    /\ tasks \in [DOMAIN tasks -> {"passed", "failed", "skipped"}]
    /\ DOMAIN tasks \subseteq Runs \X CaseRuns
    /\ \A run \in Runs, step \in CaseRuns :
          <<run, step>> \in DOMAIN tasks /\ tasks[<<run, step>>] = "passed" => HasTopology(run, step)

\* A collector at work has a step; one that saved has a row to show for it.
CollectorsInv ==
    /\ collections \in 0 .. MaxCollections
    /\ collectors \in [Collectors -> Collection]
    /\ \A c \in Collectors :
          /\ collectors[c].pc # "idle" => collectors[c].step \in CaseRuns
          /\ collectors[c].pc = "saved" => HasTopology(collectors[c].run, collectors[c].step)

Copied(run) ==
    \/ run \in copier.failed \/ run \in copier.foreign \/ CopyId(run) \in GivenIds
    \/ /\ CopyId(run) \in DOMAIN topologies
       /\ topologies[CopyId(run)].topology = copier.shown[run]

\* The row that is still to be copied last is the one the evidence showed, if it is of the case.
CopierInv ==
    /\ copier \in Copying
    /\ copier.pc # "waiting" => copier.pc \in DOMAIN copier.shown
    /\ DOMAIN copier.shown \cap copier.left = {}
    /\ \A run \in DOMAIN copier.shown : copier.shown[run].spans > 0 =>
          IF copier.pc = run /\ copier.rows # << >>
          THEN \/ copier.rows[Len(copier.rows)].topology = copier.shown[run]
               \/ run \in copier.foreign
          ELSE Copied(run)

TraceInv == IndexedInv /\ RowsInv /\ TasksInv /\ CollectorsInv /\ CopierInv

-----------------------------------------------------------------------------
\* What is built from indexed spans of one trace is true of it.
LEMMA BuiltIsTrue ==
    ASSUME NEW t \in Traces, NEW spans \in SUBSET TraceSpans[t]
    PROVE  buildTraceTopology(t, spans) \in Built
<1>1. IsFiniteSet(TraceSpans[t]) /\ \A s \in TraceSpans[t] : s.service \in STRING
  BY TraceConstants
<1>2. Cardinality(spans) \in Nat
  BY <1>1, FS_Subset, FS_CardinalityType
<1>3. ConfirmedEdges(spans) \in SUBSET (STRING \X STRING)
  <2> SUFFICES ASSUME NEW edge \in ConfirmedEdges(spans) PROVE edge \in STRING \X STRING
    OBVIOUS
  <2>1. PICK pair \in spans \X spans : edge = <<pair[1].service, pair[2].service>>
    BY DEF ConfirmedEdges
  <2>2. pair[1] \in TraceSpans[t] /\ pair[2] \in TraceSpans[t]
    OBVIOUS
  <2> QED
    BY <1>1, <2>1, <2>2
<1>4. ConfirmedEdges(spans) \subseteq ConfirmedEdges(TraceSpans[t])
  BY DEF ConfirmedEdges
<1>5. PICK ok \in BOOLEAN : ok <=> (ConfirmedEdges(spans) # {} /\ UnresolvedExits(spans) = {})
  OBVIOUS
<1>6. (ConfirmedEdges(spans) # {} /\ UnresolvedExits(spans) = {}) \in BOOLEAN
  OBVIOUS
<1>7. PICK topology : topology = buildTraceTopology(t, spans)
  OBVIOUS
<1>8. /\ topology \in [trace : Traces, spans : Nat, edges : SUBSET (STRING \X STRING), complete : BOOLEAN]
      /\ topology.trace = t /\ topology.edges = ConfirmedEdges(spans)
  BY <1>2, <1>3, <1>6, <1>7 DEF buildTraceTopology
<1> QED
  BY <1>4, <1>7, <1>8 DEF Built

LEMMA NoTopologyIsEmpty ==
    NoTopology.spans = 0 /\ ~(NoTopology.spans > 0)
BY DEF NoTopology

\* A save keeps every run and step a row, and all other rows as they were.
LEMMA Saving ==
    ASSUME RowsInv, NEW id, NEW run \in Runs, NEW step \in CaseRuns,
           NEW case \in CaseRuns \cup {None}, NEW topology \in Truthful,
           SaveTraceTopology(id, run, step, case, topology)
    PROVE  /\ RowsInv'
           /\ HasTopology(run, step)'
           /\ \A r \in Runs, s \in CaseRuns : HasTopology(r, s) => HasTopology(r, s)'
           /\ id \in DOMAIN topologies' /\ topologies'[id].topology = topology
           /\ \A x \in DOMAIN topologies : x # id =>
                 x \in DOMAIN topologies' /\ topologies'[x] = topologies[x]
<1>1. PICK row : row = [run |-> run, step |-> step, case |-> case, topology |-> topology, at |-> now]
  OBVIOUS
<1>2. /\ row \in TopologyRow /\ row.run = run /\ row.step = step
      /\ row.topology = topology /\ row.at = now
  BY <1>1 DEF RowsInv, TopologyRow
<1>3. /\ topologies' = Put(topologies, id, row) /\ now' = now + 1
      /\ moved' = moved \cup Took(id, run, step)
  BY <1>1 DEF SaveTraceTopology
<1>4. /\ DOMAIN topologies' = DOMAIN topologies \cup {id} /\ topologies'[id] = row
      /\ \A x \in DOMAIN topologies : x # id => topologies'[x] = topologies[x]
  BY <1>3 DEF Put
<1>5. RowsInv'
  <2>1. now' \in Nat \ {0}
    BY <1>3 DEF RowsInv
  <2>2. Took(id, run, step) \subseteq Runs \X CaseRuns
    <3>1. CASE id \in DOMAIN topologies
      <4>1. topologies[id] \in TopologyRow
        BY <3>1 DEF RowsInv
      <4> QED
        BY <4>1 DEF Took, TopologyRow
    <3>2. CASE id \notin DOMAIN topologies
      BY <3>2 DEF Took
    <3> QED
      BY <3>1, <3>2
  <2>3. moved' \subseteq Runs \X CaseRuns
    BY <1>3, <2>2 DEF RowsInv
  <2>4. IsFiniteSet(DOMAIN topologies')
    BY <1>4, FS_AddElement DEF RowsInv
  <2>5. topologies' \in [DOMAIN topologies' -> TopologyRow]
    BY <1>2, <1>3, <1>4 DEF RowsInv, Put
  <2>6. \A x \in DOMAIN topologies : topologies[x].at \in 1 .. now - 1
    BY DEF RowsInv
  <2>7. now \in Nat \ {0}
    BY DEF RowsInv
  <2>8. \A x \in DOMAIN topologies' : topologies'[x].at \in 1 .. now' - 1
    BY <1>2, <1>3, <1>4, <2>6, <2>7
  <2>9. \A x, y \in DOMAIN topologies' : topologies'[x].at = topologies'[y].at => x = y
    <3> SUFFICES ASSUME NEW x \in DOMAIN topologies', NEW y \in DOMAIN topologies',
                        topologies'[x].at = topologies'[y].at
                 PROVE  x = y
      OBVIOUS
    <3>1. CASE x # id /\ y # id
      BY <1>4, <3>1 DEF RowsInv
    <3>2. CASE x = id /\ y # id
      BY <1>2, <1>4, <2>6, <2>7, <3>2
    <3>3. CASE x # id /\ y = id
      BY <1>2, <1>4, <2>6, <2>7, <3>3
    <3> QED
      BY <3>1, <3>2, <3>3
  <2> QED
    BY <2>1, <2>3, <2>4, <2>5, <2>8, <2>9 DEF RowsInv
<1>6. HasTopology(run, step)'
  BY <1>2, <1>4 DEF HasTopology
<1>7. ASSUME NEW r \in Runs, NEW s \in CaseRuns, HasTopology(r, s) PROVE HasTopology(r, s)'
  <2>1. CASE <<r, s>> \in moved
    BY <1>3, <2>1 DEF HasTopology
  <2>2. CASE \E x \in DOMAIN topologies : topologies[x].run = r /\ topologies[x].step = s
    <3>1. PICK x \in DOMAIN topologies : topologies[x].run = r /\ topologies[x].step = s
      BY <2>2
    <3>2. CASE x # id
      BY <1>4, <3>1, <3>2 DEF HasTopology
    <3>3. CASE x = id /\ <<r, s>> = <<run, step>>
      BY <1>6, <3>3
    <3>4. CASE x = id /\ <<r, s>> # <<run, step>>
      <4>1. <<r, s>> \in Took(id, run, step)
        BY <3>1, <3>4 DEF Took
      <4> QED
        BY <1>3, <4>1 DEF HasTopology
    <3> QED
      BY <3>2, <3>3, <3>4
  <2> QED
    BY <1>7, <2>1, <2>2 DEF HasTopology
<1> QED
  BY <1>2, <1>4, <1>5, <1>6, <1>7

\* Where rows and taken rows stay, so does what runs and steps have.
LEMMA SameRows ==
    ASSUME UNCHANGED <<topologies, moved, now>>
    PROVE  /\ RowsInv => RowsInv'
           /\ \A r, s : HasTopology(r, s) => HasTopology(r, s)'
BY DEF RowsInv, HasTopology

\* One collector moves on.
LEMMA CollectorStep ==
    ASSUME CollectorsInv, NEW c \in Collectors, NEW collection \in Collection,
           Collects(c, collection), collections' \in 0 .. MaxCollections,
           collection.pc # "idle" => collection.step \in CaseRuns,
           collection.pc = "saved" => HasTopology(collection.run, collection.step)',
           \A r \in Runs, s \in CaseRuns : HasTopology(r, s) => HasTopology(r, s)'
    PROVE  CollectorsInv'
<1>1. collectors' = [collectors EXCEPT ![c] = collection] /\ collectors \in [Collectors -> Collection]
  BY DEF Collects, CollectorsInv
<1>2. /\ collectors' \in [Collectors -> Collection] /\ collectors'[c] = collection
      /\ \A d \in Collectors : d # c => collectors'[d] = collectors[d]
  BY <1>1
<1>3. \A d \in Collectors : collectors'[d].pc # "idle" => collectors'[d].step \in CaseRuns
  BY <1>2 DEF CollectorsInv
<1>4. ASSUME NEW d \in Collectors, collectors'[d].pc = "saved"
      PROVE  HasTopology(collectors[d].run, collectors[d].step)'
  <2>1. CASE d = c
    <3>1. HasTopology(collection.run, collection.step)'
      BY <1>2, <1>4, <2>1
    <3>2. collectors'[d] = collection
      BY <1>2, <2>1
    <3> QED
      BY <3>1, <3>2
  <2>2. CASE d # c
    <3>1. collectors'[d] = collectors[d] /\ collectors[d] \in Collection
      BY <1>1, <1>2, <2>2
    <3>2. PICK r \in Runs, s \in CaseRuns : r = collectors[d].run /\ s = collectors[d].step
      BY <1>4, <3>1 DEF CollectorsInv, Collection
    <3>3. HasTopology(r, s)
      BY <1>4, <3>1, <3>2 DEF CollectorsInv
    <3>4. HasTopology(r, s)'
      BY <3>3
    <3>5. collectors'[d].run = r /\ collectors'[d].step = s
      BY <3>1, <3>2
    <3> QED
      BY <3>4, <3>5
  <2> QED
    BY <2>1, <2>2
<1> QED
  BY <1>2, <1>3, <1>4 DEF CollectorsInv

LEMMA TasksStay ==
    ASSUME TasksInv, UNCHANGED tasks,
           \A r \in Runs, s \in CaseRuns : HasTopology(r, s) => HasTopology(r, s)'
    PROVE  TasksInv'
BY DEF TasksInv

LEMMA CopierStays ==
    ASSUME CopierInv, UNCHANGED <<copier, topologies>>
    PROVE  CopierInv'
BY DEF CopierInv, Copied

\* The steps that only move a collector.
LEMMA OnlyCollectors ==
    ASSUME TraceInv, NEW c \in Collectors, NEW collection \in Collection,
           Collects(c, collection), collections' \in 0 .. MaxCollections,
           collection.pc # "idle" => collection.step \in CaseRuns,
           collection.pc = "saved" => collectors[c].pc = "saved" /\ collection = collectors[c],
           UNCHANGED <<indexed, topologies, tasks, copier, now, moved>>
    PROVE  TraceInv'
<1>1. /\ RowsInv' /\ \A r, s : HasTopology(r, s) => HasTopology(r, s)'
  BY SameRows DEF TraceInv
<1>2. collection.pc = "saved" => HasTopology(collection.run, collection.step)'
  BY <1>1 DEF TraceInv, CollectorsInv
<1>3. CollectorsInv'
  BY <1>1, <1>2, CollectorStep DEF TraceInv
<1>4. TasksInv' /\ CopierInv'
  BY <1>1, TasksStay, CopierStays DEF TraceInv
<1>5. IndexedInv'
  BY DEF TraceInv, IndexedInv
<1> QED
  BY <1>1, <1>3, <1>4, <1>5 DEF TraceInv

-----------------------------------------------------------------------------
LEMMA Nothing ==
    /\ NoCollection \in Collection /\ NoCollection.pc = "idle"
    /\ NoTopology \in Built \cup {NoTopology}
<1>1. MaxAttempts \in Nat \ {0}
  BY TraceConstants
<1>2. 0 \in 0 .. MaxAttempts - 1
  BY <1>1
<1> QED
  BY <1>2 DEF NoCollection, Collection, Runs

LEMMA AtWork ==
    ASSUME TraceInv, NEW c \in Collectors, collectors[c].pc # "idle"
    PROVE  /\ collectors[c] \in Collection /\ collectors[c].step \in CaseRuns
           /\ collectors[c].run \in Runs
BY DEF TraceInv, CollectorsInv, Collection

LEMMA CollectedKeeps ==
    ASSUME TraceInv, NEW c \in Collectors, collectors[c].pc # "idle", NEW pc \in {"saved", "failed"}
    PROVE  /\ Collected(c, pc) \in Collection /\ Collected(c, pc).pc = pc
           /\ Collected(c, pc).run = collectors[c].run
           /\ Collected(c, pc).step = collectors[c].step
<1>1. NoCollection \in Collection /\ collectors[c] \in Collection
  BY Nothing, AtWork
<1>2. PICK kind \in {None, "own", "request"}, run \in Runs, step \in CaseRuns \cup {None},
           case \in CaseRuns \cup {None} :
         /\ kind = collectors[c].kind /\ run = collectors[c].run
         /\ step = collectors[c].step /\ case = collectors[c].case
  BY <1>1 DEF Collection
<1>3. PICK collection : collection = [NoCollection EXCEPT !.pc = pc, !.kind = kind, !.run = run,
                                                          !.step = step, !.case = case]
  OBVIOUS
<1>4. collection \in Collection /\ collection.pc = pc /\ collection.run = run /\ collection.step = step
  BY <1>1, <1>3 DEF Collection
<1> QED
  BY <1>2, <1>3, <1>4 DEF Collected

LEMMA RetryKeeps ==
    ASSUME TraceInv, NEW c \in Collectors, collectors[c].pc # "idle"
    PROVE  /\ retryableTraceCollectError(c) \in Collection
           /\ retryableTraceCollectError(c).pc # "saved"
           /\ retryableTraceCollectError(c).step = collectors[c].step
<1>1. collectors[c] \in Collection
  BY AtWork
<1>2. MaxAttempts \in Nat \ {0} /\ collectors[c].attempt \in 0 .. MaxAttempts - 1
  BY <1>1, TraceConstants DEF Collection
<1>3. CASE collectors[c].kind = "request" \/ collectors[c].attempt + 1 >= MaxAttempts
  <2>1. retryableTraceCollectError(c) = Collected(c, "failed")
    BY <1>3 DEF retryableTraceCollectError, FailCollection
  <2> QED
    BY <2>1, CollectedKeeps
<1>4. CASE ~(collectors[c].kind = "request" \/ collectors[c].attempt + 1 >= MaxAttempts)
  <2>1. PICK attempt : attempt = collectors[c].attempt + 1
    OBVIOUS
  <2>2. attempt \in 0 .. MaxAttempts - 1
    BY <1>2, <1>4, <2>1
  <2>3. PICK collection : collection = [collectors[c] EXCEPT !.pc = "find", !.attempt = attempt,
                                            !.best = NoTopology, !.error = FALSE]
    OBVIOUS
  <2>4. retryableTraceCollectError(c) = collection
    BY <1>4, <2>1, <2>3 DEF retryableTraceCollectError
  <2>5. collection \in Collection /\ collection.pc = "find" /\ collection.step = collectors[c].step
    BY <1>1, <2>2, <2>3 DEF Collection
  <2> QED
    BY <2>4, <2>5
<1> QED
  BY <1>3, <1>4

LEMMA BetterKeeps ==
    ASSUME NEW best \in Built \cup {NoTopology}, NEW candidate \in Built
    PROVE  Better(best, candidate) \in Built \cup {NoTopology}
BY DEF Better

\* Starting.
LEMMA CollectionBegins ==
    ASSUME TraceInv, NEW c \in Collectors, NEW collection \in Collection,
           collection.step \in CaseRuns, collection.pc # "saved", BeginCollection(c, collection)
    PROVE  TraceInv'
<1>1. collections' \in 0 .. MaxCollections
  BY TraceConstants DEF BeginCollection, TraceInv, CollectorsInv
<1> QED
  BY <1>1, OnlyCollectors DEF BeginCollection

LEMMA OwnBegins ==
    ASSUME TraceInv, NEW c \in Collectors, collectAndRecordTestKitTraceTopology(c)
    PROVE  TraceInv'
<1>1. PICK run \in CaseRuns :
        BeginCollection(c, [NoCollection EXCEPT !.pc = "find", !.kind = "own", !.run = run,
                                             !.step = run, !.case = run])
  BY DEF collectAndRecordTestKitTraceTopology
<1>2. PICK collection : collection = [NoCollection EXCEPT !.pc = "find", !.kind = "own", !.run = run,
                                             !.step = run, !.case = run]
  OBVIOUS
<1>3. NoCollection \in Collection /\ run \in Runs
  BY Nothing DEF Runs
<1>4. collection \in Collection /\ collection.step = run /\ collection.pc = "find"
  BY <1>2, <1>3 DEF Collection
<1> QED
  BY <1>1, <1>2, <1>4, CollectionBegins

LEMMA RequestBegins ==
    ASSUME TraceInv, NEW c \in Collectors, CollectTraceTopologyPayload(c)
    PROVE  TraceInv'
<1>1. PICK run \in Runs, step \in CaseRuns, trace \in Traces \cup {None}, id \in GivenIds \cup {NoId},
           case \in CaseRuns \cup {None} :
        BeginCollection(c, [NoCollection EXCEPT !.pc = IF trace = None THEN "find" ELSE "query",
                     !.kind = "request", !.run = run, !.step = step, !.case = case,
                     !.trace = trace, !.id = id, !.left = {trace} \ {None}])
  BY DEF CollectTraceTopologyPayload, GivenCases
<1>2. PICK pc \in {"find", "query"} : pc = (IF trace = None THEN "find" ELSE "query")
  OBVIOUS
<1>3. PICK left \in SUBSET Traces : left = {trace} \ {None}
  OBVIOUS
<1>4. PICK collection : collection = [NoCollection EXCEPT !.pc = pc,
                     !.kind = "request", !.run = run, !.step = step, !.case = case,
                     !.trace = trace, !.id = id, !.left = left]
  OBVIOUS
<1>5. NoCollection \in Collection
  BY Nothing
<1>6. collection \in Collection /\ collection.step = step /\ collection.pc = pc
  BY <1>4, <1>5 DEF Collection
<1>7. BeginCollection(c, collection)
  BY <1>1, <1>2, <1>3, <1>4
<1> QED
  BY <1>6, <1>7, CollectionBegins

LEMMA SkippedBegins ==
    ASSUME TraceInv, NEW c \in Collectors, recordSkippedTestKitTraceTopologyTask(c)
    PROVE  TraceInv'
<1>1. PICK run \in CaseRuns : recordPostProcessTask(run, run, "skipped")
  BY DEF recordSkippedTestKitTraceTopologyTask
<1>2. UNCHANGED <<indexed, topologies, collectors, copier, now, moved>>
  BY DEF recordSkippedTestKitTraceTopologyTask
<1>3. collections' \in 0 .. MaxCollections
  BY TraceConstants DEF recordSkippedTestKitTraceTopologyTask, TraceInv, CollectorsInv
<1>4. /\ RowsInv' /\ \A r, s : HasTopology(r, s) => HasTopology(r, s)'
  BY <1>2, SameRows DEF TraceInv
<1>5. CollectorsInv'
  BY <1>2, <1>3, <1>4 DEF TraceInv, CollectorsInv, HasTopology
<1>6. TasksInv'
  <2>1. run \in Runs
    BY DEF Runs
  <2> QED
    BY <1>1, <1>4, <2>1 DEF TraceInv, TasksInv, recordPostProcessTask, Put
<1> QED
  BY <1>2, <1>4, <1>5, <1>6, CopierStays DEF TraceInv, IndexedInv

-----------------------------------------------------------------------------
\* One attempt.
LEMMA CollectionFails ==
    ASSUME TraceInv, NEW c \in Collectors, collectors[c].pc # "idle", Collects(c, FailCollection(c)),
           UNCHANGED <<indexed, topologies, tasks, copier, collections, now, moved>>
    PROVE  TraceInv'
<1>1. PICK collection : collection = FailCollection(c)
  OBVIOUS
<1>2. collection \in Collection /\ collection.pc = "failed" /\ collection.step \in CaseRuns
  BY <1>1, CollectedKeeps, AtWork DEF FailCollection
<1>3. collections' \in 0 .. MaxCollections
  BY DEF TraceInv, CollectorsInv
<1> QED
  BY <1>1, <1>2, <1>3, OnlyCollectors

LEMMA Retries ==
    ASSUME TraceInv, NEW c \in Collectors, collectors[c].pc # "idle",
           Collects(c, retryableTraceCollectError(c)),
           UNCHANGED <<indexed, topologies, tasks, copier, collections, now, moved>>
    PROVE  TraceInv'
<1>1. PICK collection : collection = retryableTraceCollectError(c)
  OBVIOUS
<1>2. collection \in Collection /\ collection.pc # "saved" /\ collection.step \in CaseRuns
  BY <1>1, RetryKeeps, AtWork
<1>3. collections' \in 0 .. MaxCollections
  BY DEF TraceInv, CollectorsInv
<1> QED
  BY <1>1, <1>2, <1>3, OnlyCollectors

LEMMA Finds ==
    ASSUME TraceInv, NEW c \in Collectors, FindCandidates(c)
    PROVE  TraceInv'
<1>1. PICK candidates \in SUBSET Traces : candidates = {t \in Traces : indexed[t] # {}}
  OBVIOUS
<1>2. /\ collectors[c].pc = "find" /\ collectors[c].pc # "idle"
      /\ UNCHANGED <<indexed, topologies, tasks, copier, collections, now, moved>>
  BY DEF FindCandidates
<1>3. \/ Collects(c, IF candidates = {} THEN retryableTraceCollectError(c)
                     ELSE [collectors[c] EXCEPT !.pc = "query", !.left = candidates])
      \/ Collects(c, FailCollection(c))
  BY <1>1 DEF FindCandidates
<1>4. CASE Collects(c, FailCollection(c))
  BY <1>2, <1>4, CollectionFails
<1>5. CASE Collects(c, retryableTraceCollectError(c))
  BY <1>2, <1>5, Retries
<1>6. CASE Collects(c, [collectors[c] EXCEPT !.pc = "query", !.left = candidates])
  <2>1. PICK collection : collection = [collectors[c] EXCEPT !.pc = "query", !.left = candidates]
    OBVIOUS
  <2>2. collectors[c] \in Collection /\ collectors[c].step \in CaseRuns
    BY <1>2, AtWork
  <2>3. collection \in Collection /\ collection.pc = "query" /\ collection.step \in CaseRuns
    BY <2>1, <2>2 DEF Collection
  <2>4. collections' \in 0 .. MaxCollections
    BY <1>2 DEF TraceInv, CollectorsInv
  <2> QED
    BY <1>2, <1>6, <2>1, <2>3, <2>4, OnlyCollectors
<1> QED
  BY <1>3, <1>4, <1>5, <1>6

LEMMA Queries ==
    ASSUME TraceInv, NEW c \in Collectors, QueryTrace(c)
    PROVE  TraceInv'
<1>1. /\ collectors[c].pc = "query" /\ collectors[c].pc # "idle"
      /\ UNCHANGED <<indexed, topologies, tasks, copier, collections, now, moved>>
  BY DEF QueryTrace
<1>2. PICK t \in collectors[c].left :
          \/ Collects(c, [collectors[c] EXCEPT !.left = @ \ {t},
                             !.best = Better(@, buildTraceTopology(t, indexed[t]))])
          \/ Collects(c, [collectors[c] EXCEPT !.left = @ \ {t}, !.error = TRUE])
  BY DEF QueryTrace
<1>3. collectors[c] \in Collection /\ collectors[c].step \in CaseRuns
  BY <1>1, AtWork
<1>4. /\ collectors[c].left \in SUBSET Traces /\ collectors[c].best \in Built \cup {NoTopology}
      /\ t \in Traces
  BY <1>3 DEF Collection
<1>5. PICK left \in SUBSET Traces : left = collectors[c].left \ {t}
  BY <1>4
<1>6. indexed[t] \in SUBSET TraceSpans[t]
  BY <1>4 DEF TraceInv, IndexedInv
<1>7. PICK best \in Built \cup {NoTopology} :
         best = Better(collectors[c].best, buildTraceTopology(t, indexed[t]))
  BY <1>4, <1>6, BuiltIsTrue, BetterKeeps
<1>8. PICK collection :
         /\ \/ collection = [collectors[c] EXCEPT !.left = left, !.best = best]
            \/ collection = [collectors[c] EXCEPT !.left = left, !.error = TRUE]
         /\ Collects(c, collection)
  BY <1>2, <1>3, <1>5, <1>7 DEF Collection
<1>9. collection \in Collection /\ collection.pc = "query" /\ collection.step \in CaseRuns
  <2>1. CASE collection = [collectors[c] EXCEPT !.left = left, !.best = best]
    BY <1>1, <1>3, <2>1 DEF Collection
  <2>2. CASE collection = [collectors[c] EXCEPT !.left = left, !.error = TRUE]
    BY <1>1, <1>3, <2>2 DEF Collection
  <2> QED
    BY <1>8, <2>1, <2>2
<1>10. collections' \in 0 .. MaxCollections
  BY <1>1 DEF TraceInv, CollectorsInv
<1> QED
  BY <1>1, <1>8, <1>9, <1>10, OnlyCollectors

LEMMA TimesOut ==
    ASSUME TraceInv, NEW c \in Collectors, CollectionTimesOut(c)
    PROVE  TraceInv'
BY CollectionFails DEF CollectionTimesOut

LEMMA Killed ==
    ASSUME TraceInv, NEW c \in Collectors, KillCollector(c)
    PROVE  TraceInv'
<1>1. NoCollection \in Collection /\ NoCollection.pc = "idle"
  BY Nothing
<1>2. collections' \in 0 .. MaxCollections
  BY DEF KillCollector, TraceInv, CollectorsInv
<1> QED
  BY <1>1, <1>2, OnlyCollectors DEF KillCollector

-----------------------------------------------------------------------------
\* A row that collection names is the row of the batch only where users may name that.
LEMMA OtherRow ==
    ASSUME NEW collection \in Collection, NEW run
    PROVE  traceTopologyRowID(collection) # CopyId(run) \/ CopyId(run) \in GivenIds
<1>1. CASE collection.id # NoId
  BY <1>1 DEF traceTopologyRowID, Collection
<1>2. CASE collection.id = NoId
  <2>1. PICK id : id = <<collection.run, collection.step, collection.best.trace>>
    OBVIOUS
  <2>2. Len(id) = 3 /\ Len(CopyId(run)) = 4
    BY <2>1 DEF CopyId
  <2> QED
    BY <1>2, <2>1, <2>2 DEF traceTopologyRowID
<1> QED
  BY <1>1, <1>2

LEMMA Saves ==
    ASSUME TraceInv, NEW c \in Collectors, saveCollectedTraceTopology(c)
    PROVE  TraceInv'
<1>1. PICK collection : collection = collectors[c]
  OBVIOUS
<1>2. PICK id : id = traceTopologyRowID(collection)
  OBVIOUS
<1>3. /\ collection.pc = "query" /\ collectors[c].pc # "idle"
      /\ UNCHANGED <<indexed, tasks, copier, collections>>
      /\ \/ /\ collection.best.spans > 0
            /\ SaveTraceTopology(id, collection.run, collection.step, collection.case, collection.best)
            /\ Collects(c, Collected(c, "saved"))
         \/ /\ Collects(c, retryableTraceCollectError(c))
            /\ UNCHANGED <<topologies, now, moved>>
         \/ /\ Collects(c, FailCollection(c))
            /\ UNCHANGED <<topologies, now, moved>>
  BY <1>1, <1>2 DEF saveCollectedTraceTopology
<1>4. CASE /\ collection.best.spans > 0
           /\ SaveTraceTopology(id, collection.run, collection.step, collection.case, collection.best)
           /\ Collects(c, Collected(c, "saved"))
  <2>1. collection \in Collection /\ collection.step \in CaseRuns /\ collection.run \in Runs
    BY <1>1, <1>3, AtWork
  <2>2. PICK best : best = collection.best
    OBVIOUS
  <2>3. best \in Truthful
    <3>1. best \in Built \cup {NoTopology} /\ best # NoTopology
      BY <1>4, <2>1, <2>2, NoTopologyIsEmpty DEF Collection
    <3>2. best \in Built /\ best.spans \in Nat /\ best.spans > 0
      BY <1>4, <2>2, <3>1 DEF Built
    <3>3. best.spans # 0
      BY <3>2
    <3> QED
      BY <3>2, <3>3 DEF Truthful
  <2>4. SaveTraceTopology(id, collection.run, collection.step, collection.case, best)
    BY <1>4, <2>2
  <2>5. PICK run \in Runs, step \in CaseRuns, case \in CaseRuns \cup {None} :
           run = collection.run /\ step = collection.step /\ case = collection.case
    BY <2>1 DEF Collection
  <2>6. SaveTraceTopology(id, run, step, case, best) /\ RowsInv
    BY <2>4, <2>5 DEF TraceInv
  <2>7. /\ RowsInv' /\ HasTopology(run, step)'
        /\ \A r \in Runs, s \in CaseRuns : HasTopology(r, s) => HasTopology(r, s)'
        /\ \A x \in DOMAIN topologies : x # id =>
              x \in DOMAIN topologies' /\ topologies'[x] = topologies[x]
    BY <2>3, <2>6, Saving
  <2>8. CollectorsInv'
    <3>1. PICK next : next = Collected(c, "saved")
      OBVIOUS
    <3>2. next \in Collection /\ next.run = run /\ next.step = step
      BY <1>1, <1>3, <2>5, <3>1, CollectedKeeps
    <3>3. collections' \in 0 .. MaxCollections
      BY <1>3 DEF TraceInv, CollectorsInv
    <3>4. Collects(c, next)
      BY <1>4, <3>1
    <3>5. HasTopology(next.run, next.step)'
      BY <2>7, <3>2
    <3> QED
      BY <2>7, <3>2, <3>3, <3>4, <3>5, CollectorStep DEF TraceInv
  <2>9. TasksInv'
    BY <1>3, <2>7, TasksStay DEF TraceInv
  <2>10. CopierInv'
    <3>1. ASSUME NEW r \in DOMAIN copier.shown, Copied(r) PROVE Copied(r)'
      <4>1. CASE CopyId(r) # id
        BY <1>3, <2>7, <3>1, <4>1 DEF Copied
      <4>2. CASE CopyId(r) = id
        BY <1>2, <2>1, <4>2, OtherRow DEF Copied
      <4> QED
        BY <4>1, <4>2
    <3> QED
      BY <1>3, <3>1 DEF TraceInv, CopierInv
  <2> QED
    BY <1>3, <2>7, <2>8, <2>9, <2>10 DEF TraceInv, IndexedInv
<1>5. CASE Collects(c, retryableTraceCollectError(c)) /\ UNCHANGED <<topologies, now, moved>>
  BY <1>3, <1>5, Retries
<1>6. CASE Collects(c, FailCollection(c)) /\ UNCHANGED <<topologies, now, moved>>
  BY <1>3, <1>6, CollectionFails
<1> QED
  BY <1>3, <1>4, <1>5, <1>6

LEMMA RecordsTask ==
    ASSUME TraceInv, NEW c \in Collectors, recordTestKitTraceTopologyTask(c)
    PROVE  TraceInv'
<1>1. /\ collectors[c].pc \in {"saved", "failed"} /\ Collects(c, NoCollection)
      /\ UNCHANGED <<indexed, topologies, copier, collections, now, moved>>
  BY DEF recordTestKitTraceTopologyTask
<1>2. PICK status \in {"passed", "failed"} :
         status = IF collectors[c].pc = "saved" THEN "passed" ELSE "failed"
  OBVIOUS
<1>3. PICK run \in Runs, step \in CaseRuns : run = collectors[c].run /\ step = collectors[c].step
  BY <1>1, AtWork
<1>4. recordPostProcessTask(run, step, status) \/ UNCHANGED tasks
  BY <1>2, <1>3 DEF recordTestKitTraceTopologyTask
<1>5. status = "passed" => HasTopology(run, step)
  BY <1>1, <1>2, <1>3 DEF TraceInv, CollectorsInv
<1>6. /\ RowsInv' /\ \A r, s : HasTopology(r, s) => HasTopology(r, s)'
  BY <1>1, SameRows DEF TraceInv
<1>7. TasksInv'
  <2>1. CASE UNCHANGED tasks
    BY <1>6, <2>1, TasksStay DEF TraceInv
  <2>2. CASE recordPostProcessTask(run, step, status)
    <3>1. tasks' = [k \in DOMAIN tasks \cup {<<run, step>>} |->
                       IF k = <<run, step>> THEN status ELSE tasks[k]]
      BY <2>2 DEF recordPostProcessTask, Put
    <3>2. tasks' \in [DOMAIN tasks' -> {"passed", "failed", "skipped"}]
      BY <3>1 DEF TraceInv, TasksInv
    <3>3. DOMAIN tasks' \subseteq Runs \X CaseRuns
      BY <3>1 DEF TraceInv, TasksInv
    <3>4. ASSUME NEW r \in Runs, NEW s \in CaseRuns, <<r, s>> \in DOMAIN tasks',
                 tasks'[<<r, s>>] = "passed"
          PROVE  HasTopology(r, s)'
      <4>1. CASE <<r, s>> = <<run, step>>
        <5>1. r = run /\ s = step /\ status = "passed"
          BY <3>1, <3>4, <4>1
        <5>2. HasTopology(run, step)'
          BY <1>5, <1>6, <5>1
        <5> QED
          BY <5>1, <5>2
      <4>2. CASE <<r, s>> # <<run, step>>
        <5>1. <<r, s>> \in DOMAIN tasks /\ tasks[<<r, s>>] = "passed"
          BY <3>1, <3>4, <4>2
        <5> QED
          BY <1>6, <5>1 DEF TraceInv, TasksInv
      <4> QED
        BY <4>1, <4>2
    <3> QED
      BY <3>2, <3>3, <3>4 DEF TasksInv
  <2> QED
    BY <1>4, <2>1, <2>2
<1>8. CollectorsInv'
  <2>1. NoCollection \in Collection /\ NoCollection.pc = "idle"
    BY Nothing
  <2>2. collections' \in 0 .. MaxCollections
    BY <1>1 DEF TraceInv, CollectorsInv
  <2> QED
    BY <1>1, <1>6, <2>1, <2>2, CollectorStep DEF TraceInv
<1> QED
  BY <1>1, <1>6, <1>7, <1>8, CopierStays DEF TraceInv, IndexedInv

LEMMA Indexes ==
    ASSUME TraceInv, Index
    PROVE  TraceInv'
<1>1. UNCHANGED <<topologies, tasks, collectors, copier, collections, now, moved>>
  BY DEF Index
<1>2. PICK t \in Traces : \E s \in TraceSpans[t] \ indexed[t] :
          indexed' = [indexed EXCEPT ![t] = @ \cup {s}]
  BY DEF Index
<1>3. PICK s \in TraceSpans[t] : indexed' = [indexed EXCEPT ![t] = @ \cup {s}]
  BY <1>2
<1>4. IndexedInv'
  BY <1>3 DEF TraceInv, IndexedInv
<1> QED
  BY <1>1, <1>4 DEF TraceInv, RowsInv, TasksInv, CollectorsInv, HasTopology, CopierInv, Copied

-----------------------------------------------------------------------------
\* The rows of a run in the order they were written: the last is the one the evidence shows.
LEMMA ListedByTime ==
    ASSUME RowsInv, NEW run
    PROVE  /\ ListTraceTopologies(run) \in Seq(TopologyRow)
           /\ storedTraceTopologyEvidence(run) \in Truthful \cup {NoTopology}
           /\ storedTraceTopologyEvidence(run).spans > 0 =>
                /\ ListTraceTopologies(run) # << >>
                /\ topologies[LastRow(RowsOf(run))].case = run =>
                      ListTraceTopologies(run)[Len(ListTraceTopologies(run))].topology
                        = storedTraceTopologyEvidence(run)
<1>1. PICK S : S = RowsOf(run)
  OBVIOUS
<1>2. S \subseteq DOMAIN topologies /\ IsFiniteSet(S)
  BY <1>1, FS_Subset DEF RowsInv, RowsOf
<1>3. \A id \in S : topologies[id] \in TopologyRow
  BY <1>2 DEF RowsInv
<1>4. \A id \in S : topologies[id].at \in Nat /\ topologies[id].topology \in Truthful
  BY <1>3 DEF TopologyRow
<1>5. PICK f \in [S -> Nat] : f = [id \in S |-> topologies[id].at]
  BY <1>4
<1>6. \A x, y \in S : f[x] = f[y] => x = y
  BY <1>2, <1>5 DEF RowsInv
<1>7. \A id \in S : {x \in S : topologies[x].at < topologies[id].at} = Before(S, f, id)
  BY <1>5 DEF Before
<1>8. PICK n : n = Cardinality(S)
  OBVIOUS
<1>9. /\ n \in Nat
      /\ \A x, y \in S : Cardinality(Before(S, f, x)) = Cardinality(Before(S, f, y)) => x = y
      /\ \A i \in 0 .. n - 1 : \E x \in S : Cardinality(Before(S, f, x)) = i
  BY <1>2, <1>5, <1>6, <1>8, Ranks
<1>10. PICK list : list = ListTraceTopologies(run)
  OBVIOUS
<1>11. list = [i \in 1 .. n |-> topologies[CHOOSE id \in S :
                  Cardinality({x \in S : topologies[x].at < topologies[id].at}) = i - 1]]
  BY <1>1, <1>8, <1>10 DEF ListTraceTopologies
<1>12. ASSUME NEW i \in 1 .. n
       PROVE  \E id \in S : list[i] = topologies[id] /\ Cardinality(Before(S, f, id)) = i - 1
  <2>1. i - 1 \in 0 .. n - 1
    BY <1>9
  <2>2. \E id \in S : Cardinality({x \in S : topologies[x].at < topologies[id].at}) = i - 1
    BY <1>7, <1>9, <2>1
  <2>3. PICK id : id = CHOOSE y \in S :
                  Cardinality({x \in S : topologies[x].at < topologies[y].at}) = i - 1
    OBVIOUS
  <2>4. id \in S /\ Cardinality({x \in S : topologies[x].at < topologies[id].at}) = i - 1
    BY <2>2, <2>3
  <2>5. list[i] = topologies[id]
    BY <1>11, <2>3
  <2> QED
    BY <1>7, <2>4, <2>5
<1>13. \A i \in 1 .. n : list[i] \in TopologyRow
  BY <1>3, <1>12
<1>14. list \in Seq(TopologyRow) /\ Len(list) = n
  <2>1. list \in [1 .. n -> TopologyRow]
    BY <1>11, <1>13
  <2> QED
    BY <1>9, <2>1
<1>15. CASE S = {}
  <2>1. storedTraceTopologyEvidence(run) = NoTopology
    BY <1>1, <1>15 DEF storedTraceTopologyEvidence, RowsOf
  <2> QED
    BY <1>10, <1>14, <2>1, NoTopologyIsEmpty
<1>16. CASE S # {}
  <2>1. PICK T : T = {f[x] : x \in S}
    OBVIOUS
  <2>2. IsFiniteSet(T)
    <3>1. f \in Surjection(S, T)
      BY <1>5, <2>1 DEF Surjection
    <3> QED
      BY <1>2, <3>1, FS_Surjection
  <2>3. T \in SUBSET Nat /\ T # {}
    BY <1>5, <1>16, <2>1
  <2>4. PICK greatest \in T : \A m \in T : m <= greatest
    BY <2>2, <2>3, Greatest
  <2>5. \E id \in S : \A x \in S : topologies[x].at <= topologies[id].at
    BY <1>5, <2>1, <2>4
  <2>6. PICK last : last = LastRow(S)
    OBVIOUS
  <2>7. last \in S /\ \A x \in S : topologies[x].at <= topologies[last].at
    BY <2>5, <2>6 DEF LastRow
  <2>8. topologies[last].case = run => storedTraceTopologyEvidence(run) = topologies[last].topology
    <3> SUFFICES ASSUME topologies[last].case = run
                 PROVE  storedTraceTopologyEvidence(run) = topologies[last].topology
      OBVIOUS
    <3> DEFINE own == {id \in S : topologies[id].case = run}
    <3>1. last \in own /\ own \subseteq S
      BY <2>7
    <3>2. LastRow(own) \in own /\ \A x \in own : topologies[x].at <= topologies[LastRow(own)].at
      BY <2>7, <3>1 DEF LastRow
    <3>3. LastRow(own) = last
      <4>1. PICK other \in S : other = LastRow(own)
        BY <3>1, <3>2
      <4>2. topologies[other].at <= topologies[last].at /\ topologies[last].at <= topologies[other].at
        BY <2>7, <3>1, <3>2, <4>1
      <4>3. topologies[other].at = topologies[last].at
        BY <1>4, <2>7, <4>2
      <4> QED
        BY <1>2, <2>7, <4>1, <4>3 DEF RowsInv
    <3> QED
      BY <1>1, <3>1, <3>3 DEF storedTraceTopologyEvidence
  <2>8a. storedTraceTopologyEvidence(run) \in Truthful \cup {NoTopology}
    <3> DEFINE own == {id \in S : topologies[id].case = run}
    <3>1. CASE own = {}
      BY <1>1, <3>1 DEF storedTraceTopologyEvidence
    <3>2. CASE own # {}
      <4>1. PICK R : R = {f[x] : x \in own}
        OBVIOUS
      <4>2. R \subseteq T /\ IsFiniteSet(R)
        BY <2>1, <2>2, <4>1, FS_Subset
      <4>3. R \in SUBSET Nat /\ R # {}
        BY <2>3, <3>2, <4>1, <4>2
      <4>4. PICK top \in R : \A m \in R : m <= top
        BY <4>2, <4>3, Greatest
      <4>5. \E id \in own : \A x \in own : topologies[x].at <= topologies[id].at
        BY <1>5, <4>1, <4>4
      <4>6. LastRow(own) \in own
        BY <4>5 DEF LastRow
      <4> QED
        BY <1>1, <1>4, <3>2, <4>6 DEF storedTraceTopologyEvidence
    <3> QED
      BY <3>1, <3>2
  <2>9. Before(S, f, last) = S \ {last}
    <3>1. \A x \in S : f[x] <= f[last] /\ f[x] \in Nat
      BY <1>5, <2>7
    <3>2. \A x \in S : x # last => f[x] < f[last]
      BY <1>6, <2>7, <3>1
    <3>3. ~(f[last] < f[last])
      BY <2>7, <3>1
    <3> QED
      BY <3>2, <3>3 DEF Before
  <2>10. Cardinality(Before(S, f, last)) = n - 1
    BY <1>2, <1>8, <2>7, <2>9, FS_RemoveElement
  <2>11. n # 0
    BY <1>2, <1>8, <1>16, FS_EmptySet
  <2>12. n \in 1 .. n /\ n > 0
    BY <1>9, <2>11
  <2>13. PICK id \in S : list[n] = topologies[id] /\ Cardinality(Before(S, f, id)) = n - 1
    BY <1>12, <2>12
  <2>14. id = last
    BY <1>9, <2>7, <2>10, <2>13
  <2>15. list[Len(list)].topology = topologies[last].topology /\ list # << >>
    BY <1>14, <2>12, <2>13, <2>14
  <2> QED
    BY <1>1, <1>4, <1>10, <1>14, <2>6, <2>7, <2>8, <2>8a, <2>15
<1> QED
  BY <1>15, <1>16

LEMMA Lists ==
    ASSUME TraceInv, ListCaseRun
    PROVE  TraceInv'
<1>1. /\ copier.pc = "waiting"
      /\ UNCHANGED <<indexed, topologies, tasks, collectors, collections, now, moved>>
  BY DEF ListCaseRun
<1>2. PICK run \in copier.left :
          copier' = [copier EXCEPT !.pc = run, !.left = @ \ {run}, !.rows = ListTraceTopologies(run),
                                   !.shown = Put(@, run, storedTraceTopologyEvidence(run)),
                                   !.foreign = @ \cup {x \in {run} :
                                       /\ RowsOf(run) # {}
                                       /\ topologies[LastRow(RowsOf(run))].case # run}]
  BY DEF ListCaseRun
<1>3. copier \in Copying
  BY DEF TraceInv, CopierInv
<1>4. run \in CaseRuns /\ run # "waiting"
  BY <1>3, TraceConstants DEF Copying
<1>5. PICK list : list = ListTraceTopologies(run)
  OBVIOUS
<1>6. PICK evidence : evidence = storedTraceTopologyEvidence(run)
  OBVIOUS
<1>7. /\ list \in Seq(TopologyRow) /\ evidence \in Truthful \cup {NoTopology}
      /\ evidence.spans > 0 =>
            /\ list # << >>
            /\ topologies[LastRow(RowsOf(run))].case = run => list[Len(list)].topology = evidence
  BY <1>5, <1>6, ListedByTime DEF TraceInv
<1>7a. PICK foreign \in SUBSET CaseRuns :
          foreign = copier.foreign \cup {x \in {run} : /\ RowsOf(run) # {}
                                                    /\ topologies[LastRow(RowsOf(run))].case # run}
  BY <1>3, <1>4 DEF Copying
<1>7b. evidence.spans > 0 => list # << >> /\ (list[Len(list)].topology = evidence \/ run \in foreign)
  <2>1. RowsOf(run) = {} => evidence = NoTopology
    BY <1>6 DEF storedTraceTopologyEvidence
  <2> QED
    BY <1>7, <1>7a, <2>1, NoTopologyIsEmpty
<1>8. PICK shown : shown = Put(copier.shown, run, evidence)
  OBVIOUS
<1>9. PICK R \in SUBSET CaseRuns : copier.shown \in [R -> Truthful \cup {NoTopology}]
  BY <1>3 DEF Copying
<1>10. /\ DOMAIN shown = R \cup {run} /\ R = DOMAIN copier.shown
       /\ shown \in [R \cup {run} -> Truthful \cup {NoTopology}]
       /\ shown[run] = evidence /\ \A r \in R : r # run => shown[r] = copier.shown[r]
  BY <1>7, <1>8, <1>9 DEF Put
<1>11. copier' = [copier EXCEPT !.pc = run, !.left = copier.left \ {run}, !.rows = list, !.shown = shown,
                                  !.foreign = foreign]
  BY <1>2, <1>5, <1>6, <1>7a, <1>8
<1>12. /\ copier'.pc = run /\ copier'.left = copier.left \ {run} /\ copier'.rows = list
       /\ copier'.shown = shown /\ copier'.failed = copier.failed /\ copier'.foreign = foreign
  BY <1>3, <1>11 DEF Copying
<1>13. shown \in UNION {[Q -> Truthful \cup {NoTopology}] : Q \in SUBSET CaseRuns}
  <2>1. R \cup {run} \in SUBSET CaseRuns
    BY <1>4
  <2> QED
    BY <1>10, <2>1
<1>14. copier' \in Copying
  BY <1>3, <1>4, <1>7, <1>7a, <1>11, <1>13 DEF Copying
<1>15. CopierInv'
  <2>1. DOMAIN shown \cap copier'.left = {}
    BY <1>10, <1>12 DEF TraceInv, CopierInv
  <2>2. ASSUME NEW r \in DOMAIN shown, shown[r].spans > 0, r # run
        PROVE  Copied(r)'
    <3>1. r \in DOMAIN copier.shown /\ shown[r] = copier.shown[r] /\ r \in CaseRuns
      BY <1>9, <1>10, <2>2
    <3>2. copier.pc # r
      BY <1>1, <3>1, TraceConstants
    <3>3. Copied(r)
      BY <2>2, <3>1, <3>2 DEF TraceInv, CopierInv
    <3> QED
      BY <1>1, <1>7a, <1>12, <3>1, <3>3 DEF Copied
  <2> QED
    BY <1>7b, <1>10, <1>12, <1>14, <2>1, <2>2 DEF CopierInv
<1> QED
  BY <1>1, <1>15 DEF TraceInv, IndexedInv, RowsInv, TasksInv, CollectorsInv, HasTopology

LEMMA Copies ==
    ASSUME TraceInv, copyAPICaseBatchTraceTopologies
    PROVE  TraceInv'
<1>1. PICK run : run = copier.pc
  OBVIOUS
<1>2. /\ run \in CaseRuns /\ UNCHANGED <<indexed, tasks, collectors, collections>>
      /\ \/ /\ copier.rows = << >>
            /\ copier' = [copier EXCEPT !.pc = "waiting"] /\ UNCHANGED <<topologies, now, moved>>
         \/ /\ copier.rows # << >>
            /\ SaveTraceTopology(CopyId(run), Batch, run, run, Head(copier.rows).topology)
            /\ copier' = [copier EXCEPT !.rows = Tail(@)]
         \/ /\ copier.rows # << >>
            /\ copier' = [copier EXCEPT !.rows = Tail(@), !.failed = @ \cup {run}]
            /\ UNCHANGED <<topologies, now, moved>>
  BY <1>1 DEF copyAPICaseBatchTraceTopologies
<1>3. run # "waiting" /\ copier \in Copying /\ Batch \in Runs
  BY <1>2, TraceConstants DEF TraceInv, CopierInv, Runs
<1>4. copier.rows \in Seq(TopologyRow) /\ copier.pc = run
  BY <1>1, <1>3 DEF Copying
<1>5. run \in DOMAIN copier.shown
  BY <1>1, <1>3 DEF TraceInv, CopierInv
<1>6. ASSUME UNCHANGED <<topologies, now, moved>>
      PROVE  RowsInv' /\ TasksInv' /\ CollectorsInv' /\ IndexedInv'
  BY <1>2, <1>6 DEF TraceInv, RowsInv, TasksInv, CollectorsInv, IndexedInv, HasTopology
<1>7. CASE /\ copier.rows = << >>
           /\ copier' = [copier EXCEPT !.pc = "waiting"] /\ UNCHANGED <<topologies, now, moved>>
  <2>1. /\ copier'.pc = "waiting" /\ copier'.left = copier.left /\ copier'.rows = copier.rows
        /\ copier'.shown = copier.shown /\ copier'.failed = copier.failed /\ copier' \in Copying
        /\ copier'.foreign = copier.foreign
    BY <1>3, <1>7 DEF Copying
  <2>2. CopierInv'
    <3>1. ASSUME NEW r \in DOMAIN copier.shown, copier.shown[r].spans > 0 PROVE Copied(r)'
      <4>1. Copied(r)
        BY <1>7, <3>1 DEF TraceInv, CopierInv
      <4> QED
        BY <1>7, <2>1, <4>1 DEF Copied
    <3> QED
      BY <1>7, <2>1, <3>1 DEF TraceInv, CopierInv
  <2> QED
    BY <1>6, <1>7, <2>2 DEF TraceInv
<1>8. ASSUME copier.rows # << >>
      PROVE  /\ Head(copier.rows) \in TopologyRow /\ Tail(copier.rows) \in Seq(TopologyRow)
             /\ Tail(copier.rows) # << >> =>
                  Tail(copier.rows)[Len(Tail(copier.rows))] = copier.rows[Len(copier.rows)]
             /\ Tail(copier.rows) = << >> => Head(copier.rows) = copier.rows[Len(copier.rows)]
  <2>1. PICK left \in Seq(TopologyRow) : left = copier.rows
    BY <1>4
  <2>2. Len(left) \in Nat /\ Len(left) # 0
    BY <1>8, <2>1
  <2>3. Head(left) \in TopologyRow /\ Head(left) = left[1]
    BY <2>2
  <2>4. /\ Tail(left) \in Seq(TopologyRow) /\ Len(Tail(left)) = Len(left) - 1
        /\ \A i \in 1 .. Len(left) - 1 : Tail(left)[i] = left[i + 1]
    BY <2>2
  <2>5. Tail(left) # << >> => Len(left) - 1 \in 1 .. Len(left) - 1 /\ Len(left) - 1 + 1 = Len(left)
    BY <2>2, <2>4
  <2>6. Tail(left) # << >> => Tail(left)[Len(left) - 1] = left[Len(left)]
    BY <2>4, <2>5
  <2>7. Tail(left) = << >> => Len(left) = 1
    <3>1. PICK tail : tail = Tail(left)
      OBVIOUS
    <3>2. tail = << >> => Len(tail) = 0
      OBVIOUS
    <3>3. Len(tail) = Len(left) - 1
      BY <2>4, <3>1
    <3> QED
      BY <2>2, <3>1, <3>2, <3>3
  <2> QED
    BY <2>1, <2>3, <2>4, <2>6, <2>7
<1>9. CASE /\ copier.rows # << >>
           /\ SaveTraceTopology(CopyId(run), Batch, run, run, Head(copier.rows).topology)
           /\ copier' = [copier EXCEPT !.rows = Tail(@)]
  <2>1. PICK topology \in Truthful : topology = Head(copier.rows).topology
    BY <1>8, <1>9 DEF TopologyRow
  <2>2. SaveTraceTopology(CopyId(run), Batch, run, run, topology)
    BY <1>9, <2>1
  <2>3. /\ RowsInv' /\ \A r \in Runs, s \in CaseRuns : HasTopology(r, s) => HasTopology(r, s)'
        /\ CopyId(run) \in DOMAIN topologies' /\ topologies'[CopyId(run)].topology = topology
        /\ \A x \in DOMAIN topologies : x # CopyId(run) =>
              x \in DOMAIN topologies' /\ topologies'[x] = topologies[x]
    <3>1. RowsInv
      BY DEF TraceInv
    <3>2. PICK id : id = CopyId(run)
      OBVIOUS
    <3>3. SaveTraceTopology(id, Batch, run, run, topology)
      BY <2>2, <3>2
    <3>4. /\ RowsInv' /\ \A r \in Runs, s \in CaseRuns : HasTopology(r, s) => HasTopology(r, s)'
          /\ id \in DOMAIN topologies' /\ topologies'[id].topology = topology
          /\ \A x \in DOMAIN topologies : x # id =>
                x \in DOMAIN topologies' /\ topologies'[x] = topologies[x]
      <4>1. PICK step \in CaseRuns, case \in CaseRuns \cup {None} : step = run /\ case = run
        BY <1>2
      <4>2. SaveTraceTopology(id, Batch, step, case, topology)
        BY <3>3, <4>1
      <4> QED
        BY <1>3, <2>1, <3>1, <4>1, <4>2, Saving
    <3> QED
      BY <3>2, <3>4
  <2>4. TasksInv'
    BY <1>2, <2>3, TasksStay DEF TraceInv
  <2>5. CollectorsInv'
    <3>1. ASSUME NEW c \in Collectors, collectors[c].pc = "saved"
          PROVE  HasTopology(collectors[c].run, collectors[c].step)'
      <4>1. PICK r \in Runs, s \in CaseRuns : r = collectors[c].run /\ s = collectors[c].step
        BY <3>1, AtWork
      <4>2. HasTopology(r, s)
        BY <3>1, <4>1 DEF TraceInv, CollectorsInv
      <4>3. HasTopology(r, s)' /\ collectors'[c].run = r /\ collectors'[c].step = s
        BY <1>2, <2>3, <4>1, <4>2
      <4> QED
        BY <4>3
    <3> QED
      BY <1>2, <3>1 DEF TraceInv, CollectorsInv
  <2>6. /\ copier'.pc = run /\ copier'.left = copier.left /\ copier'.rows = Tail(copier.rows)
        /\ copier'.shown = copier.shown /\ copier'.failed = copier.failed /\ copier' \in Copying
        /\ copier'.foreign = copier.foreign
    BY <1>3, <1>4, <1>8, <1>9 DEF Copying
  <2>7. CopierInv'
    <3>1. ASSUME NEW r \in DOMAIN copier.shown, copier.shown[r].spans > 0, r # run
          PROVE  Copied(r)'
      <4>1. Copied(r)
        BY <1>4, <3>1 DEF TraceInv, CopierInv
      <4>2. CopyId(r) # CopyId(run)
        BY <3>1 DEF CopyId
      <4> QED
        BY <2>3, <2>6, <4>1, <4>2 DEF Copied
    <3>2. ASSUME copier.shown[run].spans > 0
          PROVE  IF Tail(copier.rows) # << >>
                 THEN \/ Tail(copier.rows)[Len(Tail(copier.rows))].topology = copier.shown[run]
                      \/ run \in copier.foreign
                 ELSE Copied(run)'
      <4>1. copier.rows[Len(copier.rows)].topology = copier.shown[run] \/ run \in copier.foreign
        BY <1>4, <1>5, <1>9, <3>2 DEF TraceInv, CopierInv
      <4>2. CASE Tail(copier.rows) # << >>
        BY <1>8, <1>9, <4>1, <4>2
      <4>3. CASE Tail(copier.rows) = << >>
        <5>1. topology = copier.shown[run] \/ run \in copier.foreign
          BY <1>8, <1>9, <2>1, <4>1, <4>3
        <5> QED
          BY <2>3, <2>6, <4>3, <5>1 DEF Copied
      <4> QED
        BY <4>2, <4>3
    <3> QED
      BY <1>3, <1>5, <2>6, <3>1, <3>2 DEF TraceInv, CopierInv
  <2> QED
    BY <1>2, <2>3, <2>4, <2>5, <2>7 DEF TraceInv, IndexedInv
<1>10. CASE /\ copier.rows # << >>
            /\ copier' = [copier EXCEPT !.rows = Tail(@), !.failed = @ \cup {run}]
            /\ UNCHANGED <<topologies, now, moved>>
  <2>1. /\ copier'.pc = run /\ copier'.left = copier.left /\ copier'.rows = Tail(copier.rows)
        /\ copier'.shown = copier.shown /\ copier'.failed = copier.failed \cup {run}
        /\ copier' \in Copying /\ copier'.foreign = copier.foreign
    BY <1>2, <1>3, <1>4, <1>8, <1>10 DEF Copying
  <2>2. CopierInv'
    <3>1. ASSUME NEW r \in DOMAIN copier.shown, copier.shown[r].spans > 0, r # run
          PROVE  Copied(r)'
      <4>1. Copied(r)
        BY <1>4, <3>1 DEF TraceInv, CopierInv
      <4> QED
        BY <1>10, <2>1, <4>1 DEF Copied
    <3>2. ASSUME copier.shown[run].spans > 0
          PROVE  Tail(copier.rows) # << >> =>
                   \/ Tail(copier.rows)[Len(Tail(copier.rows))].topology = copier.shown[run]
                   \/ run \in copier.foreign
      <4>1. copier.rows[Len(copier.rows)].topology = copier.shown[run] \/ run \in copier.foreign
        BY <1>4, <1>5, <1>10, <3>2 DEF TraceInv, CopierInv
      <4> QED
        BY <1>8, <1>10, <4>1
    <3>3. Copied(run)'
      BY <2>1 DEF Copied
    <3> QED
      BY <1>3, <1>5, <2>1, <3>1, <3>2, <3>3 DEF TraceInv, CopierInv
  <2> QED
    BY <1>6, <1>10, <2>2 DEF TraceInv
<1> QED
  BY <1>2, <1>7, <1>9, <1>10

-----------------------------------------------------------------------------
LEMMA TraceStarts ==
    ASSUME TraceInit
    PROVE  TraceInv
<1>1. IndexedInv
  BY DEF TraceInit, IndexedInv
<1>2. RowsInv
  <2>1. DOMAIN topologies = {} /\ now = 1 /\ moved = {} /\ topologies \in [{} -> TopologyRow]
    BY DEF TraceInit
  <2> QED
    BY <2>1, FS_EmptySet DEF RowsInv
<1>3. TasksInv
  BY DEF TraceInit, TasksInv
<1>4. CollectorsInv
  BY Nothing, TraceConstants DEF TraceInit, CollectorsInv
<1>5. CopierInv
  <2>1. copier = [pc |-> "waiting", left |-> CaseRuns, rows |-> << >>, shown |-> << >>,
                  foreign |-> {}, failed |-> {}]
    BY DEF TraceInit
  <2>2. << >> \in [{} -> Truthful \cup {NoTopology}] /\ {} \in SUBSET CaseRuns
    OBVIOUS
  <2>3. << >> \in UNION {[R -> Truthful \cup {NoTopology}] : R \in SUBSET CaseRuns}
    BY <2>2
  <2> QED
    BY <2>1, <2>3 DEF CopierInv, Copying
<1> QED
  BY <1>1, <1>2, <1>3, <1>4, <1>5 DEF TraceInv

LEMMA TraceSteps ==
    ASSUME TraceInv, [TraceNext]_traceVars
    PROVE  TraceInv'
<1>1. CASE UNCHANGED traceVars
  BY <1>1 DEF traceVars, TraceInv, IndexedInv, RowsInv, TasksInv, CollectorsInv, HasTopology,
       CopierInv, Copied
<1>2. ASSUME NEW c \in Collectors,
             \/ collectAndRecordTestKitTraceTopology(c) \/ recordSkippedTestKitTraceTopologyTask(c)
             \/ CollectTraceTopologyPayload(c)
             \/ FindCandidates(c) \/ QueryTrace(c) \/ saveCollectedTraceTopology(c)
             \/ recordTestKitTraceTopologyTask(c) \/ CollectionTimesOut(c) \/ KillCollector(c)
      PROVE  TraceInv'
  BY <1>2, OwnBegins, SkippedBegins, RequestBegins, Finds, Queries, Saves, RecordsTask, TimesOut, Killed
<1> QED
  BY <1>1, <1>2, Indexes, Lists, Copies DEF TraceNext

\* Collectors, tasks and rows keep their types.
THEOREM TracesTyped == TraceSpec => []TraceTypeOK
<1>1. TraceInv => TraceTypeOK
  <2> SUFFICES ASSUME TraceInv PROVE TraceTypeOK
    OBVIOUS
  <2>1. Truthful \subseteq Topology
    BY DEF Truthful, Built, Topology
  <2>2. ASSUME NEW id \in DOMAIN topologies
        PROVE  /\ topologies[id].run \in Runs /\ topologies[id].step \in CaseRuns
               /\ topologies[id].case \in CaseRuns \cup {None}
               /\ topologies[id].topology \in Topology /\ topologies[id].at \in 1 .. now - 1
    <3>1. topologies[id] \in TopologyRow /\ topologies[id].at \in 1 .. now - 1
      BY DEF TraceInv, RowsInv
    <3> QED
      BY <2>1, <3>1 DEF TopologyRow
  <2>3. \A c \in Collectors :
          /\ collectors[c].pc \in {"idle", "find", "query", "saved", "failed"}
          /\ collectors[c].left \subseteq Traces /\ collectors[c].attempt \in 0 .. MaxAttempts - 1
    BY DEF TraceInv, CollectorsInv, Collection
  <2>4. \A key \in DOMAIN tasks : key \in Runs \X CaseRuns /\ tasks[key] \in {"passed", "failed", "skipped"}
    BY DEF TraceInv, TasksInv
  <2>5. copier.pc \in {"waiting"} \cup CaseRuns
    BY DEF TraceInv, CopierInv, Copying
  <2> QED
    BY <2>2, <2>3, <2>4, <2>5 DEF TraceInv, TraceTypeOK, IndexedInv, RowsInv, CollectorsInv
<1> QED
  BY <1>1, TraceStarts, TraceSteps, PTL DEF TraceSpec

\* A task that says "passed" has its topology, or lost it to a save that named its row,
\* and every stored topology confirms only edges of the trace it names.
THEOREM CollectionsAreTrue == TraceSpec => []CollectedIsTrue
<1>1. TraceInv => CollectedIsTrue
  <2> SUFFICES ASSUME TraceInv PROVE CollectedIsTrue
    OBVIOUS
  <2>1. ASSUME NEW key \in DOMAIN tasks, tasks[key] = "passed"
        PROVE  \/ key \in moved
               \/ \E id \in DOMAIN topologies : <<topologies[id].run, topologies[id].step>> = key
    <3>1. PICK run \in Runs, step \in CaseRuns : key = <<run, step>>
      BY DEF TraceInv, TasksInv
    <3>2. HasTopology(run, step)
      BY <2>1, <3>1 DEF TraceInv, TasksInv
    <3> QED
      BY <3>1, <3>2 DEF HasTopology
  <2>2. ASSUME NEW id \in DOMAIN topologies
        PROVE  topologies[id].topology.edges
                 \subseteq ConfirmedEdges(TraceSpans[topologies[id].topology.trace])
    <3>1. topologies[id].topology \in Built
      BY DEF TraceInv, RowsInv, TopologyRow, Truthful
    <3> QED
      BY <3>1 DEF Built
  <2> QED
    BY <2>1, <2>2 DEF CollectedIsTrue
<1> QED
  BY <1>1, TraceStarts, TraceSteps, PTL DEF TraceSpec

\* Of several rows of a case the batch keeps the one its evidence showed, unless the last row
\* of the case's run was collected for another case (copyAPICaseBatchTraceTopologies).
THEOREM BatchesShowTheCase == TraceSpec => []BatchShowsCaseTopology
<1>1. TraceInv => BatchShowsCaseTopology
  BY DEF TraceInv, CopierInv, Copied, BatchShowsCaseTopology
<1> QED
  BY <1>1, TraceStarts, TraceSteps, PTL DEF TraceSpec

-----------------------------------------------------------------------------
(* The parts together.                                                     *)

\* A behaviour of the composition is one of every part: a step of another part leaves
\* the state of this one alone.
THEOREM StoreSideRunsEveryPart ==
  Spec => CatalogSpec /\ SchemaSpec /\ GraphSpec /\ TraceSpec
<1>1. Init => CatalogInit /\ SchemaInit /\ GraphInit /\ TraceInit
  BY DEF Init
<1>2. [Next]_vars => [CatalogNext]_catalogVars
  BY DEF vars, Next, CatalogPart, SchemaPart, GraphPart, TracePart
<1>3. [Next]_vars => [SchemaNext]_schemaVars
  BY DEF vars, Next, CatalogPart, SchemaPart, GraphPart, TracePart
<1>4. [Next]_vars => [GraphNext]_graphVars
  BY DEF vars, Next, CatalogPart, SchemaPart, GraphPart, TracePart
<1>5. [Next]_vars => [TraceNext]_traceVars
  BY DEF vars, Next, CatalogPart, SchemaPart, GraphPart, TracePart
<1> QED
  BY <1>1, <1>2, <1>3, <1>4, <1>5, PTL DEF Spec, CatalogSpec, SchemaSpec, GraphSpec, TraceSpec

\* Type correctness of every part, whichever of them a behaviour exercises.
THEOREM StoreSideKeepsTypes == Spec => []StoreTypeOK
  BY StoreSideRunsEveryPart, CatalogsKeepTypes, UpgradesKeepTypes, GraphsKeepTypes, TracesTyped, PTL
     DEF StoreTypeOK
=============================================================================
