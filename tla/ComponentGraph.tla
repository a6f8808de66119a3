--------------------------- MODULE ComponentGraph ---------------------------
(***************************************************************************)
(* The component graph of an environment: what a Store accepts, how it is  *)
(* replaced and read, and the startup plan made from it.                    *)
(*                                                                         *)
(* "environment components replace" replaces all three tables of a graph   *)
(* in one transaction (store_environment.go); inspect, register, restore   *)
(* and the bootstrap plan read them with one query each, and then judge    *)
(* (EnvironmentComponentGraphReadinessReport) and plan                     *)
(* (EnvironmentComponentStartupPlanReport) what they read.                 *)
(*                                                                         *)
(* Abstractions: names are trimmed and lower case; sizes are counted in    *)
(* units of which MaxBytes fit, and of what is not inline content only the *)
(* target of an asset has one, because the Store fills it in; the compose  *)
(* service of a component is part of its health check.                     *)
(***************************************************************************)
EXTENDS Naturals, FiniteSets, Sequences, SequencesExt

CONSTANTS Readers,       \* processes that read the graph
          Components,    \* component ids
          FirstGraphs,   \* graphs an environment may have at first
          GraphFiles,    \* graphs given to "environment components replace"
          MaxBytes,      \* ComponentAssetInlineMaxBytes and ComponentGraphMaxBytes
          MaxReplaces    \* bound: replacements

NoTarget == "none"

HealthChecks == [kind : {"url", "tcp", "command", "compose-service", "container", "other", ""},
                 target : BOOLEAN, service : BOOLEAN]

EnvironmentComponents == [id : Components, required : BOOLEAN, app : BOOLEAN, check : HealthChecks]
Dependencies == [consumer : Components, provider : Components, phase : {"startup", "runtime"}]
Assets == [owner : Components, target : Components \cup {NoTarget}, inline : Nat,
           source : {"inline", "remote", "broken"}]
Graphs == [components : SUBSET EnvironmentComponents, dependencies : SUBSET Dependencies,
           assets : SUBSET Assets]

EmptyGraph == [components |-> {}, dependencies |-> {}, assets |-> {}]

ASSUME GraphConstants ==
    /\ FirstGraphs \cup GraphFiles \subseteq Graphs
    /\ IsFiniteSet(Components) /\ MaxBytes \in Nat /\ MaxReplaces \in Nat

VARIABLES stored,    \* the graph in the Store
          reads,     \* per reader: what it has read
          replaces   \* replacements so far

graphVars == <<stored, reads, replaces>>

-----------------------------------------------------------------------------
(* What a Store accepts.                                                   *)

Ids(g) == {c.id : c \in g.components}

Size(asset) == asset.inline + IF asset.target = NoTarget THEN 0 ELSE 1

Bytes(g) ==
    LET total[left \in SUBSET g.assets] ==
            IF left = {} THEN 0
            ELSE LET a == CHOOSE a \in left : TRUE IN Size(a) + total[left \ {a}]
    IN  total[g.assets]

ValidateEnvironmentComponentGraph(g) ==
    /\ \A d \in g.dependencies : d.consumer \in Ids(g) /\ d.provider \in Ids(g)
    /\ \A a \in g.assets : /\ a.owner \in Ids(g)
                           /\ a.target \in Ids(g) \cup {NoTarget}
                           /\ a.inline <= MaxBytes
    /\ Bytes(g) <= MaxBytes

\* The primary key of environment_components.
OneRowPerId(g) == \A c, d \in g.components : c.id = d.id => c = d

-----------------------------------------------------------------------------
(* Readiness.                                                              *)

Configured(g) == g # EmptyGraph

\* A check needs a kind and the target of its kind; an application needs a url.
normalizeEnvironmentComponentHealthCheck(c) ==
    /\ c.app => c.check.kind = "url"
    /\ \/ c.check.kind \in {"url", "tcp", "command", "container"} /\ c.check.target
       \/ c.check.kind = "compose-service" /\ (c.check.target \/ c.check.service)

Blocking(g) == {d \in g.dependencies : d.phase # "runtime"}

SelfCycles(g) == {d \in Blocking(g) : d.consumer = d.provider}

\* Component ids in an order in which providers come first; of several such orders
\* the code takes one, and no order is complete when there is a cycle.
IsBlockingOrder(g, order) ==
    \A d \in Blocking(g) \ SelfCycles(g) :
        \A i, j \in DOMAIN order : order[i] = d.consumer /\ order[j] = d.provider => j < i

BlockingOrders(g) ==
    {order \in SetToSeqs(Ids(g)) : IsBlockingOrder(g, order)}

\* Providers can be taken off one after another until none is left.
environmentComponentBlockingDependencyOrder(g) ==
    SelfCycles(g) = {} /\ BlockingOrders(g) # {}

MissingHealthChecks(g) ==
    {c \in g.components : c.required /\ ~normalizeEnvironmentComponentHealthCheck(c)}

\* A remote asset needs a remote Git URL and a relative path.
MissingRemoteAssetRefs(g) == {a \in g.assets : a.source = "broken"}

ReadinessOK(g) ==
    Configured(g) =>
        /\ ValidateEnvironmentComponentGraph(g)
        /\ environmentComponentBlockingDependencyOrder(g)
        /\ MissingHealthChecks(g) = {}
        /\ MissingRemoteAssetRefs(g) = {}

-----------------------------------------------------------------------------
(* The startup plan.                                                       *)

Providers(g, id) == {d.provider : d \in {e \in Blocking(g) : e.consumer = id}}

HighestLevel(levels) == IF levels = {} THEN 0 ELSE CHOOSE l \in levels : \A m \in levels : m <= l

\* Mutants: a component starts with its providers, or a level late.
TogetherLevels(g, order) == [id \in Ids(g) |-> 0]

LateLevels(g, order) ==
    LET level[i \in 0 .. Len(order)] ==
            IF i = 0 THEN [id \in Ids(g) |-> 0]
            ELSE [level[i - 1] EXCEPT ![order[i]] = i]
    IN  level[Len(order)]

\* Levels are assigned in blocking order; one not assigned yet counts as 0.
environmentComponentStartupLevels(g, order) ==
    LET level[i \in 0 .. Len(order)] ==
            IF i = 0 THEN [id \in Ids(g) |-> 0]
            ELSE [level[i - 1] EXCEPT ![order[i]] =
                     HighestLevel({level[i - 1][p] + 1 : p \in Providers(g, order[i])})]
    IN  level[Len(order)]

\* Batches are the levels that occur, lowest first; a batch waits for the providers
\* of its components.
environmentComponentStartupBatches(g, levels) ==
    LET used == {levels[id] : id \in Ids(g)}
        Members(l) == {id \in Ids(g) : levels[id] = l}
        BatchAt(l) == [components |-> Members(l),
                       waitFor |-> UNION {Providers(g, id) : id \in Members(l)}]
        Nth(i) == CHOOSE l \in used : Cardinality({m \in used : m < l}) = i - 1
    IN  [i \in 1 .. Cardinality(used) |-> BatchAt(Nth(i))]

environmentComponentStartupHealthGates(g) ==
    {c.id : c \in {x \in g.components : normalizeEnvironmentComponentHealthCheck(x)}}

NoPlan == [ok |-> FALSE, batches |-> << >>, gates |-> {}]

\* Plans the code may make of what it read.
StartupPlans(g) ==
    IF ~Configured(g) THEN {[NoPlan EXCEPT !.ok = TRUE]}
    ELSE IF ~ReadinessOK(g) THEN {NoPlan}
    ELSE {[ok |-> TRUE,
           batches |-> environmentComponentStartupBatches(
                           g, environmentComponentStartupLevels(g, order)),
           gates |-> environmentComponentStartupHealthGates(g)] : order \in BlockingOrders(g)}

-----------------------------------------------------------------------------
(* Replacing and reading.                                                  *)

NoRead == [pc |-> "idle", graph |-> EmptyGraph, plan |-> NoPlan, alone |-> TRUE]

GraphInit ==
    /\ stored \in {g \in FirstGraphs : OneRowPerId(g) /\ ValidateEnvironmentComponentGraph(g)}
    /\ reads = [r \in Readers |-> NoRead]
    /\ replaces = 0

\* One transaction, after the file passed the readiness check; an asset without a
\* target is stored with its owner as target.
Targeted(a) == [a EXCEPT !.target = IF @ = NoTarget THEN a.owner ELSE @]

WriteGraph(file) ==
    /\ ValidateEnvironmentComponentGraph(file)
    /\ OneRowPerId(file)
    /\ stored' = [file EXCEPT !.assets = {Targeted(a) : a \in @}]

UncheckedReplace(file) ==
    /\ replaces < MaxReplaces
    /\ WriteGraph(file)
    /\ replaces' = replaces + 1
    /\ reads' = [r \in Readers |-> IF reads[r].pc = "idle" THEN reads[r]
                                   ELSE [reads[r] EXCEPT !.alone = FALSE]]

ReplaceEnvironmentComponentGraph(file) == ReadinessOK(file) /\ UncheckedReplace(file)

Continue(r, read) ==
    /\ reads' = [reads EXCEPT ![r] = read]
    /\ UNCHANGED <<stored, replaces>>

\* GetEnvironmentComponentGraph: three queries without a transaction.
ReadComponents(r) ==
    /\ reads[r].pc = "idle"
    /\ Continue(r, [NoRead EXCEPT !.pc = "dependencies", !.graph.components = stored.components])

ReadDependencies(r) ==
    /\ reads[r].pc = "dependencies"
    /\ Continue(r, [reads[r] EXCEPT !.pc = "assets",
                                    !.graph.dependencies = stored.dependencies])

ReadAssets(r) ==
    /\ reads[r].pc = "assets"
    /\ Continue(r, [reads[r] EXCEPT !.pc = "plan", !.graph.assets = stored.assets])

\* Inspect, register, restore: readiness and startup plan of what was read.
PlanStartup(r) ==
    /\ reads[r].pc = "plan"
    /\ \E plan \in StartupPlans(reads[r].graph) :
          Continue(r, [reads[r] EXCEPT !.pc = "planned", !.plan = plan])

FinishRead(r) ==
    /\ reads[r].pc = "planned"
    /\ Continue(r, NoRead)

GraphNext ==
    \/ \E file \in GraphFiles : ReplaceEnvironmentComponentGraph(file)
    \/ \E r \in Readers : \/ ReadComponents(r) \/ ReadDependencies(r) \/ ReadAssets(r)
                          \/ PlanStartup(r) \/ FinishRead(r)

GraphSpec == GraphInit /\ [][GraphNext]_graphVars

-----------------------------------------------------------------------------
(* Properties.                                                             *)

\* Type correctness.
GraphTypeOK ==
    /\ stored \in Graphs /\ replaces \in 0 .. MaxReplaces
    /\ \A r \in Readers :
          /\ reads[r].pc \in {"idle", "dependencies", "assets", "plan", "planned"}
          /\ reads[r].graph \in Graphs /\ reads[r].alone \in BOOLEAN
          /\ reads[r].plan.ok \in BOOLEAN

Planned(r) == reads[r].pc = "planned" /\ reads[r].plan.ok

\* A plan never starts a component before, or together with, a provider it blocks on,
\* whatever mixture of two graphs its three queries read.
ProvidersStartEarlier ==
    \A r \in Readers : Planned(r) =>
        \A d \in Blocking(reads[r].graph) :
            \A j \in DOMAIN reads[r].plan.batches :
                d.consumer \in reads[r].plan.batches[j].components =>
                    /\ d.provider \in reads[r].plan.batches[j].waitFor
                    /\ \E i \in 1 .. j - 1 : d.provider \in reads[r].plan.batches[i].components

\* A plan starts each component it read in exactly one batch, no later than its
\* dependencies force it to: each batch after the first holds only components with a
\* provider in the batch before.
BatchesAreTight ==
    \A r \in Readers : Planned(r) =>
        LET g == reads[r].graph
            batches == reads[r].plan.batches
        IN  /\ \A id \in Ids(g) :
                  Cardinality({i \in DOMAIN batches : id \in batches[i].components}) = 1
            /\ \A i \in DOMAIN batches : i > 1 =>
                  \A id \in batches[i].components :
                      Providers(g, id) \cap batches[i - 1].components # {}

\* A read that no replacement overlaps plans the stored graph, and what
\* "components replace" stored is then ready: only graphs that were there before it
\* may lack an order or a health check, and only the targets the Store filled in may
\* have taken a graph over the size it was accepted with.
LoneReadsPlanTheStore ==
    \A r \in Readers :
        reads[r].pc \in {"plan", "planned"} /\ reads[r].alone =>
            /\ reads[r].graph = stored
            /\ reads[r].pc = "planned" /\ replaces > 0 /\ Bytes(stored) <= MaxBytes =>
                  reads[r].plan.ok
=============================================================================
