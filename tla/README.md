# A verification project for AgentTestBench (open-test-sandbox)

AgentTestBench keeps test environments, their acceptance workflows, API cases, runs,
Evidence and trace topology in one SQL Store. A control plane (`agent-testbench serve`)
and any number of command-line processes read and write that Store. Almost every write
is "load a row, compute a new one, upsert it whole", with no transaction, no row version
and no lock between processes; inside the control plane one mutex guards the reports of
batch runs. These TLA+ modules model the parts where that sharing is hard to get right.
TLC checks them on small instances; TLAPS proves the main properties for any instance.

Paths below are relative to the repository root. `PROJECT.json` maps each definition to
the lines it stands for, and lists runs, mutants, hazards, findings and theorems.

## 1. Inventory

| Part | State it keeps | Operations | Modelled |
|---|---|---|---|
| Environment Catalog: `internal/server/controlplane/environment_catalog.go`, `environment_validation.go`, `cmd/agent-testbench/environment_*_commands.go`, `internal/store/sqlstore/store_environment.go` | one row per environment: workflow, configuration, last run and its result, evidence and topology flags, verified flag | register, verify, repo set, startup-file put, publish-verified, discover | `EnvironmentCatalog` |
| Environment restore: `environment_restore*.go` | what one command loaded; checkouts, generated files and containers on the host; the last attempt in the Store | preflight, sources, cleanup, Compose, edge assets, health, workflow, readiness, persist | `EnvironmentRestore`; its writes to the shared row in `EnvironmentCatalog` |
| Migrations of an edge: `environment_migration_*.go` | SQL assets and their order in the graph; a history table in the target database | add, apply, baseline, restore of the assets | `EnvironmentMigration` |
| Component graph: `internal/store/store.go`, `environment_component_graph.go`, `store_environment.go` | components, dependencies, assets of an environment | validate, replace, read, judge, plan the startup | `ComponentGraph` |
| Batch runner: `api_case_batch_*.go` | reports in memory under a mutex; case runs, evidence and trace topology in the Store | start, execute, record, collect a trace, report, finish | `CaseBatch` |
| Acceptance report: `workflow_acceptance.go` | none of its own | reads evidence, topology, node health case by case | `CaseBatch` (how it is built), `EnvironmentCatalog` (what it is used for) |
| Case runs: `runner/apicase/runner.go`, `api_case_run.go`, `case_evidence.go`, `test_kit*.go`, `runner/evidence/importer.go` | evidence files in a directory per run; run, case run and evidence rows | execute by command, request or test kit; record; import a legacy runtime; show evidence | `CaseRun` |
| Trace topology: `trace_collect.go`, `trace_topology.go`, `trace_provider.go`, `sqlstore/store_observability.go` | topology rows by row id; a task per run and step | collect with retries, choose a trace, build the graph, copy rows to a batch | `TraceCollection`; its effect on the gate in `EnvironmentCatalog` |
| Saved workflow runs: `workflow_run_save.go`, `workflow_run_copy.go` | runs, copies of evidence and topology | save a run a caller composed | what the gate reads of them, in `EnvironmentCatalog` |
| Profile catalog, publication, registration, store copy: `internal/profilepublish`, `store_config.go`, `store_catalog.go`, `sandbox_state.go`, `store_copy.go` | a catalog (a row per profile, or tables on SQLite), profile index, config versions, read models | register, publish, verify, activate, copy | `ProfileCatalog` |
| Schema upgrades: `sqlstore/migration.go`, `sqlite/store.go`, `store/schema`, the dialects | tables, columns, `schema_versions` | open a Store of any version | `SchemaUpgrade` |
| Case suites: `internal/domain/casesuite`, `case_suite_*.go`, `*_report.go` | none of their own: catalog, execution configurations and case runs of the Store | plan, impact, priority, brief, quality; execute the cases of a report | `CaseSuites` |
| Profile import, draft, generation, audit: `internal/domain/profile*` | files | parse and format | no: one process, parsing and formatting dominate |
| Request templates, executors, JUnit: `internal/runner` | none | HTTP exchange, rendering | no: outcomes enter as nondeterministic choices |
| Read models, dashboards, runtime logs, front end | none | projections | no: read only |
| Quality gate: `tools/qualitygate` | none | a scanner used in development | no: not part of the program |

How the parts meet:

* *Shared rows.* Register, verify, repo set, publish-verified, restore and the end of a
  batch all upsert the same environment row from a copy loaded earlier, minutes earlier
  in the case of restore.
* *Memory against Store.* A batch report lives in the control plane; its final form is
  also the summary of a run row. A client asks for the first and falls back to the second.
* *Facts and claims.* `verify` and `POST /api/workflow-runs` let a caller claim results;
  `publish-verified` checks them against run, evidence and topology, one read after the other.
* *Whole documents.* The profile catalog and the component graph are loaded whole,
  changed and written back whole, by processes that do not know of each other.
* *Names shared by chance.* Run ids are named by users or made of the current second; a
  topology row id may be named too; two attempts of one id share a directory and rows.
* *A host nobody owns.* A restore acts on checkouts, containers and databases that its
  user, other programs and earlier, interrupted restores have left in any state.
* *Requests and goroutines.* A batch is a goroutine that outlives the request that started
  it, and shares `apiCaseBatchRunner.mu` with every other batch.

What is hard here: stale rows written over newer ones; checks made by several reads;
a topology row replaced while it is relied on; Store errors that are dropped in the
middle of a sequence; a crash between the Store and the in-memory report; waiting for a
batch that died; a case without a timeout that never answers. The list with its lines is
`hazards` in `PROJECT.json`.

What makes the parts correct:

* Catalog: a verified environment names a run that really passed the workflow of the
  same row, with evidence and topology; nothing rewrites a stored run; batches end;
  a restore comes back.
* Batch runner: what a report shows as passed is in the Store; what it shows as accepted
  was proved case by case; exports flow only from passed cases; a verdict, once seen,
  never changes, not even over a restart; a batch with timeouts ends.
* Profile catalog: a registration alone loses nothing; bindings have their workflow; a
  published profile has an active version; publishing again repairs what failed half way.
* Schema: a recorded version was applied; nothing in use is taken away; an upgrade that
  nobody overlaps succeeds after any interruption (with one exception, see section 3).
* Component graph: providers start before what blocks on them, and in no later batch
  than needed; a plan is of the stored graph unless a replacement overlapped the read.
* Migrations: no content runs twice without a cause one can name; history is true; lower
  versions first; the edge lists what is stored, but for what a command read torn.
* Restore: containers start only after every check of this very restore passed; nothing
  is changed without consent; "ok" means started, answered, applied (unless the graph has
  no config assets, when nothing is applied); it can be repeated.
* Case runs: the rows of a run come from one attempt, and readers see its files only.
* Trace topology: a passed task has its row, a row confirms only edges of its own trace,
  and the batch shows what the case showed, unless the run's last row is of another case.
* Case suites: what failed is not cut off from a priority list for what passed, and what
  cannot run has an action, although runs are recorded while the report is put together.

## 2. Modules

| Module | What it is |
|---|---|
| `VerificationGate` | abstract: runs come to prove workflows; an environment is listed as verified only with a run that proves its workflow |
| `EnvironmentCatalog` | the catalog's rows, commands, restore, the end of a batch, saved runs, collections, crash |
| `MCEnvironmentCatalog` | its small instances |
| `EnvironmentCatalogProofs` | theorems about it, and that it implements `VerificationGate` |
| `BatchReport` | abstract: what a polling client sees of a batch run |
| `CaseBatch` | the batch runner: one goroutine per batch, the mutex, Store calls, acceptance, publication, crash |
| `MCCaseBatch` | its small instances |
| `CaseBatchProofs` | theorems about it, and that it implements `BatchReport` |
| `ProfileCatalog`, `SchemaUpgrade`, `ComponentGraph`, `TraceCollection` | parts of a Store that processes share |
| `MCStoreSide` | their small instances: a behaviour exercises one of the four |
| `EnvironmentMigration`, `EnvironmentRestore`, `CaseRun`, `CaseSuites` | what commands do to a host, its files and databases, and what they report |
| `MCHostSide` | their small instances, again one part per behaviour |
| `ProfileCatalogProofs`, `SchemaUpgradeProofs`, `EnvironmentRestoreProofs` | theorems about these three |
| `StoreSideProofs` | theorems about `ComponentGraph` and `TraceCollection`, and about `MCStoreSide` |
| `HostSideProofs` | theorems about `EnvironmentMigration`, `CaseRun` and `CaseSuites`, and about `MCHostSide` |
| `FiniteOrders` | lemmas they share: least and greatest members of sets of numbers, ranks of the members of a finite ordered set, the results of a value that is changed step by step |

### EnvironmentCatalog and the code

`envs`, `runs`, `evidence`, `topology` are the Store. An environment row keeps the fields
of `store.Environment` that the gate and discovery read; a run row keeps its environment,
its status and the workflow for which its stored acceptance report passes
(`workflowAcceptancePassed`); `evidence` and `topology` are the runs for which
`ListEvidence` finds a record and `ListTraceTopologies` a complete row.
`everComplete` is auxiliary: the runs that had a complete row at some time. `batch` and
`finisher` are the control plane's memory, `writer` what a command or request holds
between its load and its upsert.

Each command is a load (`StartVerify`, `StartConfigChange`, `StartPublish`,
`StartRestore`), for publish-verified the check (`Validate`), and the upsert (`Write`).
`Register` does not load. The reads of `ValidateEnvironmentPublishable` are one step,
placed at the last of them: `StoredFactsStay` is what makes that sound, since runs and
evidence are never changed or removed, so only the topology read can differ in time.
`Abandon` is a Store error or a killed process. A restore waits for a batch
(`RestoreRead`, or `RestoreGiveUp` at its deadline or on a failed poll). `DecideBatch` to
`FinalizeEnvironment` are `finish()` step by step, with each ignored Store error as an
alternative. `Crash` loses every batch.

### CaseBatch and the code

`plan` is the list of cases to execute (`apiCaseBatchPlans`): a workflow binding whose
case cannot be executed is skipped, as the code does; which cases can is chosen at
`Start`. `report` is `apiCaseBatchRunner.runs`. The goroutine of a batch goes
through `Execute`, `RecordCaseRun`, `IndexCaseRun`, `CollectTrace`, `UpdateCase` for each
case, then `Finish`, `AcceptCase` for each case, `CheckHealth`, `StoreReport`, `Publish`.
A Store error in `RecordCaseRun` or `IndexCaseRun` makes the case fail in the report
although its run may be stored as passed; the error of `StoreReport` is dropped.
`mu` is held from `Finish` to `Publish`; `Start` and `UpdateCase` take and release it
within one step, so their guard is that nobody holds it. `CollectAgain` is a caller that
collects a trace at any time, with any outcome. `View` is what
`handleEnvironmentAcceptanceRunReport` answers: memory first, else the Store.

`CaseBatch` and `EnvironmentCatalog` share `finish()`: the first has the acceptance
report and its publication, the second what is written for the environment. In the
second, the verdict is a nondeterministic choice; the first says when it can be "accepted".

### ProfileCatalog and the code

`rows` is a catalog per profile with its `indexed_at`, `profileIndex`, `configs` and
`models` the tables a publication fills, `ops` what each command holds between two Store
calls. `backend` chooses between MySQL/PostgreSQL (a JSON row per profile, the newest is
read, upserts of single rows) and SQLite (one catalog, replaced in a transaction, read
table by table, so that a read may be torn). A registration (service, node, workflow,
binding) is load, change, write; a publication writes index, catalog, config version,
activation (reset, then insert) and read models, and may fail between any two; verify reads
the four back; copy and the daily reports overwrite a catalog they loaded elsewhere or
earlier. `seen`, `alone`, `writes`, `unaudited` and `interrupted` are auxiliary: what overlapped.

### SchemaUpgrade and the code

A schema is the set of its tables and later parts. The statement lists are those of
`migration.go` for MySQL and PostgreSQL (`coreRunSchemaSQL` and its companions) and of
`sqlite/store.go` (`changes`). What a statement tolerates is the dialect's: "create if not exists" skips, "add column"
fails on a column that exists. A SQL upgrade runs its statements one by one and records
its version last; SQLite applies each change and its version in one transaction. A process
may stop between any two steps and is started again.

### ComponentGraph and the code

`stored` is the graph; a reader takes components, dependencies and assets in three
steps; "components replace" validates a file (`ValidateEnvironmentComponentGraph`) and swaps the whole graph in one
transaction. Readiness and the startup plan are operators on whatever was read.

### TraceCollection and the code

The provider indexes spans one at a time and may fail. A collection finds candidate traces
of the window, queries each of them, chooses, builds the graph, decides completeness, and writes the
row and its task; without a trace it tries again, `MaxAttempts` times. Callers name the run,
the step and the case as they please (`GivenCases`: the case of the run, that of another one,
or one of no run here), and may name a row id and so take a row from another run (`moved`).
`copier` is `finish()` of the batch, one case at a time: the evidence of a case shows the
last row of its run that names the case (`storedTraceTopologyEvidence`), while the copy takes
all rows of the run; `foreign` is auxiliary: the runs whose last row named another
case then. `CaseBatch` and `EnvironmentCatalog` keep this as one step.

### EnvironmentMigration, EnvironmentRestore and the code

`EnvironmentMigration` has a load of the graph as the two queries it is: the edge with its ids
when a command begins, the assets in `LoadAssets`, `prepareEnvironmentMigrationTarget` or
`PlanRestore`; "add" then replaces the whole graph. A command may so hold the ids of before
and the assets of after another one's write, and write that back: `torn` is auxiliary, the
versions of which such halves are stored. Apply and baseline pass over an id without its
asset, a restore fails on it. A script is split where the database splits it: content, then history row.
A lost connection sends all of it again; a kill leaves it where it was. `doubtful` is
auxiliary: versions whose script was cut after its content, or overlapped another one.
`EnvironmentRestore` goes through one restore in the order of `environment_restore.go`:
each source (clone, fetch, pull, checkout, or what is already there), backup, cleanup,
Compose commands, edge assets, health checks, workflow, the record. Between any two steps
it may be killed, and users or other programs change the host (`MaxEvents`). git and docker
are external: a command succeeds or fails. One recorded environment is chosen at the start;
`RecordedEnvironments` in `MCHostSide` lists ten that take different branches. The config
assets of the graph and the names its edges give are apart (`assets`, `edges`): a name without
its asset fails the restore, but a graph without any asset has nothing to apply (`EdgeAssets`).

### CaseRun, CaseSuites and the code

`CaseRun` has one action per file and per row: the five files of a command's run, written
before and after the HTTP exchange, the three of the test kit, then run, case run and
evidence rows, and the rows of an import. `caseEvidencePayload` is what a reader is shown.
`CaseSuites` has the runs a report reads while batches add more: each part of a
report is a read, and on MySQL and PostgreSQL each read is a query per run. The inspections
and scores are operators; `addQualityCaseActions` and `inspectionIssues` are the two
judgements of what is runnable. Commands that execute a report first write the catalog they loaded back to the Store.

## 3. Runs

| Run | Question | Distinct states |
|---|---|---|
| `CatalogGate` | can stale rows, re-collected traces or crashes list an unproven environment as verified; does a restore always come back | 121,313 |
| `CatalogWorkflows` | the same when the environment moves to another workflow and callers save their own runs; are stored facts ever rewritten | 1,447,133 |
| `CatalogBatchLiveness` | do batches that compete for the mutex end | 22,048 |
| `CatalogTopologyLost` | does a verified environment keep complete topology (it does not) | counterexample |
| `CatalogRestoreTopology` | does restore leave the topology flag alone (it does not) | counterexample |
| `CatalogRestorePublishes` | can restore publish an environment (it can) | counterexample |
| `BatchCases` | are reports, Store and exports of a batch consistent, and does a client see `BatchReport` | 51,932 |
| `BatchLiveness` | does a batch end beside one that hangs | 304,499 |
| `BatchCoverage` | does an accepted report cover the workflow (not always) | counterexample |
| `StoreSide` | are catalog, schema, graph plans and topologies right whatever processes overlap, fail or stop | 1,516,737 |
| `HostSide` | are migrations, restores, case evidence and suite reports right whatever is lost, killed, repeated or recorded in between | 2,272,291 |
| `RestoreReadiness` | does a component outside the allow-list stop a restore before Docker (it does not) | counterexample |

Each property of a passing run has a mutant, a plausible bug in a mapped definition that
makes TLC report the property violated; the mutant operators stand before the
definitions they alter.

Bounds, and why they are enough:

* One environment. Rows of different environments meet only in runs, and a run of
  another environment passes the gate like any other (the code never compares them).
* `CatalogGate`: two writers and a batch. A lost update needs one process that loads,
  one that writes in between; the batch is a third holder of an old row. Two claims, one
  full and one failed. `CatalogWorkflows` gives two workflows and a saved run to one
  writer and one batch. One configuration value: the properties do not read it, and what
  matters of a configuration change is that it upserts an old row.
* `CatalogBatchLiveness`, `BatchLiveness`: two batches are the smallest number that can
  wait for each other. In the first one batch may hang, in the second one of two cases has no timeout.
* `BatchCases`: three steps, the first and third of the same case; selections of one and of
  two cases in another order; any subset of the cases is runnable. Three cases separate
  "the last case decides" from "every case decides" and give exports that pass a failed case.
* `StoreSide`, catalog: two commands at a time and three in all: two that overlap and one
  before them or after. One service, one workflow, two profiles, one read model, a
  consistent bundle and one whose binding has no workflow. Schema: two processes, one
  retry each, from the versions at which the code takes another branch (0, 4, 5, 6, 9, 11
  and 0, 9, 18 of SQLite); a third process would only repeat what the second may do.
  Graph: one reader, two replacements, every set of seven dependencies among three
  components (cycles and self-dependencies included), and graphs that lack checks,
  exceed the size, or are just under it and grow when the Store fills in a target. Traces: two collections with two attempts each (15 in the code: the
  attempts are alike), a complete trace of two services and one of another request; users name
  the case of the run or another.
* `HostSide`, migrations: two operators, two versions, one content that the database
  rejects, one guarded version, two attempts (60 in the code), four commands: add two, and
  two that overlap, or two adds of which one reads torn and two that use what it wrote.
  Restore: one restore and its repetition, one outside event, ten environments. Case runs: two attempts of two ids, beside an import with one of them.
  Suites: two cases (one with a file, one that nothing can run), three runs, a stability
  window of two and a limit of one, so that a list must leave a case out.
* The theorems hold for any number of environments, workflows, runs, writers, batches,
  cases, profiles, catalogs, operators, versions, upgraders and attempts; for them the bounds do not matter.

What the properties allow, because the code does: a registration may be lost when another
command wrote a catalog meanwhile (`LossNeedsOverlap`); a bundle that fails the audit may
be published with bindings that have no workflow; an activation that stops between its two
statements leaves no active version; from versions 1 to 5 of MySQL and PostgreSQL an
upgrade stopped after "add column" can not be repeated (`RetriesSucceed`); a
content may run twice after a lost connection or an overlap (`NoSecondRun`); an "add" that
another one's write came in between of leaves an edge that does not list an asset, or lists
a missing one, until that version is added again (`EdgeListsAssets`); a restore of a graph
without assets ends ok whatever its edges name (`OkMeansRestored`); a row that a user collects
for a run of the batch under another case is copied although the evidence of the case does
not show it (`BatchShowsCaseTopology`); a health check
in a form that is skipped still covers its service (`SelectedServicesAnswer`); another
attempt that took a run's id may show its files (`OwnEvidenceShown`). Each is stated as the exact
condition, and a model that did more than that would violate the property.

Deadlock is checked in the runs of the catalog and of batches. Crashes are unbounded: the same batch ids stay lost,
so the state space stays finite without a counter. No symmetry is used where liveness is checked.

## 4. Fairness

* The steps of a goroutine that do not wait (`BatchStep`; `CaseStep`, `FinishStep`) are
  fair: the Go scheduler runs them. They are strongly fair where they take the mutex:
  `sync.RWMutex` lets every writer in.
* `Execute` is fair only for a case in `Timed`. Requests use `http.DefaultClient`, which
  has no timeout, and only `timeoutSeconds` of the case gives a deadline
  (`api_case_batch_execute.go:18`). So liveness is claimed for batches whose cases all
  have one, beside batches that hang; likewise `DecideBatch` in `EnvironmentCatalog`.
* A restore polls until its deadline and then goes on (`waitEnvironmentAcceptanceReport`).
* `StoreSide` and `HostSide` check safety only. Their commands are single processes that
  end or are killed; nothing waits for them, so there is no promise of progress to check,
  and `CHECK_DEADLOCK FALSE` stands there because the bounds on commands end a behaviour.
* Nothing else is fair: nobody must call the API, and errors, crashes and re-collections
  need never happen and may always happen.

## 5. Proofs

The assumptions are `CatalogAssumption` and `CaseBatchAssumption`: sentinels
are not values, claims and saved runs have their types, plans fit `MaxCases`. TLC evaluates them in every run.

*Types, and stored facts.* `Spec => []TypeOK`; `Spec => StoredFactsStay` step by step.

*Verified is accepted.* `VerifiedRunAccepted` is not inductive: a writer or a batch may
hold a verified row and write it back later. `HeldRowsBacked` adds every held row, and it
is inductive because runs and evidence stay, and because the property speaks of
`everComplete` and not of `topology`; topology does not stay, which is finding 3.

*The gate.* A step either writes one row that is backed (`WritesOneRow`, a `List` step),
or learns facts about one run (`LearnsOfOneRun`, a `Prove` step or nothing), or keeps
both (a stutter). Each action is shown to be one of the three, so
`Spec => GateSpec`: discovery behaves as if each verified listing were one atomic check.

*Mutual exclusion.* `OneFinisher` is inductive with the types.

*The batch runner.* `Inv` in `CaseBatchProofs` is one conjunct per phase of a
batch: while it is open its settled cases are exactly those before `at`
(`InOrder`), a case about to be reported as passed is recorded (`ItemRecorded`), exports
are the passed cases (`Exported`), the draft of `finish()` is the final form of the report
and is proved up to `at` if it is still accepted (`Deciding`), and what is published or
stored is the same, for good (`Kept`). Case by case, `AcceptCase` reads `topology`, which
may be gone one step later; the invariant keeps `everComplete`. Other batches are handled
once, by `Frame`: records only grow, and a batch that is not touched keeps its part.
`PassedIsRecorded`, `AcceptedIsProven` and `ExportsArePassed` follow.

*The client's view.* `Start` is `Appear`, `UpdateCase` is `Settle`, `Publish` is `Close`,
`Crash` is `Restart`, everything else hides; `StoreReport` hides because a report in
memory comes before the stored one, and is seen only after a crash, in its final form.

*The profile catalog* (`LossNeedsOverlap`, `BindingsHaveWorkflows`, `ActiveUnlessInterrupted`,
`LoneVerifyReportsOk`).
A registration writes back all it loaded, so it loses an entry only if what it holds is not
what readers would get. The invariant `Fresh` compares the two as long as no catalog was
written since the command began: the tables it has read so far are those of the newest row,
and so is its profile. A write by anyone ends that for everybody else by the count of
writes alone. `Newest` is a choice among rows by time, so the proof first shows that the
latest row exists (`NewestStored`, by well-foundedness of `<`), and that every write is
stamped later than all rows or is of another row (`Times`). `Audited` says that on MySQL and
PostgreSQL a catalog in the hands of a registration passes the audit, as it was stored whole;
SQLite reads it table by table, which is why the property leaves SQLite out. For the active
version one step of two actors matters: whoever is between the two statements is still there
or was interrupted (`ActiveStays`). A verification that is alone is followed through its chain
(`Proven`): what it wrote so far is all there, its row is later than every other, and its
version is the only active one since its reset, so each read that checks it finds its own.

*Schema upgrades* (`RecordedMeansApplied`, `UpgradesOnlyAdd`). That a version is recorded
last is not enough: a process that read the version row before another one's statements must
not undo them. The invariant follows every process through its list: the parts of the
statements before its next one are there (`Done`), except the column an old table of runs
still lacks (`Lacking`) until "add column" ran; "create" alone does not add it. Nobody drops what is in
use because drops name only the tables of the old graph (`Allowed`). For SQLite a
recorded change and its parts are one step.

*Migrations* (`NoSecondRun`, `EdgeListsAssets`). A command that is about to run a content read an empty
history, and it stays empty unless somebody else inserts the row, which makes the version
doubtful (`HistoryReadStays`); a content that ran without a row belongs to a command about
to insert it (`RunsAreRecorded`). Neither is inductive alone. For the edge, a graph in the
hands of a command need not agree with itself: its ids were read before its assets. The
invariant (`HoldsGraph`) is that ids and assets agree but for the versions the command is
known to be torn in. Between the two queries these are the versions that differ between the
ids it has and the assets as they are now, so each write by another command adds what it
registers or takes off (`Turned`); a write-back then stores what was held, torn versions
included, less the version just added, which agrees again.

*Restore* (`NoRestoreWithoutConsent`, `DockerStartsPrepared`). The steps that start or remove containers are far
from the flags that allow them; `Consent` carries the flags from the plan to each of them.
The second needs what the sources before the next one have become (`SourcesSoFar`), and that
files written later leave a checkout at its ref, or dirty if its files are among those written
(`SoiledInPlace`).

*Case runs* (`RowsOfOneAttempt`, `OwnEvidenceShown`). A run row is inserted once per id and never changes; who
goes on to record owns it (`RecordersOwnRun`), and rows of the import keep ids of their own.
For what readers are shown files enter: whoever wrote a file works in its directory
(`FilesPlaced`), directories never change once chosen, so an attempt that is apart now always
was, and what it reads back is its own (`FileIsOwn`). A file recorded as evidence is not torn
later, as its writer has left the places where it writes.

*Sorting and counting* (`FiniteOrders`). Nothing about data is proved by induction here, since
the library's induction theorems are out of the provers' reach; what takes its place is the least
member of a set of numbers. The members of a finite set that a strict order compares have the
ranks 0 to its size minus one, each once (`NumbersOfOrder`, `Ranks`): the rank of a member is
the number of those before it. From this come sorted lists (`Sorting`), "order by"
(`ListedByTime`) and the existence of what a loop computes (`Iterated`). The models write sorting
as what it promises, a sequence of the members in their order, for this reason.

*Component graphs* (`ProvidersStartEarlier`, `BatchesAreTight`, `LoneReadsPlanTheStore`). The plan
is a function of whatever was read, so the first two need no history. At every step of the
fixpoint the level of a component is one above its highest provider (`LevelsFollow`), so no level
below the highest is empty (`NoGap`) and batch number n is level n - 1 (`BatchesAreLevels`). For the
third the invariant says that what a reader read without an overlap is still stored. Its second half
was false as first stated: a graph that replace accepted just under the size limit
outgrows it when the Store fills in the targets of its assets, and the reader refuses
it. The property has that exception now, and `MCStoreSide` such a graph.

*Trace topologies* (`CollectedIsTrue`, `BatchShowsCaseTopology`). What a collector built confirms
edges of the trace it names from the moment it is built, as the provider only adds spans
(`BuiltIsTrue`). A save keeps a row for every run and step or counts them as moved (`Saving`), so a
collector that saved has a row to show when it records its task. While the rows of a case are
copied, the last of those that are left is the one its evidence showed (`CopierInv`), because rows
have times of their own (`RowsInv`) and the last row of the run is the last of those that name the
case, unless it names another (`foreign`). That, and a row of the batch with an id that users
may name, are the exceptions.

*Migrations, histories* (`HistoryIsTrue`, `LowerVersionsFirst`). The items of a command are what the
edge held when it began, in the order of versions, and each item before its next one is in the
history with its checksum (`Truthful`); rows never change (`Remains`).

*Restore, the end* (`OkMeansRestored`, `SelectedServicesAnswer`, `RepeatsPrepared`). What a step makes true
has to hold at the end, and outside events may undo it: the invariants follow each fact (containers,
answers) from its step, as long as nothing came in between. What the edges name is followed
position by position (`applied`): the step to the health checks is taken only if every
position is applied, and only an asset the graph has can be, so a graph without config assets,
where `EdgeAssets` is empty, is the one exception. `RepeatsPrepared` has the
condition `StartupFileSourced`, found by its proof: a startup file that no source with a URL brings is
missed only by the second restore, since the first one reads the compose file after it has looked for
the files it names. `RecordedEnvironments` got an environment, `Mounted`, with such a file.

*Schema, retries* (`RetriesSucceed`). An attempt nobody overlaps finds the schema some prefix of the
statement list made. "Create" is skipped and "add column" fails, so it succeeds unless the column of
the old runs table is there and its version is not. `ColumnIsKnown` says when that can be: a column
present before its version was added by a process that still gets to the end, or by one that was stopped.

*Case suites* (`AdviceIsSound`). A report reads run by run while runs are recorded, so what it read
is the Store of no moment. But of each case it shows what was true at one
moment of the report (`CoverageIsOfOneMoment`), if the runs of the case are recorded in order: the
newest record it read is either newer than the report, and was the newest when it was recorded, or
older, and then nothing older than the report was missed (`ReadSoFar`). A case that never failed in between
scores less than one that always did: 30 or 5, and 40 more if it is unstable, but what was never run
has no records to be unstable. That is where statuses called "not-run" would break it
(`CaseSuitesConstants`). The sorted list cuts off lower scores only (`CutOffLast`).

*The compositions* (`StoreSideRunsEveryPart`, `HostSideRunsEveryPart`, `StoreTypeOK`, `HostTypeOK`). A
behaviour of `MCStoreSide` or `MCHostSide` is one of every part, because the parts share no variable
and a step of one leaves the others as they were; so every theorem about a part is one about the
module the runs check. The types of each part follow from its invariants, which carry the shape of what a
process holds along its steps (`CatalogsKeepTypes`, `UpgradesKeepTypes`, `GraphsKeepTypes`,
`TracesTyped`, `MigrationsKeepTypes`, `RestoresKeepTypes`, `CaseRunsKeepTypes`, `SuitesKeepTypes`).

The assumptions of all these are those on the constants (`CatalogConstants`,
`SchemaConstants`, `GraphConstants`, `TraceConstants`, `MigrationConstants`, `RestoreConstants`,
`CaseRunConstants`, `CaseSuitesConstants`), evaluated by TLC in the runs.

Only model-checked: liveness (`BatchEnds`, `RestoreEnds`, `TimedBatchEnds`), which needs fairness
and ENABLED, and the counterexamples.

## 6. Findings

1. `CatalogRestoreTopology`: `docs/quickstart.md:332` says restore does not mark SkyWalking
   topology complete; `environment_restore.go:410` sets the flag from the run's acceptance.
2. `CatalogRestorePublishes`: the same page says restore does not publish as verified. A
   restore that records no run writes back the whole row it loaded, `Verified` included,
   after another command withdrew it.
3. `CatalogTopologyLost`: `docs/backend-capabilities.md:18` requires complete topology for
   verified discovery; the upsert of a topology row may replace the only complete one
   after publication, and discovery reads only the flag.
4. `BatchCoverage`: an acceptance report "must cover every workflow step", but a binding
   whose case cannot be executed is skipped silently and the rest counts as all of it.

5. `RestoreReadiness`: `docs/quickstart.md:315-319` says a component missing from the
   allow-list or the Compose file makes restore fail before Docker starts; the readiness
   report is made after the Compose commands ran (`environment_restore.go:246-252`).

## 7. What is left out

In the modelled parts: the contents of requests, exports and traces (passed or not,
complete or not); report files, post-process tasks of saved runs and the case-run rows a dashboard reads;
request materialization, whose errors are one more reason for a case to fail; a control
plane without a Store; formats of recorded JSON, of Compose files and of reports; kinds of
edge assets other than migrations; copies of environments between Stores, which keep their
verified flag. Copying topology for a finished batch is one step in `CaseBatch` and
`EnvironmentCatalog`, "some complete row or none"; `TraceCollection` has it row by row.
Evidence is asked for case runs only.

Not modelled at all, with the reason: profile import, draft, generation and audit, request
templates, executors and JUnit are transformations of one process without shared state,
where parsing and formatting dominate and tests reach what can go wrong; dashboards,
catalog views, runtime logs and the front end only read; the quality-gate tool is not part
of the program.

Hazards without a property are in `PROJECT.json` with a note: in each the code does something a
reader may question (a dropped error, a flag that survives a change, a catalog written
back), but no document or test of the repository says what it should do instead.

## 8. What could follow

1. Composition of `CaseBatch`, `TraceCollection` and `EnvironmentCatalog`: the verdict of
   the first as the input of the last, with the topology copied row by row.
2. Environments copied between Stores: what a verified row in the target is backed by.
