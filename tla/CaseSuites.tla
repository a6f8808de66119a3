------------------------------ MODULE CaseSuites ------------------------------
(***************************************************************************)
(* Reports about suites of cases: plan, impact, priority, brief and quality.*)
(*                                                                         *)
(* A report selects cases of the bundle its reader loaded, and reads from   *)
(* the Store the case runs of these cases and the execution configurations. *)
(* It reads the case runs once for every part it is made of (a priority     *)
(* list twice; a brief reads them once more, for its counts), and a read    *)
(* lists the runs first and then the case runs of each (SQLite answers in   *)
(* one query: nothing happens in between).  Runs are recorded when they     *)
(* ended and ordered by when they started, so 1, 2, .. are the runs in the  *)
(* order they started.  Reports of commands also execute the cases and,     *)
(* before that, write the whole catalog they loaded back to the Store.      *)
(***************************************************************************)
EXTENDS Integers, FiniteSets, SequencesExt

CONSTANTS SuiteCases,      \* case the filter keeps -> [node, file, external, config, renders, active, described, weight]
          SuiteNodes,
          SuiteBindings,   \* sequence of [workflow, node, case]
          Signals,         \* what a signal matches: [nodes, workflows, cases]
          Limits,          \* numbers of cases a priority list may be limited to
          RunStatuses,     \* statuses of case runs
          StabilityLimit, MaxRuns

Unbound == 0
NoImpact == [nodes |-> {}, workflows |-> {}, cases |-> {}]
CaseIds == DOMAIN SuiteCases

ASSUME CaseSuitesConstants ==
    /\ CaseIds \subseteq Nat \ {Unbound} /\ IsFiniteSet(CaseIds)
    /\ \A c \in CaseIds : SuiteCases[c].node \in Nat /\ SuiteCases[c].weight \in Nat
    /\ SuiteBindings \in Seq([workflow : {SuiteBindings[i].workflow : i \in DOMAIN SuiteBindings},
                             node : Nat, case : CaseIds \cup {Unbound}])
    /\ Limits \subseteq Nat
    /\ "not-run" \notin RunStatuses   \* what a record says, not that there is none
    /\ StabilityLimit \in Nat \ {0} /\ MaxRuns \in Nat

VARIABLES suiteRuns,   \* run rows
          records,     \* case run rows in the order they were inserted: [run, case, status]
          configs,     \* cases with an execution configuration in the Store
          reader,      \* a report being made
          command      \* a report that executes its cases

suiteVars == <<suiteRuns, records, configs, reader, command>>

NoReport == [kind |-> "none", signal |-> NoImpact, limit |-> 0, first |-> 0]
NoReader ==
    [pc |-> "idle", part |-> "coverage", report |-> NoReport, listed |-> {}, read |-> {},
     covered |-> {}, configs |-> {}, recent |-> {}, loaded |-> {}]
NoCommandReport == [pc |-> "idle", loaded |-> {}, derived |-> {}, todo |-> << >>, run |-> 0]

CaseSuitesInit ==
    /\ suiteRuns = {}
    /\ records = << >>
    /\ configs = {}
    /\ reader = NoReader
    /\ command = NoCommandReport

-----------------------------------------------------------------------------
(* Selection, coverage and stability, of the records (indexes) that were read. *)

\* A set in the order of its members (which are never alike).
SortedBy(S, Precedes(_, _)) ==
    CHOOSE s \in SetToSeqs(S) : \A i, j \in DOMAIN s : i < j => Precedes(s[i], s[j])

SelectCases(chosen) == SortedBy(chosen, LAMBDA a, b :
    \/ SuiteCases[a].node < SuiteCases[b].node
    \/ SuiteCases[a].node = SuiteCases[b].node /\ a < b)

RecordNewer(i, j) == records[i].run > records[j].run

recordsGroupedByCase(read, c) == SortedBy({i \in read : records[i].case = c}, RecordNewer)

\* Coverage.
LatestStatus(read, c) ==
    LET newest == recordsGroupedByCase(read, c)
    IN  IF newest = << >> THEN "not-run" ELSE records[newest[1]].status

\* Stability: of records of both outcomes, two that follow each other differ.
Unstable(read, c) ==
    LET newest == recordsGroupedByCase(read, c)
        recent == SubSeq(newest, 1, IF Len(newest) > StabilityLimit THEN StabilityLimit ELSE Len(newest))
    IN  {"passed", "failed"} \subseteq {records[recent[i]].status : i \in DOMAIN recent}

-----------------------------------------------------------------------------
(* Readiness and quality.                                                  *)

\* POST, PUT and PATCH need a body, from the configuration or from what the case renders.
HasConfigOfProfile(c) ==
    SuiteCases[c].config = "whole" \/ (SuiteCases[c].config = "bodyless" /\ SuiteCases[c].renders)

ExecutionConfigSet(stored) == {c \in CaseIds : HasConfigOfProfile(c)} \cup stored

IssueWhen(condition, issue) == IF condition THEN {issue} ELSE {}

inspectionIssues(c, executable) ==
    IssueWhen(~SuiteCases[c].active, "lifecycle")
        \cup IssueWhen(~SuiteCases[c].file /\ c \notin executable, "missing-runnable")

SuggestedAction(c, executable, status) ==
    IF ~SuiteCases[c].active THEN "review-status"
    ELSE IF ~SuiteCases[c].file /\ c \notin executable THEN "add-runnable-case"
    ELSE IF status = "failed" THEN "rerun"
    ELSE IF status = "not-run" THEN "run"
    ELSE "keep"

hasRunnableSource(c) == SuiteCases[c].file \/ SuiteCases[c].external # "none"
hasUsableExecutorReference(c) == SuiteCases[c].external = "usable"

qualityCaseIssues(c, executable) ==
    IssueWhen(SuiteCases[c].external = "unusable", "missing-executor")
        \cup IssueWhen(~SuiteCases[c].active, "lifecycle")
        \cup IssueWhen(~SuiteCases[c].described, "metadata")
        \cup IssueWhen(~hasRunnableSource(c), "missing-runnable-source")
        \cup IssueWhen(c \notin executable /\ ~hasUsableExecutorReference(c), "missing-execution-config")

\* An unusable executor alone gets no action.
addQualityCaseActions(chosen, executable) ==
    UNION {{<<c, issue>> : issue \in qualityCaseIssues(c, executable) \ {"missing-executor"}} : c \in chosen}

\* Nodes without a selected case, whatever cases the filter left out.
Uncovered(chosen) == SuiteNodes \ {SuiteCases[c].node : c \in chosen}
addQualityNodeActions(chosen) == {<<node, "draft-case">> : node \in Uncovered(chosen)}

-----------------------------------------------------------------------------
(* Impact: one pass over the bindings, in their order.                     *)

Bind(impact, binding) ==
    LET workflows == impact.workflows \cup
                         (IF binding.node \in impact.nodes THEN {binding.workflow} ELSE {})
    IN  IF binding.workflow \notin workflows THEN impact
        ELSE [nodes |-> impact.nodes \cup ({binding.node} \ {Unbound}), workflows |-> workflows,
              cases |-> impact.cases \cup ({binding.case} \ {Unbound})]

collectImpact(signal) ==
    LET impact == FoldLeft(Bind, signal, SuiteBindings)
    IN  (impact.cases \cap CaseIds) \cup {c \in CaseIds : SuiteCases[c].node \in impact.nodes}

-----------------------------------------------------------------------------
(* Priority.                                                               *)

\* Mutant: a case that never ran counts more than one that failed.
UnrunFirst(c, status, unstable, impacted) ==
    (IF impacted THEN 100 ELSE 0)
        + (CASE status = "failed" -> 30 [] status = "not-run" -> 60 [] status = "passed" -> 5 [] OTHER -> 0)
        + (IF unstable THEN 40 ELSE 0) + SuiteCases[c].weight
priorityScore(c, status, unstable, impacted) ==
    (IF impacted THEN 100 ELSE 0)
        + (CASE status = "failed" -> 60 [] status = "not-run" -> 30 [] status = "passed" -> 5 [] OTHER -> 0)
        + (IF unstable THEN 40 ELSE 0) + SuiteCases[c].weight

sortPriorityItems(ready, score) == SortedBy(ready, LAMBDA a, b :
    \/ score[a] > score[b]
    \/ /\ score[a] = score[b]
       /\ \/ SuiteCases[a].weight > SuiteCases[b].weight
          \/ /\ SuiteCases[a].weight = SuiteCases[b].weight
             /\ \/ SuiteCases[a].node < SuiteCases[b].node
                \/ SuiteCases[a].node = SuiteCases[b].node /\ a < b)

priorityLimit(limit, available) == IF limit = 0 \/ limit > available THEN available ELSE limit

\* The report's cases, by the parts that were read.
Impacted == collectImpact(reader.report.signal)
Chosen == IF reader.report.kind = "impact" THEN Impacted ELSE CaseIds
Executable == ExecutionConfigSet(reader.configs)
Ready == {c \in Chosen : inspectionIssues(c, Executable) = {}}

priorityFromParts ==
    LET score == [c \in Ready |-> priorityScore(c, LatestStatus(reader.covered, c),
                                                Unstable(reader.recent, c), c \in Impacted)]
        sorted == sortPriorityItems(Ready, score)
    IN  SubSeq(sorted, 1, priorityLimit(reader.report.limit, Len(sorted)))

\* Plan: the ready cases whose suggested action was asked for.
PlanSelected(actions) ==
    SelectCases({c \in Ready :
        actions = {} \/ SuggestedAction(c, Executable, LatestStatus(reader.covered, c)) \in actions})

-----------------------------------------------------------------------------
(* Making a report.                                                        *)

Reads(next) == reader' = next /\ UNCHANGED <<suiteRuns, records, configs, command>>

\* A report is asked for; a priority list is also the list of a brief.
BeginReport ==
    /\ reader.pc = "idle" /\ command.pc = "idle"
    /\ \E kind \in {"plan", "impact", "priority", "quality"},
          signal \in (Signals \cup {NoImpact}), limit \in Limits :
          /\ kind \in {"plan", "quality"} => signal = NoImpact
          /\ kind # "priority" => limit = CHOOSE l \in Limits : TRUE
          /\ Reads([NoReader EXCEPT !.pc = IF kind = "quality" THEN "configs" ELSE "list",
                       !.loaded = IF kind = "impact" THEN configs ELSE {},
                       !.report = [kind |-> kind, signal |-> signal, limit |-> limit,
                                   first |-> Len(records)]])

ListRuns ==
    /\ reader.pc = "list"
    /\ Reads([reader EXCEPT !.pc = "runs", !.listed = suiteRuns])

NextRun == CHOOSE run \in reader.listed : \A other \in reader.listed : run <= other

ListAPICaseRuns ==
    /\ reader.pc = "runs" /\ reader.listed # {}
    /\ Reads([reader EXCEPT !.listed = @ \ {NextRun},
                 !.read = @ \cup {i \in DOMAIN records : records[i].run = NextRun}])

\* Every run was visited: what was read makes the coverage, or then the stability.
RecordsForCaseIDs ==
    /\ reader.pc = "runs" /\ reader.listed = {}
    /\ Reads(IF reader.part = "coverage"
             THEN [reader EXCEPT !.pc = "configs", !.covered = reader.read, !.read = {}]
             ELSE [reader EXCEPT !.pc = "done", !.recent = reader.read, !.read = {}])

ReadExecutionConfigs ==
    /\ reader.pc = "configs"
    /\ Reads(IF reader.report.kind = "priority"
             THEN [reader EXCEPT !.pc = "list", !.part = "stability", !.configs = configs]
             ELSE [reader EXCEPT !.pc = "done", !.configs = configs])

-----------------------------------------------------------------------------
(* What changes the Store.                                                 *)

CreateSuiteRun(run) ==
    /\ run \notin suiteRuns
    /\ suiteRuns' = suiteRuns \cup {run}
    /\ UNCHANGED <<records, configs, reader>>

RecordSuiteCaseRun(run, c, status) ==
    /\ run \in suiteRuns /\ \A i \in DOMAIN records : records[i].run # run
    /\ records' = Append(records, [run |-> run, case |-> c, status |-> status])
    /\ UNCHANGED <<suiteRuns, configs, reader>>

\* Other runs (bounds: before a report and while a priority list is made, and not while a
\* command makes its own).
BatchesRun ==
    /\ command.pc = "idle"
    /\ reader.pc = "idle" \/ (reader.report.kind = "priority" /\ reader.pc # "done")
    /\ \E run \in 1 .. MaxRuns :
          \/ CreateSuiteRun(run)
          \/ \E c \in CaseIds, status \in RunStatuses : RecordSuiteCaseRun(run, c, status)
    /\ UNCHANGED command

\* A configuration is registered (bounds: for a case that has nothing else to run it
\* by, until the report is made).
AddExecutionConfig ==
    /\ reader.pc # "done" /\ \E c \in CaseIds \ ExecutionConfigSet(configs) :
          ~SuiteCases[c].file /\ configs' = configs \cup {c}
    /\ UNCHANGED <<suiteRuns, records, reader, command>>

\* A case without a configuration of its own gets one derived from another case's at its
\* node: of the cases to run, those that get one.
deriveInterfaceNodeCaseConfigs(loaded, todo) ==
    {c \in ToSet(todo) : \E other \in CaseIds :
        /\ SuiteCases[other].node = SuiteCases[c].node
        /\ other \in loaded \/ SuiteCases[other].config # "none"}

Loaded(loaded, derived, todo) ==
    [NoCommandReport EXCEPT !.pc = "loaded", !.loaded = loaded, !.derived = derived, !.todo = todo]

LoadReportBundle(todo, derives) ==
    /\ command.pc = "idle" /\ reader.pc = "idle" /\ todo # << >>
    /\ command' = Loaded(configs, IF derives THEN deriveInterfaceNodeCaseConfigs(configs, todo) ELSE {}, todo)
    /\ UNCHANGED <<suiteRuns, records, configs, reader>>

runCaseSuiteReport == LoadReportBundle(SelectCases(CaseIds), TRUE)

runInterfaceNodeCaseReport ==
    \E node \in SuiteNodes : LoadReportBundle(SelectCases({c \in CaseIds : SuiteCases[c].node = node}), TRUE)

\* The cases bound to a workflow's steps, in their order.
runnableWorkflowCases(workflow) ==
    LET bound == SortedBy({i \in DOMAIN SuiteBindings :
                     SuiteBindings[i].workflow = workflow /\ SuiteBindings[i].case # Unbound},
                     LAMBDA i, j : i < j)
    IN  [i \in DOMAIN bound |-> SuiteBindings[bound[i]].case]

runWorkflowReport ==
    /\ \E workflow \in {SuiteBindings[i].workflow : i \in DOMAIN SuiteBindings} :
          LoadReportBundle(runnableWorkflowCases(workflow), FALSE)

\* The cases an impact report selected, of the catalog that was loaded before it.
runCaseSuiteImpactReport ==
    /\ command.pc = "idle" /\ reader.pc = "done" /\ reader.report.kind = "impact"
    /\ \E actions \in {{}, {"run", "rerun"}} :
          LET todo == PlanSelected(actions)
          IN  /\ todo # << >>
              /\ command' = Loaded(reader.loaded, deriveInterfaceNodeCaseConfigs(reader.loaded, todo), todo)
    /\ UNCHANGED <<suiteRuns, records, configs, reader>>

\* The catalog of the Store becomes the loaded one, with what was derived.
executeCaseSuiteReport ==
    /\ command.pc = "loaded"
    /\ configs' = command.loaded \cup command.derived
    /\ command' = [command EXCEPT !.pc = "run"]
    /\ UNCHANGED <<suiteRuns, records, reader>>

\* The test kit runs a case by its configuration, another case's at its node, or what its
\* request template renders, and never by its file.
deriveCaseExecutionConfigFromCatalog(c) ==
    \/ SuiteCases[c].renders
    \/ \E other \in CaseIds : /\ SuiteCases[other].node = SuiteCases[c].node
                              /\ other \in configs \/ SuiteCases[other].config # "none"

findRunnableAPICase(c) ==
    c \in configs \/ SuiteCases[c].config # "none" \/ deriveCaseExecutionConfigFromCatalog(c)

executeTestKitCase(c) == {"failed"} \cup (IF findRunnableAPICase(c) THEN {"passed"} ELSE {})

\* A case of a batch, or a step of a workflow: this one is the last when it fails.
postTestKitRunBatch ==
    /\ command.pc = "run" /\ command.todo # << >>
    /\ \/ /\ command.run = 0
          /\ \E run \in 1 .. MaxRuns : CreateSuiteRun(run) /\ command' = [command EXCEPT !.run = run]
       \/ /\ command.run # 0
          /\ LET c == Head(command.todo)
             IN  \E status \in executeTestKitCase(c), stops \in BOOLEAN :
                    /\ stops => status = "failed"
                    /\ RecordSuiteCaseRun(command.run, c, status)
                    /\ command' = [command EXCEPT !.run = 0, !.todo = IF stops THEN << >> ELSE Tail(@)]

\* A workflow's report is saved as a run without case runs, if that succeeds.
EndCommandReport ==
    /\ command.pc = "run" /\ command.todo = << >>
    /\ command' = NoCommandReport
    /\ \/ UNCHANGED <<suiteRuns, records, configs, reader>>
       \/ \E run \in 1 .. MaxRuns : CreateSuiteRun(run)

CommandReportFails ==
    /\ command.pc # "idle"
    /\ command' = NoCommandReport
    /\ UNCHANGED <<suiteRuns, records, configs, reader>>

CaseSuitesNext ==
    \/ BeginReport \/ ListRuns \/ ListAPICaseRuns \/ RecordsForCaseIDs \/ ReadExecutionConfigs
    \/ BatchesRun \/ AddExecutionConfig
    \/ runCaseSuiteReport \/ runInterfaceNodeCaseReport \/ runWorkflowReport \/ runCaseSuiteImpactReport
    \/ executeCaseSuiteReport \/ postTestKitRunBatch \/ EndCommandReport \/ CommandReportFails

CaseSuitesSpec == CaseSuitesInit /\ [][CaseSuitesNext]_suiteVars

-----------------------------------------------------------------------------
(* Properties.                                                             *)

\* Type correctness.
CaseSuitesTypeOK ==
    /\ suiteRuns \subseteq 1 .. MaxRuns
    /\ \A i \in DOMAIN records : records[i].run \in suiteRuns /\ records[i].case \in CaseIds
    /\ configs \subseteq CaseIds
    /\ reader.pc \in {"idle", "list", "runs", "configs", "done"}
    /\ (reader.read \cup reader.covered \cup reader.recent) \subseteq DOMAIN records
    /\ reader.configs \subseteq CaseIds
    /\ command.pc \in {"idle", "loaded", "run"} /\ command.loaded \subseteq CaseIds

\* The newest run of the case was failed after the first n case runs.
FailedAfter(c, n) == LatestStatus(1 .. n, c) = "failed"
During == reader.report.first .. Len(records)

\* Runs of the case are recorded in the order they started, as long as the report reads.
RecordedInOrder(c) ==
    \A i, j \in {k \in DOMAIN records : records[k].case = c} :
        i > reader.report.first /\ j < i => RecordNewer(i, j)

\* A ready case whose newest run was failed from the beginning of a priority list to its end
\* is cut off by the limit only for cases of a higher weight, for impacted ones when it is
\* not, and for those whose newest run was failed at some moment of the report: however case
\* runs arrive between and within the reads the score is put together from, as long as an
\* earlier run is not recorded after a later one.
FailuresFirst ==
    reader.report.kind = "priority" =>
        \A c \in Ready \ ToSet(priorityFromParts), other \in ToSet(priorityFromParts) :
            /\ \A n \in During : FailedAfter(c, n)
            /\ RecordedInOrder(c) /\ RecordedInOrder(other)
            /\ SuiteCases[other].weight <= SuiteCases[c].weight
            /\ other \in Impacted => c \in Impacted
            => \E n \in During : FailedAfter(other, n)

\* A quality report has an action for every case that lists and plans leave out, unless an
\* executor elsewhere runs it: the two judge by different conditions.
BlockedCasesGetActions ==
    reader.report.kind = "quality" =>
        \A c \in Chosen \ Ready :
            hasUsableExecutorReference(c) \/ \E issue \in {"lifecycle", "metadata", "missing-runnable-source",
                "missing-execution-config"} : <<c, issue>> \in addQualityCaseActions(Chosen, Executable)

\* A finished report directs its reader to what failed and to what cannot run (the two above).
AdviceIsSound == reader.pc = "done" => FailuresFirst /\ BlockedCasesGetActions
=============================================================================
