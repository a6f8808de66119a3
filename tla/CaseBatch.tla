----------------------------- MODULE CaseBatch -----------------------------
(***************************************************************************)
(* The batch runner of the control plane: one goroutine per batch run      *)
(* executes the selected cases one after the other, records each in the    *)
(* Store, collects its trace and updates the report that clients poll;     *)
(* finish() then builds the acceptance report and publishes everything.    *)
(*                                                                         *)
(* Store calls, the mutex and the HTTP exchange are separate steps: other  *)
(* batches, callers that collect a trace again, Store errors and a crash   *)
(* come between any two of them.  Bodies, exports and traces are data: a   *)
(* case passes or not, a trace row is complete or not.  What finish()      *)
(* writes for the environment is in EnvironmentCatalog.                    *)
(***************************************************************************)
EXTENDS Naturals, Sequences

CONSTANTS
  Batch,      \* batch run ids
  Case,       \* API cases of the catalog
  Binding,    \* the workflow: the case of each step, in order
  Selection,  \* lists of cases a caller, a suite or nodes may select
  Timed,      \* cases that have a timeoutSeconds
  MaxCases,   \* bound on the cases of a batch
  NoBatch,    \* nobody holds the mutex
  Unborn,     \* no report: the batch run does not exist
  Gone        \* no report: it was lost with the control plane

VARIABLES
  plan,          \* the cases a batch executes, with their workflow steps
  workflow,      \* whether the request names the workflow
  report,        \* apiCaseBatchRunner.runs
  mu,            \* who holds apiCaseBatchRunner.mu across steps
  pc, at,        \* where the goroutine of a batch is, and at which case
  item,          \* the status it will report for that case
  exports,       \* the cases whose exports later cases get as overrides
  draft,         \* the report finish() works on
  caseRun,       \* Store: the status of a case run
  evidence,      \* Store: case runs with their five evidence records
  topology,      \* Store: case runs with a complete row for their step now
  everComplete,  \* auxiliary: those that had one at some time
  stored         \* Store: the report in the summary of the batch's run

store == <<caseRun, evidence, topology, everComplete, stored>>
local == <<plan, workflow, item, exports>>
vars == <<plan, workflow, report, mu, pc, at, item, exports, draft, store>>

-----------------------------------------------------------------------------
Position == 1..MaxCases

\* Case run ids: batch, step and case; a position stands for the last two.
CaseRun == Batch \X Position

\* A case to execute; step 0: it is not run as a step of the workflow.
Planned == [case: Case, step: 0..Len(Binding)]

Report == [status: {"running", "passed", "failed"},
           cases: Seq({"running", "passed", "failed"}), accepted: BOOLEAN]

ASSUME CaseBatchAssumption ==
  /\ MaxCases \in Nat
  /\ Binding \in Seq(Case) /\ Len(Binding) <= MaxCases
  /\ \A s \in Selection : s \in Seq(Case) /\ Len(s) <= MaxCases
  /\ NoBatch \notin Batch
  /\ Unborn # Gone
  /\ Unborn \notin Report /\ Gone \notin Report

Phase == {"none", "execute", "record", "index", "collect", "update", "finish",
          "accept", "health", "store", "publish", "done", "lost"}

\* What finish() does while it holds the mutex.
Closing == {"accept", "health", "store", "publish"}

Init ==
  /\ plan = [b \in Batch |-> <<>>]
  /\ workflow = [b \in Batch |-> FALSE]
  /\ report = [b \in Batch |-> Unborn]
  /\ mu = NoBatch
  /\ pc = [b \in Batch |-> "none"]
  /\ at = [b \in Batch |-> 1]
  /\ item = [b \in Batch |-> "failed"]
  /\ exports = [b \in Batch |-> {}]
  /\ draft = [b \in Batch |-> Unborn]
  /\ caseRun = [c \in CaseRun |-> "none"]
  /\ evidence = {}
  /\ topology = {}
  /\ everComplete = {}
  /\ stored = [b \in Batch |-> Unborn]

\* The case run the goroutine of b is at.
Current(b) == <<b, at[b]>>

Goto(b, p) == pc' = [pc EXCEPT ![b] = p]

-----------------------------------------------------------------------------
(* Starting a batch.                                                       *)

\* The positions of the runnable cases of s, in order.
Picks(s, runnable) ==
  {f \in UNION {[1..n -> DOMAIN s] : n \in 0..Len(s)} :
     /\ \A i, j \in DOMAIN f : i < j => f[i] < f[j]
     /\ {f[i] : i \in DOMAIN f} = {i \in DOMAIN s : s[i] \in runnable}}

\* apiCaseBatchWorkflowPlans: a binding without a runnable case is skipped.
WorkflowPlans(runnable) ==
  {[k \in DOMAIN f |-> [case |-> Binding[f[k]], step |-> f[k]]] :
     f \in Picks(Binding, runnable)}

\* apiCaseBatchPlansFromCases: selected cases have no step.
SelectedPlans(s, runnable) ==
  {[k \in DOMAIN f |-> [case |-> s[f[k]], step |-> 0]] : f \in Picks(s, runnable)}

\* caseIds come before workflowId, which comes before suite and nodeIds; all
\* but the last two may be combined with the id of the workflow.
Plans(runnable, ofWorkflow) ==
  (UNION {SelectedPlans(s, runnable) : s \in Selection}) \cup
  (IF ofWorkflow THEN WorkflowPlans(runnable) ELSE {})

\* The first report of a batch that executes p.
Begun(p) ==
  [status |-> "running", cases |-> [i \in 1..Len(p) |-> "running"],
   accepted |-> FALSE]

\* startAPICaseBatchRun: runnable are the cases the catalog can execute now.
Start(b, runnable, ofWorkflow) ==
  /\ pc[b] = "none" /\ mu = NoBatch
  /\ \E p \in Plans(runnable, ofWorkflow) :
       /\ p # <<>>
       /\ plan' = [plan EXCEPT ![b] = p]
       /\ report' = [report EXCEPT ![b] = Begun(p)]
  /\ workflow' = [workflow EXCEPT ![b] = ofWorkflow]
  /\ Goto(b, "execute")
  /\ UNCHANGED <<mu, at, item, exports, draft, store>>

-----------------------------------------------------------------------------
(* One case of a batch: run().                                             *)

\* The request is materialized and sent.  Any error makes the case fail
\* without a case run; else the assertions decide.
Execute(b) ==
  /\ pc[b] = "execute"
  /\ \E s \in {"passed", "failed"} :
       /\ item' = [item EXCEPT ![b] = s]
       /\ \/ s = "failed" /\ Goto(b, "update")
          \/ Goto(b, "record")
  /\ UNCHANGED <<plan, workflow, exports, report, mu, at, draft, store>>

\* recordWorkflowRunForAPICase: CreateRun, an insert.
RecordCaseRun(b) ==
  /\ pc[b] = "record"
  /\ \/ /\ caseRun[Current(b)] = "none"
        /\ caseRun' = [caseRun EXCEPT ![Current(b)] = item[b]]
        /\ Goto(b, "index")
        /\ UNCHANGED item
     \/ /\ item' = [item EXCEPT ![b] = "failed"]
        /\ Goto(b, "update")
        /\ UNCHANGED caseRun
  /\ UNCHANGED <<plan, workflow, exports, report, mu, at, draft, evidence,
                 topology, everComplete, stored>>

\* After a case run is recorded, the trace of a passed step is collected.
AfterIndex(b) ==
  IF item[b] = "passed" /\ workflow[b] /\ plan[b][at[b]].step # 0
  THEN "collect" ELSE "update"

\* Mutant of IndexCaseRun: the error of RecordEvidence is dropped.
IndexCaseRunBlind(b) ==
  /\ pc[b] = "index"
  /\ evidence' \in {evidence, evidence \cup {Current(b)}}
  /\ Goto(b, AfterIndex(b))
  /\ UNCHANGED <<local, report, mu, at, draft, caseRun, topology, everComplete,
                 stored>>

\* RecordAPICaseRun and RecordEvidence for the five files; the first error
\* makes the case fail, although its run is stored as passed.
IndexCaseRun(b) ==
  /\ pc[b] = "index"
  /\ \/ /\ evidence' = evidence \cup {Current(b)}
        /\ Goto(b, AfterIndex(b))
        /\ UNCHANGED item
     \/ /\ item' = [item EXCEPT ![b] = "failed"]
        /\ Goto(b, "update")
        /\ UNCHANGED evidence
  /\ UNCHANGED <<plan, workflow, exports, report, mu, at, draft, caseRun,
                 topology, everComplete, stored>>

\* A topology row of case run c is written.  One that is partial or names
\* another step may take the place of the only complete row, and a request may
\* name, and so move, a row of another run d.
SaveTopology(c, d, v) ==
  IF v = "complete"
  THEN /\ topology' \in {topology \cup {c}, (topology \ {d}) \cup {c}}
       /\ everComplete' = everComplete \cup {c}
  ELSE /\ topology' \in {topology, topology \ {d}}
       /\ UNCHANGED everComplete

\* collectAndRecordTestKitTraceTopology: up to 15 attempts within 15 seconds,
\* of which at most the last one saves a row.
CollectTrace(b) ==
  /\ pc[b] = "collect"
  /\ \/ \E v \in {"partial", "complete"} :
          SaveTopology(Current(b), Current(b), v)
     \/ UNCHANGED <<topology, everComplete>>
  /\ Goto(b, "update")
  /\ UNCHANGED <<local, report, mu, at, draft, caseRun, evidence, stored>>

\* Where the goroutine goes after the report of a case.
NextCase(b) == IF at[b] < Len(plan[b]) THEN "execute" ELSE "finish"

\* rep with the status of one case.
WithCase(rep, i, s) ==
  [status |-> rep.status, cases |-> [rep.cases EXCEPT ![i] = s],
   accepted |-> rep.accepted]

\* Mutant of UpdateCase: the status is read back from the Store.
UpdateCaseFromStore(b) ==
  /\ pc[b] = "update" /\ mu = NoBatch
  /\ report' = [report EXCEPT ![b] = WithCase(@, at[b], caseRun[Current(b)])]
  /\ exports' = [exports EXCEPT ![b] =
                   IF item[b] = "passed" THEN @ \cup {at[b]} ELSE @]
  /\ Goto(b, NextCase(b))
  /\ at' = [at EXCEPT ![b] = @ + 1]
  /\ UNCHANGED <<plan, workflow, item, mu, draft, store>>

\* Mutant of UpdateCase: exports are merged whatever the case came to.
UpdateCaseExportsAll(b) ==
  /\ pc[b] = "update" /\ mu = NoBatch
  /\ report' = [report EXCEPT ![b] = WithCase(@, at[b], item[b])]
  /\ exports' = [exports EXCEPT ![b] = @ \cup {at[b]}]
  /\ Goto(b, NextCase(b))
  /\ at' = [at EXCEPT ![b] = @ + 1]
  /\ UNCHANGED <<plan, workflow, item, mu, draft, store>>

\* The exports of a passed case are merged; updateCase sets its status in the
\* report under the mutex.
UpdateCase(b) ==
  /\ pc[b] = "update" /\ mu = NoBatch
  /\ report' = [report EXCEPT ![b] = WithCase(@, at[b], item[b])]
  /\ exports' = [exports EXCEPT ![b] =
                   IF item[b] = "passed" THEN @ \cup {at[b]} ELSE @]
  /\ Goto(b, NextCase(b))
  /\ at' = [at EXCEPT ![b] = @ + 1]
  /\ UNCHANGED <<plan, workflow, item, mu, draft, store>>

-----------------------------------------------------------------------------
(* finish().                                                               *)

AllPassed(cases) == \A i \in DOMAIN cases : cases[i] = "passed"

SomeFailed(cases) == \E i \in DOMAIN cases : cases[i] = "failed"

\* The status of the report as finish() computes it from the counts, and the
\* acceptance report before evidence, topology and health are looked at.
Counted(rep, ofWorkflow) ==
  [status |-> IF SomeFailed(rep.cases) THEN "failed" ELSE "passed",
   cases |-> rep.cases,
   accepted |-> ofWorkflow /\ AllPassed(rep.cases)]

\* The acceptance report with one more requirement.
Require(rep, ok) ==
  [status |-> rep.status, cases |-> rep.cases, accepted |-> rep.accepted /\ ok]

Finish(b) ==
  /\ pc[b] = "finish" /\ mu = NoBatch
  /\ mu' = b
  /\ draft' = [draft EXCEPT ![b] = Counted(report[b], workflow[b])]
  /\ at' = [at EXCEPT ![b] = 1]
  /\ Goto(b, IF workflow[b] THEN "accept" ELSE "store")
  /\ UNCHANGED <<local, report, store>>

\* Mutant of AcceptCase: each case replaces the verdict on the ones before.
AcceptCaseLast(b) ==
  /\ pc[b] = "accept"
  /\ draft' = [draft EXCEPT ![b].accepted =
                 Current(b) \in evidence /\ Current(b) \in topology]
  /\ Goto(b, IF at[b] < Len(plan[b]) THEN "accept" ELSE "health")
  /\ at' = [at EXCEPT ![b] = @ + 1]
  /\ UNCHANGED <<local, report, mu, store>>

\* buildWorkflowAcceptanceReport reads evidence and topology case by case.
AcceptCase(b) ==
  /\ pc[b] = "accept"
  /\ draft' = [draft EXCEPT ![b] =
                 Require(@, Current(b) \in evidence /\ Current(b) \in topology)]
  /\ Goto(b, IF at[b] < Len(plan[b]) THEN "accept" ELSE "health")
  /\ at' = [at EXCEPT ![b] = @ + 1]
  /\ UNCHANGED <<local, report, mu, store>>

\* A read of the Store fails, or one of the environment's URLs is not healthy.
CheckHealth(b) ==
  /\ pc[b] = "health"
  /\ \E healthy \in BOOLEAN :
       draft' = [draft EXCEPT ![b] = Require(@, healthy)]
  /\ Goto(b, "store")
  /\ UNCHANGED <<local, report, mu, at, store>>

\* Mutant of StoreReport: the run is recorded before its acceptance.
StoreReportEarly(b) ==
  /\ pc[b] = "store"
  /\ \/ stored' = [stored EXCEPT ![b] = [draft[b] EXCEPT !.accepted = FALSE]]
     \/ UNCHANGED stored
  /\ Goto(b, "publish")
  /\ UNCHANGED <<local, report, mu, at, draft, caseRun, evidence, topology,
                 everComplete>>

\* recordAPICaseBatchReportArtifacts: CreateRun, whose error is ignored.
StoreReport(b) ==
  /\ pc[b] = "store"
  /\ \/ stored' = [stored EXCEPT ![b] = draft[b]]
     \/ UNCHANGED stored
  /\ Goto(b, "publish")
  /\ UNCHANGED <<local, report, mu, at, draft, caseRun, evidence, topology,
                 everComplete>>

\* Mutant of Publish: the mutex is not released.
PublishLocked(b) ==
  /\ pc[b] = "publish"
  /\ report' = [report EXCEPT ![b] = draft[b]]
  /\ Goto(b, "done")
  /\ UNCHANGED <<local, mu, at, draft, store>>

\* The end of finish(): the report is replaced and the mutex released.
Publish(b) ==
  /\ pc[b] = "publish"
  /\ report' = [report EXCEPT ![b] = draft[b]]
  /\ mu' = NoBatch
  /\ Goto(b, "done")
  /\ UNCHANGED <<local, at, draft, store>>

-----------------------------------------------------------------------------
(* The rest of the system.                                                 *)

\* POST /api/trace/topology/collect for the run of a case, at any time.
CollectAgain(c, d, v) ==
  /\ caseRun[c] # "none"
  /\ SaveTopology(c, d, v)
  /\ UNCHANGED <<local, report, mu, pc, at, draft, caseRun, evidence, stored>>

\* The control plane stops: reports and goroutines are only in memory.
Crash ==
  /\ report' = [b \in Batch |-> Unborn]
  /\ pc' = [b \in Batch |-> IF pc[b] = "none" THEN "none" ELSE "lost"]
  /\ mu' = NoBatch
  /\ UNCHANGED <<local, at, draft, store>>

-----------------------------------------------------------------------------
CaseStep(b) ==
  RecordCaseRun(b) \/ IndexCaseRun(b) \/ CollectTrace(b) \/ UpdateCase(b)

FinishStep(b) ==
  Finish(b) \/ AcceptCase(b) \/ CheckHealth(b) \/ StoreReport(b) \/ Publish(b)

Next ==
  \/ \E b \in Batch, runnable \in SUBSET Case, ofWorkflow \in BOOLEAN :
       Start(b, runnable, ofWorkflow)
  \/ \E b \in Batch : Execute(b) \/ CaseStep(b) \/ FinishStep(b)
  \/ \E c, d \in CaseRun, v \in {"partial", "complete"} : CollectAgain(c, d, v)
  \/ Crash

Spec == Init /\ [][Next]_vars

\* A goroutine goes on, and sync.RWMutex lets every writer in.  The request of
\* a case is only bound to end when the case has a timeout: it is sent with
\* http.DefaultClient, which has none.
FairSpec ==
  /\ Spec
  /\ \A b \in Batch :
       /\ WF_vars(Execute(b) /\ plan[b][at[b]].case \in Timed)
       /\ SF_vars(CaseStep(b))
       /\ SF_vars(FinishStep(b))

-----------------------------------------------------------------------------
(* Properties.                                                             *)

\* Every variable has its type.
TypeOK ==
  /\ plan \in [Batch -> Seq(Planned)]
  /\ \A b \in Batch : Len(plan[b]) <= MaxCases
  /\ workflow \in [Batch -> BOOLEAN]
  /\ report \in [Batch -> Report \cup {Unborn}]
  /\ mu \in Batch \cup {NoBatch}
  /\ pc \in [Batch -> Phase]
  /\ at \in [Batch -> 1..MaxCases + 1]
  /\ item \in [Batch -> {"passed", "failed"}]
  /\ exports \in [Batch -> SUBSET Position]
  /\ draft \in [Batch -> Report \cup {Unborn}]
  /\ caseRun \in [CaseRun -> {"none", "passed", "failed"}]
  /\ evidence \subseteq CaseRun
  /\ topology \subseteq CaseRun
  /\ everComplete \subseteq CaseRun
  /\ stored \in [Batch -> Report \cup {Unborn}]

\* What a client of the acceptance report gets: the report in memory, else
\* the one stored with the run.
View(b) ==
  IF report[b] # Unborn THEN report[b]
  ELSE IF stored[b] # Unborn THEN stored[b]
  ELSE IF pc[b] = "lost" THEN Gone ELSE Unborn

Visible(b) == View(b) \notin {Unborn, Gone}

\* A case that a report shows as passed is a passed case run in the Store,
\* with its five evidence records: no failed Store call hides behind a pass.
PassedIsRecorded ==
  \A b \in Batch : Visible(b) =>
    \A i \in DOMAIN View(b).cases :
      View(b).cases[i] = "passed" =>
        caseRun[<<b, i>>] = "passed" /\ <<b, i>> \in evidence

\* An accepted report is about a workflow, every case of it passed, is
\* recorded with evidence and has had a complete topology row, although rows
\* come and go while the acceptance report is built case by case.
AcceptedIsProven ==
  \A b \in Batch : Visible(b) /\ View(b).accepted =>
    /\ workflow[b]
    /\ Len(View(b).cases) = Len(plan[b])
    /\ \A i \in DOMAIN plan[b] :
         /\ caseRun[<<b, i>>] = "passed"
         /\ <<b, i>> \in evidence /\ <<b, i>> \in everComplete

\* A case is sent with the exports of exactly those earlier cases that the
\* report shows as passed.
ExportsArePassed ==
  \A b \in Batch : pc[b] = "execute" =>
    exports[b] = {i \in 1..(at[b] - 1) : report[b].cases[i] = "passed"}

\* The runner implements BatchReport: through goroutines, Store errors and
\* restarts a client sees cases settle in order and a verdict that stays.
Shown == [b \in Batch |-> View(b)]

Client == INSTANCE BatchReport WITH shown <- Shown

ClientSpec == Client!Spec

\* A batch whose cases all have a timeout ends, or is lost with the control
\* plane, even when a case without one hangs in another batch for ever.
TimedBatchEnds ==
  \A b \in Batch :
    (pc[b] = "execute" /\ \A i \in DOMAIN plan[b] : plan[b][i].case \in Timed)
      ~> pc[b] \in {"done", "lost"}

\* workflow_acceptance.go: the acceptance report must cover every workflow
\* step.
AcceptanceCoversWorkflow ==
  \A b \in Batch : Visible(b) /\ View(b).accepted =>
    \A s \in DOMAIN Binding : \E i \in DOMAIN plan[b] : plan[b][i].step = s
=============================================================================
