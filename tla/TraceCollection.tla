--------------------------- MODULE TraceCollection ---------------------------
(***************************************************************************)
(* Collection of trace topologies.                                         *)
(*                                                                         *)
(* After a case run passed, the control plane collects its trace from the  *)
(* trace provider, at once (inline) or in a goroutine, and tries again     *)
(* while the trace is not indexed; users collect again by API or CLI, for  *)
(* any run, also naming the trace, the row or another case.  Collectors    *)
(* overwrite rows of the same id and share one task row per run and step.  *)
(* When a batch ends, the rows of its case runs are copied to it.          *)
(* A case run has one case, and goes by its name.                          *)
(*                                                                         *)
(* The provider is external: it indexes the spans of a trace one by one,   *)
(* and may fail a query.  Traces here are those whose endpoint matches and *)
(* that lie in the window of the run: also those of other requests.        *)
(***************************************************************************)
EXTENDS Naturals, FiniteSets, Sequences, SequencesExt

CONSTANTS Collectors,     \* goroutines, requests and commands that collect
          CaseRuns,       \* case runs of the batch; each has one step
          Batch,          \* the run of the batch
          TraceSpans,     \* per trace: its spans
          GivenIds,       \* row ids users may name, also of rows that exist
          MaxAttempts,    \* attempts of a collection that finds no trace (15)
          MaxCollections  \* bound: collections started

Traces == DOMAIN TraceSpans
Runs == CaseRuns \cup {Batch}
None == "none"
NoId == << >>

CopyId(run) == <<Batch, run, "topology", "skywalking">>

ASSUME TraceConstants ==
    /\ Batch \notin CaseRuns /\ "waiting" \notin CaseRuns
    /\ MaxAttempts \in Nat \ {0} /\ MaxCollections \in Nat
    /\ NoId \notin GivenIds
    /\ \A t \in Traces : IsFiniteSet(TraceSpans[t])
    /\ \A t \in Traces : \A s \in TraceSpans[t] :
          /\ s.service \in STRING          \* "" when the agent reported none
          /\ s.parents \subseteq {p.key : p \in TraceSpans[t]}
          /\ s.exit \in {"none", "external", "unresolved"}

VARIABLES indexed,      \* per trace: the spans the provider has
          topologies,   \* trace_topologies: row id -> row
          tasks,        \* post_process_tasks: <<run, step>> -> status
          collectors,
          copier,       \* finish() of the batch, as far as it copies rows
          collections,
          now,          \* time of the next row
          moved         \* runs and steps that lost a row to a save that named its id

traceVars == <<indexed, topologies, tasks, collectors, copier, collections, now, moved>>

-----------------------------------------------------------------------------
(* Topology of the spans of one trace.                                     *)

\* Child and parent must both be there, each with its service.
ConfirmedEdges(spans) ==
    {<<pair[1].service, pair[2].service>> : pair \in
        {pc \in spans \X spans : /\ pc[1].key \in pc[2].parents
                                 /\ pc[1].service # "" /\ pc[2].service # ""}}

HasChild(spans, span) ==
    span.service # "" /\ \E c \in spans : span.key \in c.parents /\ c.service # ""

isUnresolvedTraceExit(span) == span.exit = "unresolved"

UnresolvedExits(spans) == {s \in spans : isUnresolvedTraceExit(s) /\ ~HasChild(spans, s)}

buildTraceTopology(trace, spans) ==
    [trace |-> trace, spans |-> Cardinality(spans), edges |-> ConfirmedEdges(spans),
     complete |-> ConfirmedEdges(spans) # {} /\ UnresolvedExits(spans) = {}]

NoTopology == [trace |-> None, spans |-> 0, edges |-> {}, complete |-> FALSE]

-----------------------------------------------------------------------------
NoCollection == [pc |-> "idle", kind |-> None, run |-> Batch, step |-> None, case |-> None,
                 trace |-> None, id |-> NoId, left |-> {}, best |-> NoTopology, error |-> FALSE,
                 attempt |-> 0]

TraceInit ==
    /\ indexed = [t \in Traces |-> {}]
    /\ topologies = << >>
    /\ tasks = << >>
    /\ collectors = [c \in Collectors |-> NoCollection]
    /\ copier = [pc |-> "waiting", left |-> CaseRuns, rows |-> << >>, shown |-> << >>,
                 foreign |-> {}, failed |-> {}]
    /\ collections = 0
    /\ now = 1
    /\ moved = {}

Collects(c, collection) == collectors' = [collectors EXCEPT ![c] = collection]

Put(f, key, value) == [k \in DOMAIN f \cup {key} |-> IF k = key THEN value ELSE f[k]]

recordPostProcessTask(run, step, status) == tasks' = Put(tasks, <<run, step>>, status)

-----------------------------------------------------------------------------
(* Starting.                                                               *)

BeginCollection(c, collection) ==
    /\ collectors[c].pc = "idle"
    /\ collections < MaxCollections
    /\ collections' = collections + 1
    /\ Collects(c, collection)
    /\ UNCHANGED <<indexed, topologies, tasks, copier, now, moved>>

\* By the control plane for a passed case run, inline or in a goroutine.
collectAndRecordTestKitTraceTopology(c) ==
    \E run \in CaseRuns :
        BeginCollection(c, [NoCollection EXCEPT !.pc = "find", !.kind = "own", !.run = run,
                                                !.step = run, !.case = run])

\* Without a provider URL a skipped task is recorded.
recordSkippedTestKitTraceTopologyTask(c) ==
    /\ collectors[c].pc = "idle"
    /\ collections < MaxCollections
    /\ collections' = collections + 1
    /\ \E run \in CaseRuns : recordPostProcessTask(run, run, "skipped")
    /\ UNCHANGED <<indexed, topologies, collectors, copier, now, moved>>

\* The case a user may name: the run's, that of another run, or one of no run here (None).
\* Rows of the batch are never read by their case, so theirs are not told apart.
GivenCases(run) == IF run = Batch THEN {None} ELSE CaseRuns \cup {None}

\* By a user: any run, step and case, a trace or an endpoint, perhaps a row id.
CollectTraceTopologyPayload(c) ==
    \E run \in Runs, step \in CaseRuns, trace \in Traces \cup {None}, id \in GivenIds \cup {NoId} :
      \E case \in GivenCases(run) :
        BeginCollection(c, [NoCollection EXCEPT !.pc = IF trace = None THEN "find" ELSE "query",
                     !.kind = "request", !.run = run, !.step = step, !.case = case,
                     !.trace = trace, !.id = id, !.left = {trace} \ {None}])

-----------------------------------------------------------------------------
(* One attempt.                                                            *)

Collected(c, pc) == [NoCollection EXCEPT !.pc = pc, !.kind = collectors[c].kind,
                         !.run = collectors[c].run, !.step = collectors[c].step,
                         !.case = collectors[c].case]

FailCollection(c) == Collected(c, "failed")

\* Only "not indexed yet" and "no queryable traces" are tried again, and not for users.
retryableTraceCollectError(c) ==
    LET attempt == collectors[c].attempt + 1
    IN  IF collectors[c].kind = "request" \/ attempt >= MaxAttempts THEN FailCollection(c)
        ELSE [collectors[c] EXCEPT !.pc = "find", !.attempt = attempt, !.best = NoTopology,
                                   !.error = FALSE]

FindCandidates(c) ==
    LET candidates == {t \in Traces : indexed[t] # {}}
    IN  /\ collectors[c].pc = "find"
        /\ \/ Collects(c, IF candidates = {} THEN retryableTraceCollectError(c)
                          ELSE [collectors[c] EXCEPT !.pc = "query", !.left = candidates])
           \/ Collects(c, FailCollection(c))
        /\ UNCHANGED <<indexed, topologies, tasks, copier, collections, now, moved>>

\* Mutant: edges of all candidates.
MergeCandidates(best, candidate) ==
    [candidate EXCEPT !.edges = @ \cup best.edges]

\* More confirmed edges win; the nearest candidate wins among equals.
Better(best, candidate) ==
    IF Cardinality(candidate.edges) > Cardinality(best.edges) \/ best.spans = 0
    THEN candidate ELSE best

\* One candidate after another, nearest first; a candidate that fails is passed over.
QueryTrace(c) ==
    /\ collectors[c].pc = "query"
    /\ collectors[c].left # {}
    /\ \E t \in collectors[c].left :
          \/ Collects(c, [collectors[c] EXCEPT !.left = @ \ {t},
                             !.best = Better(@, buildTraceTopology(t, indexed[t]))])
          \/ Collects(c, [collectors[c] EXCEPT !.left = @ \ {t}, !.error = TRUE])
    /\ UNCHANGED <<indexed, topologies, tasks, copier, collections, now, moved>>

traceTopologyRowID(collection) ==
    IF collection.id # NoId THEN collection.id
    ELSE <<collection.run, collection.step, collection.best.trace>>

Took(id, run, step) ==
    IF id \in DOMAIN topologies /\ <<topologies[id].run, topologies[id].step>> # <<run, step>>
    THEN {<<topologies[id].run, topologies[id].step>>} ELSE {}

\* The row is inserted, or taken over with its run and case.
SaveTraceTopology(id, run, step, case, topology) ==
    /\ topologies' = Put(topologies, id, [run |-> run, step |-> step, case |-> case,
                                           topology |-> topology, at |-> now])
    /\ now' = now + 1
    /\ moved' = moved \cup Took(id, run, step)

saveCollectedTraceTopology(c) ==
    LET collection == collectors[c]
        id == traceTopologyRowID(collection)
    IN  /\ collection.pc = "query" /\ collection.left = {}
        /\ \/ /\ collection.best.spans > 0
              /\ SaveTraceTopology(id, collection.run, collection.step, collection.case,
                                   collection.best)
              /\ Collects(c, Collected(c, "saved"))
           \/ /\ collection.best.spans = 0 /\ ~collection.error
              /\ Collects(c, retryableTraceCollectError(c))
              /\ UNCHANGED <<topologies, now, moved>>
           \/ /\ collection.best.spans > 0 \/ collection.error
              /\ Collects(c, FailCollection(c))
              /\ UNCHANGED <<topologies, now, moved>>
        /\ UNCHANGED <<indexed, tasks, copier, collections>>

\* The task of the run and step is recorded last, whatever it was before.
recordTestKitTraceTopologyTask(c) ==
    /\ collectors[c].pc \in {"saved", "failed"}
    /\ \/ recordPostProcessTask(collectors[c].run, collectors[c].step,
                                IF collectors[c].pc = "saved" THEN "passed" ELSE "failed")
       \/ UNCHANGED tasks
    /\ Collects(c, NoCollection)
    /\ UNCHANGED <<indexed, topologies, copier, collections, now, moved>>

\* 15 seconds are over.
CollectionTimesOut(c) ==
    /\ collectors[c].pc \in {"find", "query"}
    /\ collectors[c].kind # "request"
    /\ Collects(c, FailCollection(c))
    /\ UNCHANGED <<indexed, topologies, tasks, copier, collections, now, moved>>

KillCollector(c) ==
    /\ collectors[c].pc # "idle"
    /\ Collects(c, NoCollection)
    /\ UNCHANGED <<indexed, topologies, tasks, copier, collections, now, moved>>

\* A span arrives at the provider.
Index ==
    /\ \E t \in Traces : \E s \in TraceSpans[t] \ indexed[t] :
          indexed' = [indexed EXCEPT ![t] = @ \cup {s}]
    /\ UNCHANGED <<topologies, tasks, collectors, copier, collections, now, moved>>

-----------------------------------------------------------------------------
(* The end of the batch.                                                   *)

RowsOf(run) == {id \in DOMAIN topologies : topologies[id].run = run}

\* Mutant: the row that was written first.
ListFirst(run) == IF RowsOf(run) = {} THEN << >> ELSE
    <<topologies[CHOOSE id \in RowsOf(run) : \A x \in RowsOf(run) : topologies[id].at <= topologies[x].at]>>

\* order by created_at, id
ListTraceTopologies(run) ==
    [i \in 1 .. Cardinality(RowsOf(run)) |->
        topologies[CHOOSE id \in RowsOf(run) :
                      Cardinality({x \in RowsOf(run) : topologies[x].at < topologies[id].at}) = i - 1]]

LastRow(ids) == CHOOSE id \in ids : \A x \in ids : topologies[x].at <= topologies[id].at

\* What the evidence of a case shows: of the rows of its run that name it, the last.
storedTraceTopologyEvidence(run) ==
    LET rows == {id \in RowsOf(run) : topologies[id].case = run}
    IN  IF rows = {} THEN NoTopology ELSE topologies[LastRow(rows)].topology

\* A run is foreign if its last row names another case.
ListCaseRun ==
    /\ copier.pc = "waiting"
    /\ \E run \in copier.left :
          copier' = [copier EXCEPT !.pc = run, !.left = @ \ {run}, !.rows = ListTraceTopologies(run),
                                   !.shown = Put(@, run, storedTraceTopologyEvidence(run)),
                                   !.foreign = @ \cup {x \in {run} :
                                       /\ RowsOf(run) # {}
                                       /\ topologies[LastRow(RowsOf(run))].case # run}]
    /\ UNCHANGED <<indexed, topologies, tasks, collectors, collections, now, moved>>

\* Each row, of whatever case, goes to the one id of the step; a Store error passes it over.
copyAPICaseBatchTraceTopologies ==
    LET run == copier.pc
    IN  /\ run \in CaseRuns
        /\ IF copier.rows = << >>
           THEN copier' = [copier EXCEPT !.pc = "waiting"] /\ UNCHANGED <<topologies, now, moved>>
           ELSE \/ /\ SaveTraceTopology(CopyId(run), Batch, run, run, Head(copier.rows).topology)
                   /\ copier' = [copier EXCEPT !.rows = Tail(@)]
                \/ /\ copier' = [copier EXCEPT !.rows = Tail(@), !.failed = @ \cup {run}]
                   /\ UNCHANGED <<topologies, now, moved>>
        /\ UNCHANGED <<indexed, tasks, collectors, collections>>

TraceNext ==
    \/ \E c \in Collectors :
          \/ collectAndRecordTestKitTraceTopology(c) \/ recordSkippedTestKitTraceTopologyTask(c)
          \/ CollectTraceTopologyPayload(c)
          \/ FindCandidates(c) \/ QueryTrace(c) \/ saveCollectedTraceTopology(c)
          \/ recordTestKitTraceTopologyTask(c) \/ CollectionTimesOut(c) \/ KillCollector(c)
    \/ Index
    \/ ListCaseRun \/ copyAPICaseBatchTraceTopologies

TraceSpec == TraceInit /\ [][TraceNext]_traceVars

-----------------------------------------------------------------------------
(* Properties.                                                             *)

Topology == [trace : Traces, spans : Nat \ {0}, edges : SUBSET (STRING \X STRING), complete : BOOLEAN]

\* Type correctness.
TraceTypeOK ==
    /\ \A t \in Traces : indexed[t] \subseteq TraceSpans[t]
    /\ \A id \in DOMAIN topologies :
          /\ topologies[id].run \in Runs /\ topologies[id].step \in CaseRuns
          /\ topologies[id].case \in CaseRuns \cup {None}
          /\ topologies[id].topology \in Topology /\ topologies[id].at \in 1 .. now - 1
    /\ \A key \in DOMAIN tasks : key \in Runs \X CaseRuns /\ tasks[key] \in {"passed", "failed", "skipped"}
    /\ \A c \in Collectors :
          /\ collectors[c].pc \in {"idle", "find", "query", "saved", "failed"}
          /\ collectors[c].left \subseteq Traces /\ collectors[c].attempt \in 0 .. MaxAttempts - 1
    /\ copier.pc \in {"waiting"} \cup CaseRuns
    /\ collections \in 0 .. MaxCollections /\ now \in Nat
    /\ moved \subseteq Runs \X CaseRuns

\* A task that says "passed" has a topology of its run and step in the Store, unless
\* another save took the row over by its id; and every stored topology confirms only
\* edges of the one trace it names, also when it was made of a part of the spans or
\* chosen among the traces of several requests.
CollectedIsTrue ==
    /\ \A key \in DOMAIN tasks : tasks[key] = "passed" =>
          \/ key \in moved
          \/ \E id \in DOMAIN topologies : <<topologies[id].run, topologies[id].step>> = key
    /\ \A id \in DOMAIN topologies :
          topologies[id].topology.edges
              \subseteq ConfirmedEdges(TraceSpans[topologies[id].topology.trace])

\* Of several rows of a case the batch keeps the one the evidence of the case showed when
\* the batch ended, a partial one written after a complete one included, as long as no
\* user may name the row of the batch; unless the run's last row was collected for another
\* case: the evidence passes that row over, and the copy does not.
BatchShowsCaseTopology ==
    \A run \in DOMAIN copier.shown :
        /\ copier.pc # run /\ run \notin copier.failed /\ copier.shown[run].spans > 0
        /\ CopyId(run) \notin GivenIds
        => \/ topologies[CopyId(run)].topology = copier.shown[run]
           \/ run \in copier.foreign
=============================================================================
