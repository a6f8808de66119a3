------------------------- MODULE EnvironmentCatalog -------------------------
(***************************************************************************)
(* The Environment Catalog of AgentTestBench: how an environment row       *)
(* becomes "verified" and who may write it.                                *)
(*                                                                         *)
(* The selected Store (an SQL database) is shared by the control plane and *)
(* by any number of CLI processes.  None of them uses a transaction or a   *)
(* version column: a command loads the whole row, computes a new one and   *)
(* upserts it.  The model keeps every load and every upsert as steps of    *)
(* their own, so that commands interleave the way the code lets them.      *)
(*                                                                         *)
(* A run, an evidence record and a topology row are modelled by what       *)
(* ValidateEnvironmentPublishable reads of them.                           *)
(***************************************************************************)
EXTENDS FiniteSets

CONSTANTS
  Env,            \* environment ids
  Workflow,       \* verification workflow ids
  Config,         \* what repos, compose files and health checks say
  BatchId,        \* ids the control plane gives to batch runs
  SavedId,        \* ids it gives to saved workflow runs
  Writer,         \* concurrent CLI commands and HTTP requests
  Claim,          \* results a caller of verify may claim
  SavedRun,       \* runs a caller of POST /api/workflow-runs may send
  Timed,          \* batch runs whose cases all have a timeoutSeconds
  RegisterLabel,  \* the status texts a registration may carry
  NoRun,          \* an empty last_verification_run_id
  NoRow,          \* "not found" in the Store, or nothing loaded
  NoWorkflow      \* a run summary without an acceptance that passes

VARIABLES
  envs,          \* environments: one row per id, upserted whole
  runs,          \* runs: insert only
  evidence,      \* the runs that have at least one evidence record
  topology,      \* the runs that have a complete SkyWalking topology row now
  everComplete,  \* auxiliary: the runs that had one at some time
  batch,         \* the control plane's in-memory batch runs
  finisher,      \* the batch that holds apiCaseBatchRunner.mu in finish
  writer         \* what each command holds between its load and its upsert

store == <<envs, runs, evidence, topology, everComplete>>
vars == <<envs, runs, evidence, topology, everComplete, batch, finisher, writer>>

-----------------------------------------------------------------------------
(* Rows.                                                                   *)

RunId == BatchId \cup SavedId

Label == {"draft", "verification-recorded", "verified-ready", "verified"}

EnvRow == [workflow: Workflow, config: Config, run: RunId \cup {NoRun},
           status: {"none", "passed", "failed"}, evidence: BOOLEAN,
           topology: BOOLEAN, label: Label, verified: BOOLEAN]

\* accepted: the workflow the stored acceptance report passes for, if any.
RunRow == [env: Env, status: {"running", "passed", "failed"},
           accepted: Workflow \cup {NoWorkflow}]

ASSUME CatalogAssumption ==
  /\ BatchId \cap SavedId = {} /\ Timed \subseteq BatchId
  /\ NoRun \notin RunId /\ NoWorkflow \notin Workflow
  /\ NoRow \notin EnvRow \cup RunRow \cup Env
  /\ Claim \subseteq [status: {"passed", "failed"}, evidence: BOOLEAN, topology: BOOLEAN]
  /\ SavedRun \subseteq RunRow
  /\ RegisterLabel \subseteq {"draft", "verified"}

Registered(wf, c, l) ==
  [workflow |-> wf, config |-> c, run |-> NoRun, status |-> "none",
   evidence |-> FALSE, topology |-> FALSE, label |-> l, verified |-> FALSE]

\* Mutant of Recorded: the verified flag of the loaded row is kept.
RecordedVerified(row, r, claim) ==
  [row EXCEPT !.run = r, !.status = claim.status,
     !.evidence = claim.evidence, !.topology = claim.topology,
     !.label = "verification-recorded"]

\* What `environment verify` and POST .../verify make of the row they loaded.
Recorded(row, r, claim) ==
  [row EXCEPT !.run = r, !.status = claim.status,
     !.evidence = claim.evidence, !.topology = claim.topology,
     !.verified = FALSE,
     !.label = IF claim.status = "passed" /\ claim.evidence /\ claim.topology
               THEN "verified-ready" ELSE "verification-recorded"]

Published(row) == [row EXCEPT !.verified = TRUE, !.label = "verified"]

\* Mutant of Finalized: an accepted run publishes the environment at once.
FinalizedPublishing(row, b, ok) ==
  [row EXCEPT !.run = b, !.status = IF ok THEN "passed" ELSE "failed",
     !.evidence = ok, !.topology = ok, !.verified = ok,
     !.label = IF ok THEN "verified-ready" ELSE "verification-recorded"]

\* What the end of a batch run makes of it.
Finalized(row, b, ok) ==
  [row EXCEPT !.run = b, !.status = IF ok THEN "passed" ELSE "failed",
     !.evidence = ok, !.topology = ok, !.verified = FALSE,
     !.label = IF ok THEN "verified-ready" ELSE "verification-recorded"]

\* What `environment restore --run-workflow` makes of it.
Restored(row, b, ok) ==
  [row EXCEPT !.run = b, !.status = IF ok THEN "passed" ELSE "failed",
     !.evidence = ok, !.topology = ok, !.verified = FALSE,
     !.label = "verification-recorded"]

\* Mutant of AcceptancePassed: any passing acceptance report will do.
AcceptancePassedForAny(r, wf) == runs[r].accepted # NoWorkflow

\* workflowAcceptancePassed
AcceptancePassed(r, wf) == runs[r].accepted = wf

\* ValidateEnvironmentPublishable.  Runs and evidence are never changed or
\* removed, so its reads are one step at the last of them, the topology rows.
Publishable(row) ==
  /\ row.status = "passed" /\ row.run # NoRun
  /\ row.evidence /\ row.topology
  /\ runs[row.run] # NoRow
  /\ runs[row.run].status = "passed"
  /\ row.run \in evidence
  /\ row.run \in topology
  /\ AcceptancePassed(row.run, row.workflow)

-----------------------------------------------------------------------------
(* Processes.                                                              *)

Idle == [pc |-> "idle", op |-> "none", env |-> NoRow, row |-> NoRow, run |-> NoRun]

WriterState ==
  [pc: {"idle", "validate", "write", "restoring", "waiting", "saving", "copying"},
   op: {"none", "verify", "config", "publish", "restore", "save"},
   env: Env \cup {NoRow}, row: EnvRow \cup {NoRow}, run: RunId \cup {NoRun}]

NoBatch == [phase |-> "none", env |-> NoRow, workflow |-> NoWorkflow,
            verdict |-> "none", row |-> NoRow]

Finishing == {"recording", "indexing", "copying", "loading", "finalizing"}

BatchState ==
  [phase: {"none", "running", "done", "lost"} \cup Finishing,
   env: Env \cup {NoRow}, workflow: Workflow \cup {NoWorkflow},
   verdict: {"none", "failed", "passed", "accepted"}, row: EnvRow \cup {NoRow}]

Init ==
  /\ envs = [e \in Env |-> NoRow]
  /\ runs = [r \in RunId |-> NoRow]
  /\ evidence = {}
  /\ topology = {}
  /\ everComplete = {}
  /\ batch = [b \in BatchId |-> NoBatch]
  /\ finisher = NoRun
  /\ writer = [w \in Writer |-> Idle]

Exists(e) == envs[e] # NoRow

\* Run ids end in a nanosecond timestamp: a new one was never used.
FreshBatch(b) == batch[b].phase = "none"

\* A command that loaded env e goes on at p, holding row.
Hold(w, p, o, e, row) ==
  writer' = [writer EXCEPT ![w] =
               [pc |-> p, op |-> o, env |-> e, row |-> row, run |-> NoRun]]

-----------------------------------------------------------------------------
(* Commands on an environment row.                                         *)

\* environment register, POST /api/environments: no load, one upsert.
Register(e, wf, c, l) ==
  /\ envs' = [envs EXCEPT ![e] = Registered(wf, c, l)]
  /\ UNCHANGED <<runs, evidence, topology, everComplete, batch, finisher, writer>>

\* environment verify: the caller names the run and claims its result.
StartVerify(w, e, r, claim) ==
  /\ writer[w].pc = "idle" /\ Exists(e)
  /\ Hold(w, "write", "verify", e, Recorded(envs[e], r, claim))
  /\ UNCHANGED <<store, batch, finisher>>

\* environment repo set, startup-file put: the verification fields stay.
StartConfigChange(w, e, c) ==
  /\ writer[w].pc = "idle" /\ Exists(e)
  /\ Hold(w, "write", "config", e, [envs[e] EXCEPT !.config = c])
  /\ UNCHANGED <<store, batch, finisher>>

StartPublish(w, e) ==
  /\ writer[w].pc = "idle" /\ Exists(e)
  /\ Hold(w, "validate", "publish", e, envs[e])
  /\ UNCHANGED <<store, batch, finisher>>

Validate(w) ==
  /\ writer[w].pc = "validate"
  /\ IF Publishable(writer[w].row)
     THEN Hold(w, "write", "publish", writer[w].env, Published(writer[w].row))
     ELSE writer' = [writer EXCEPT ![w] = Idle]
  /\ UNCHANGED <<store, batch, finisher>>

\* UpsertEnvironment: the whole row the command holds replaces the stored one.
Write(w) ==
  /\ writer[w].pc = "write"
  /\ envs' = [envs EXCEPT ![writer[w].env] = writer[w].row]
  /\ writer' = [writer EXCEPT ![w] = Idle]
  /\ UNCHANGED <<runs, evidence, topology, everComplete, batch, finisher>>

\* The process is killed, or a Store call returns an error.
Abandon(w) ==
  /\ writer[w].pc # "idle"
  /\ writer' = [writer EXCEPT ![w] = Idle]
  /\ UNCHANGED <<store, batch, finisher>>

-----------------------------------------------------------------------------
(* environment restore: load, bring the stack up, run the acceptance       *)
(* workflow on the server, upsert what was loaded minutes ago.             *)

StartRestore(w, e) ==
  /\ writer[w].pc = "idle" /\ Exists(e)
  /\ Hold(w, "restoring", "restore", e, envs[e])
  /\ UNCHANGED <<store, batch, finisher>>

\* A dry run, no --run-workflow, a failed restore, or no run id from the
\* server: the verification fields keep their loaded values.
RestoreWithoutRun(w) ==
  /\ writer[w].pc = "restoring"
  /\ writer' = [writer EXCEPT ![w].pc = "write"]
  /\ UNCHANGED <<store, batch, finisher>>

\* POST acceptance-runs.  The server loads the row again and uses the
\* workflow the row names now.
RestoreStartRun(w, b) ==
  /\ writer[w].pc = "restoring"
  /\ Exists(writer[w].env) /\ FreshBatch(b)
  /\ batch' = [batch EXCEPT ![b] = [NoBatch EXCEPT !.phase = "running",
                 !.env = writer[w].env, !.workflow = envs[writer[w].env].workflow]]
  /\ writer' = [writer EXCEPT ![w].pc = "waiting", ![w].run = b]
  /\ UNCHANGED <<store, finisher>>

\* The report the server gives for b: from memory, else from the stored run.
ReportReadable(b, e) ==
  \/ batch[b].phase = "done"
  \/ /\ batch[b].phase = "lost"
     /\ runs[b] # NoRow /\ runs[b].env = e

ReportAccepts(b, wf) ==
  IF batch[b].phase = "done"
  THEN batch[b].verdict = "accepted" /\ batch[b].workflow = wf
  ELSE AcceptancePassed(b, wf)

\* A restore has its verdict and will upsert row.
Ready(state, row) == [state EXCEPT !.pc = "write", !.row = row]

\* A poll returns a finished report.
RestoreRead(w) ==
  LET b == writer[w].run
      row == writer[w].row
  IN /\ writer[w].pc = "waiting"
     /\ ReportReadable(b, writer[w].env)
     /\ writer' = [writer EXCEPT ![w] =
                     Ready(@, Restored(row, b, ReportAccepts(b, row.workflow)))]
     /\ UNCHANGED <<store, batch, finisher>>

\* Mutant of RestoreGiveUp: without a deadline only an answer ends the wait.
RestoreGiveUpOnAnswer(w) ==
  /\ writer[w].pc = "waiting"
  /\ ReportReadable(writer[w].run, writer[w].env)
  /\ writer' = [writer EXCEPT ![w] =
                  Ready(@, Restored(writer[w].row, writer[w].run, FALSE))]
  /\ UNCHANGED <<store, batch, finisher>>

\* The deadline passes, or a poll fails: the run id is kept, as failed.
RestoreGiveUp(w) ==
  /\ writer[w].pc = "waiting"
  /\ writer' = [writer EXCEPT ![w] =
                  Ready(@, Restored(writer[w].row, writer[w].run, FALSE))]
  /\ UNCHANGED <<store, batch, finisher>>

-----------------------------------------------------------------------------
(* Batch runs of the control plane and the end of one, finish().           *)

\* POST /api/cases/batch-runs: any environment id and workflow.
\* POST /api/environments/{id}/acceptance-runs is the case where wf is the
\* workflow of the row.
StartBatch(b, e, wf) ==
  /\ FreshBatch(b)
  /\ batch' = [batch EXCEPT ![b] = [NoBatch EXCEPT !.phase = "running",
                                      !.env = e, !.workflow = wf]]
  /\ UNCHANGED <<store, finisher, writer>>

\* Mutant of DecideBatch: finish without apiCaseBatchRunner.mu.
DecideBatchUnlocked(b, verdict) ==
  /\ batch[b].phase = "running"
  /\ verdict \in {"failed", "passed", "accepted"}
  /\ verdict = "accepted" => Exists(batch[b].env)
  /\ batch' = [batch EXCEPT ![b].phase = "recording", ![b].verdict = verdict]
  /\ finisher' = b
  /\ UNCHANGED <<store, writer>>

\* finish takes the mutex, counts the cases and builds the acceptance report,
\* whose node health fails when the environment cannot be loaded.
DecideBatch(b, verdict) ==
  /\ batch[b].phase = "running" /\ finisher = NoRun
  /\ verdict \in {"failed", "passed", "accepted"}
  /\ verdict = "accepted" => Exists(batch[b].env)
  /\ batch' = [batch EXCEPT ![b].phase = "recording", ![b].verdict = verdict]
  /\ finisher' = b
  /\ UNCHANGED <<store, writer>>

\* Mutant of BatchRun: the verdict is stored as the status.
BatchRunVerdict(b) ==
  [env |-> batch[b].env, status |-> batch[b].verdict,
   accepted |-> IF batch[b].verdict = "accepted" THEN batch[b].workflow
                ELSE NoWorkflow]

BatchRun(b) ==
  [env |-> batch[b].env,
   status |-> IF batch[b].verdict = "failed" THEN "failed" ELSE "passed",
   accepted |-> IF batch[b].verdict = "accepted" THEN batch[b].workflow
                ELSE NoWorkflow]

\* CreateRun, an insert; its failure skips the evidence.
RecordBatchRun(b) ==
  /\ batch[b].phase = "recording"
  /\ \/ /\ runs[b] = NoRow
        /\ runs' = [runs EXCEPT ![b] = BatchRun(b)]
        /\ batch' = [batch EXCEPT ![b].phase = "indexing"]
     \/ /\ batch' = [batch EXCEPT ![b].phase = "copying"]
        /\ UNCHANGED runs
  /\ UNCHANGED <<envs, evidence, topology, everComplete, finisher, writer>>

\* RecordEvidence for the report files; each failure is ignored.
IndexBatchEvidence(b) ==
  /\ batch[b].phase = "indexing"
  /\ evidence' \in {evidence, evidence \cup {b}}
  /\ batch' = [batch EXCEPT ![b].phase = "copying"]
  /\ UNCHANGED <<envs, runs, topology, everComplete, finisher, writer>>

\* SaveTraceTopology upserts by row id.  A complete row makes r complete; a
\* partial one may take the place of the only complete row; and the id may be
\* that of a row of another run q, which then belongs to r.
SaveTopology(r, q, v) ==
  IF v = "complete"
  THEN /\ topology' \in {topology \cup {r}, (topology \ {q}) \cup {r}}
       /\ everComplete' = everComplete \cup {r}
  ELSE /\ topology' \in {topology, topology \ {q}}
       /\ UNCHANGED everComplete

\* The copies of the case runs' topology rows, which need the run's row
\* (foreign key); each failure is ignored.
CopyBatchTopology(b) ==
  /\ batch[b].phase = "copying"
  /\ \/ runs[b] # NoRow /\ SaveTopology(b, b, "complete")
     \/ UNCHANGED <<topology, everComplete>>
  /\ batch' = [batch EXCEPT ![b].phase = "loading"]
  /\ UNCHANGED <<envs, runs, evidence, finisher, writer>>

\* Mutant of LoadForFinalize: the early return forgets the mutex.
LoadForFinalizeLocked(b) ==
  LET e == batch[b].env
      applies == Exists(e) /\ envs[e].workflow = batch[b].workflow
  IN /\ batch[b].phase = "loading"
     /\ batch' = IF applies
                 THEN [batch EXCEPT ![b].phase = "finalizing",
                  ![b].row = Finalized(envs[e], b, batch[b].verdict = "accepted")]
                 ELSE [batch EXCEPT ![b].phase = "done"]
     /\ UNCHANGED <<store, finisher, writer>>

\* finalizeEnvironmentAcceptanceRun up to its upsert.
LoadForFinalize(b) ==
  LET e == batch[b].env
      applies == Exists(e) /\ envs[e].workflow = batch[b].workflow
  IN /\ batch[b].phase = "loading"
     /\ IF applies
        THEN /\ batch' = [batch EXCEPT ![b].phase = "finalizing",
                  ![b].row = Finalized(envs[e], b, batch[b].verdict = "accepted")]
             /\ UNCHANGED finisher
        ELSE /\ batch' = [batch EXCEPT ![b].phase = "done"]
             /\ finisher' = NoRun
     /\ UNCHANGED <<store, writer>>

\* The upsert, whose error is ignored; then the finished report replaces the
\* running one and the mutex is released.
FinalizeEnvironment(b) ==
  /\ batch[b].phase = "finalizing"
  /\ envs' \in {envs, [envs EXCEPT ![batch[b].env] = batch[b].row]}
  /\ batch' = [batch EXCEPT ![b].phase = "done", ![b].row = NoRow]
  /\ finisher' = NoRun
  /\ UNCHANGED <<runs, evidence, topology, everComplete, writer>>

\* The control plane stops: its batch runs are only in memory.
Crash ==
  /\ \E b \in BatchId : batch[b].phase \notin {"none", "lost"}
  /\ batch' = [b \in BatchId |-> IF batch[b].phase = "none" THEN batch[b]
                               ELSE [batch[b] EXCEPT !.phase = "lost", !.row = NoRow]]
  /\ finisher' = NoRun
  /\ UNCHANGED <<store, writer>>

-----------------------------------------------------------------------------
(* Runs and topology from other paths.                                     *)

\* Mutant of SaveRun: an upsert where the code inserts.
SaveRunUpsert(w, r, row) ==
  /\ writer[w].pc = "idle"
  /\ runs' = [runs EXCEPT ![r] = row]
  /\ writer' = [writer EXCEPT ![w] = [Idle EXCEPT !.pc = "saving", !.op = "save",
                                                  !.run = r]]
  /\ UNCHANGED <<envs, evidence, topology, everComplete, batch, finisher>>

\* POST /api/workflow-runs: the caller supplies status and summary.
SaveRun(w, r, row) ==
  /\ writer[w].pc = "idle" /\ runs[r] = NoRow
  /\ runs' = [runs EXCEPT ![r] = row]
  /\ writer' = [writer EXCEPT ![w] = [Idle EXCEPT !.pc = "saving", !.op = "save",
                                                  !.run = r]]
  /\ UNCHANGED <<envs, evidence, topology, everComplete, batch, finisher>>

\* The evidence of the runs its steps name, if there is any.
CopySavedEvidence(w) ==
  /\ writer[w].pc = "saving"
  /\ evidence' \in {evidence, evidence \cup {writer[w].run}}
  /\ writer' = [writer EXCEPT ![w].pc = "copying"]
  /\ UNCHANGED <<envs, runs, topology, everComplete, batch, finisher>>

CopySavedTopology(w) ==
  /\ writer[w].pc = "copying"
  /\ \/ SaveTopology(writer[w].run, writer[w].run, "complete")
     \/ UNCHANGED <<topology, everComplete>>
  /\ writer' = [writer EXCEPT ![w] = Idle]
  /\ UNCHANGED <<envs, runs, evidence, batch, finisher>>

\* POST /api/trace/topology/collect, trace topology collect: the row of the
\* trace, or the row the request names, is written again from what the trace
\* provider answers now.
Collect(r, q, v) ==
  /\ runs[r] # NoRow
  /\ SaveTopology(r, q, v)
  /\ UNCHANGED <<envs, runs, evidence, batch, finisher, writer>>

-----------------------------------------------------------------------------
CommandNext ==
  \/ \E e \in Env, wf \in Workflow, c \in Config, l \in RegisterLabel :
       Register(e, wf, c, l)
  \/ \E w \in Writer, e \in Env :
       \/ \E r \in RunId, claim \in Claim : StartVerify(w, e, r, claim)
       \/ \E c \in Config : StartConfigChange(w, e, c)
       \/ StartPublish(w, e)
       \/ StartRestore(w, e)
  \/ \E w \in Writer :
       \/ Validate(w) \/ Write(w) \/ Abandon(w)
       \/ RestoreWithoutRun(w) \/ RestoreRead(w) \/ RestoreGiveUp(w)
       \/ \E b \in BatchId : RestoreStartRun(w, b)

BatchStep(b) ==
  \/ RecordBatchRun(b) \/ IndexBatchEvidence(b) \/ CopyBatchTopology(b)
  \/ LoadForFinalize(b) \/ FinalizeEnvironment(b)

BatchNext ==
  \/ \E b \in BatchId, e \in Env, wf \in Workflow : StartBatch(b, e, wf)
  \/ \E b \in BatchId, v \in {"failed", "passed", "accepted"} : DecideBatch(b, v)
  \/ \E b \in BatchId : BatchStep(b)
  \/ Crash

RunNext ==
  \/ \E w \in Writer, r \in SavedId, row \in SavedRun : SaveRun(w, r, row)
  \/ \E w \in Writer : CopySavedEvidence(w) \/ CopySavedTopology(w)
  \/ \E r, q \in RunId, v \in {"partial", "complete"} : Collect(r, q, v)

Next == CommandNext \/ BatchNext \/ RunNext

Spec == Init /\ [][Next]_vars

\* The goroutine of a batch reaches finish when its cases have timeouts (the
\* HTTP client has none of its own), goes on from there, and sync.RWMutex is
\* starvation free.  A restore polls until its deadline and then writes.
\* Nothing else is fair: nobody has to call the API, and a Store error or a
\* crash may come at any time.
FairSpec ==
  /\ Spec
  /\ \A b \in Timed :
       SF_vars(\E v \in {"failed", "passed", "accepted"} : DecideBatch(b, v))
  /\ \A b \in BatchId : WF_vars(BatchStep(b))
  /\ \A w \in Writer : WF_vars(RestoreWithoutRun(w) \/ RestoreGiveUp(w) \/ Write(w))

-----------------------------------------------------------------------------
(* Properties.                                                             *)

\* Every row, run and process state has its type.
TypeOK ==
  /\ envs \in [Env -> EnvRow \cup {NoRow}]
  /\ runs \in [RunId -> RunRow \cup {NoRow}]
  /\ evidence \subseteq RunId
  /\ topology \subseteq RunId
  /\ everComplete \subseteq RunId
  /\ batch \in [BatchId -> BatchState]
  /\ finisher \in BatchId \cup {NoRun}
  /\ writer \in [Writer -> WriterState]

\* The facts in the Store that make run r prove workflow wf: it passed, its
\* acceptance report passes for wf, it has evidence and has had a complete
\* topology row.
Proves(r, wf) ==
  /\ r \in RunId /\ runs[r] # NoRow
  /\ runs[r].status = "passed"
  /\ runs[r].accepted = wf
  /\ r \in evidence
  /\ r \in everComplete

\* A row that says verified also says passed with complete flags, and names a
\* run that proves the workflow the same row names.
Backed(row) ==
  row.verified => /\ row.status = "passed" /\ row.evidence /\ row.topology
                  /\ row.label = "verified"
                  /\ Proves(row.run, row.workflow)

\* Every environment that discovery lists as verified is backed by the Store,
\* however many commands held older copies of its row (publish-verified,
\* restore, repo set, register and the end of a batch all upsert whole rows).
VerifiedRunAccepted == \A e \in Env : Exists(e) => Backed(envs[e])

\* At most one batch is between its verdict and its published report, and it
\* holds the mutex: two finishes never interleave their load and upsert.
OneFinisher ==
  \A b \in BatchId : batch[b].phase \in Finishing <=> finisher = b

\* What discovery shows of the rows, and what the Store proves.
Listing ==
  [e \in Env |-> IF Exists(e)
                 THEN [workflow |-> envs[e].workflow, run |-> envs[e].run,
                       verified |-> envs[e].verified]
                 ELSE NoRow]

Proof == {p \in RunId \X Workflow : Proves(p[1], p[2])}

\* The catalog implements VerificationGate: whatever commands, batches and
\* crashes do, discovery behaves as if every verified listing had been made by
\* one atomic check of the Store.
Gate == INSTANCE VerificationGate WITH
  Absent <- NoRow, listing <- Listing, proof <- Proof

GateSpec == Gate!Spec

\* What publish-verified relies on when it checks run, evidence and topology
\* with separate reads: no step changes a stored run or takes evidence away.
StoredFactsStay ==
  [][ /\ \A r \in RunId : runs[r] # NoRow => runs'[r] = runs[r]
      /\ evidence \subseteq evidence' ]_<<runs, evidence>>

\* A batch run whose cases have timeouts is finished or lost with the control
\* plane, whatever other batches wait for.
BatchEnds ==
  \A b \in Timed : batch[b].phase = "running" ~> batch[b].phase \in {"done", "lost"}

\* A restore comes back to its prompt although the acceptance run it waits for
\* may never answer (crash of the control plane, 404 on the report).
RestoreEnds ==
  \A w \in Writer : writer[w].pc = "waiting" ~> writer[w].pc = "idle"

\* docs/backend-capabilities.md: verified discovery requires complete real
\* SkyWalking topology in the selected Store.
VerifiedHasCompleteTopology ==
  \A e \in Env : Exists(e) /\ envs[e].verified => envs[e].run \in topology

\* docs/quickstart.md: restore does not mark SkyWalking topology complete, in
\* the row it is about to upsert.
RestoreLeavesTopology ==
  [][ \A w \in Writer :
        writer[w].pc = "waiting" /\ writer'[w].pc = "write" =>
          (writer'[w].row.topology => writer[w].row.topology) ]_vars

\* docs/quickstart.md: restore does not publish the environment as verified.
RestoreNeverPublishes ==
  [][ \A w \in Writer :
        writer[w].op = "restore" /\ Write(w) =>
          (envs'[writer[w].env].verified => envs[writer[w].env].verified) ]_vars
=============================================================================
