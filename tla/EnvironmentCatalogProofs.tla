---------------------- MODULE EnvironmentCatalogProofs ----------------------
(***************************************************************************)
(* Theorems about EnvironmentCatalog, for every set of environments,       *)
(* workflows, runs and concurrent commands; the last is that it implements *)
(* VerificationGate.                                                       *)
(***************************************************************************)
EXTENDS EnvironmentCatalog, TLAPS

(***************************************************************************)
(* What a process holds fits where it stands in its operation.             *)
(***************************************************************************)
Loaded == {"validate", "write", "restoring", "waiting"}

WriterFits(w) ==
  /\ writer[w].pc \in Loaded => writer[w].row \in EnvRow /\ writer[w].env \in Env
  /\ writer[w].pc = "waiting" => writer[w].run \in BatchId
  /\ writer[w].pc \in {"saving", "copying"} => writer[w].run \in SavedId

BatchFits(b) ==
  /\ batch[b].phase # "none" => batch[b].env \in Env /\ batch[b].workflow \in Workflow
  /\ batch[b].phase = "finalizing" => batch[b].row \in EnvRow

Typed ==
  /\ TypeOK
  /\ \A w \in Writer : WriterFits(w)
  /\ \A b \in BatchId : BatchFits(b)

(***************************************************************************)
(* The operators that make a row keep it a row.                            *)
(***************************************************************************)
LEMMA RecordedIsRow ==
  ASSUME NEW row \in EnvRow, NEW r \in RunId,
         NEW claim \in [status: {"passed", "failed"}, evidence: BOOLEAN, topology: BOOLEAN]
  PROVE  Recorded(row, r, claim) \in EnvRow
  BY DEF EnvRow, Label, Recorded

LEMMA JudgedIsRow ==
  ASSUME NEW row \in EnvRow, NEW r \in RunId, NEW ok \in BOOLEAN
  PROVE  Finalized(row, r, ok) \in EnvRow /\ Restored(row, r, ok) \in EnvRow
  BY DEF EnvRow, Label, Finalized, Restored

LEMMA PublishedIsRow ==
  ASSUME NEW row \in EnvRow
  PROVE  Published(row) \in EnvRow
  BY DEF EnvRow, Label, Published

LEMMA RegisteredIsRow ==
  ASSUME NEW wf \in Workflow, NEW c \in Config, NEW l \in RegisterLabel
  PROVE  Registered(wf, c, l) \in EnvRow
  BY CatalogAssumption DEF EnvRow, Label, Registered

LEMMA TypedInit == Init => Typed
  BY CatalogAssumption
  DEF Init, Typed, TypeOK, WriterFits, BatchFits, Loaded, WriterState, BatchState,
      Idle, NoBatch, Finishing, RunId

(***************************************************************************)
(* One step per action.  Only the conjuncts about the variables an action  *)
(* changes need its definition.                                            *)
(***************************************************************************)
LEMMA ReadyToWrite ==
  ASSUME NEW h \in WriterState, NEW row \in EnvRow
  PROVE  /\ Ready(h, row) \in WriterState
         /\ Ready(h, row).pc = "write" /\ Ready(h, row).row = row
         /\ Ready(h, row).env = h.env
  BY DEF WriterState, Ready

LEMMA EndedBatch ==
  ASSUME NEW x \in BatchState, NEW p \in {"done", "lost"}
  PROVE  LET y == [x EXCEPT !.phase = p, !.row = NoRow]
         IN /\ y \in BatchState
            /\ y.phase = p /\ y.row = NoRow
            /\ y.env = x.env /\ y.workflow = x.workflow
  BY DEF BatchState

LEMMA HoldTyped ==
  ASSUME Typed, NEW w \in Writer, NEW e \in Env, NEW row \in EnvRow,
         NEW p \in {"validate", "write", "restoring"},
         NEW o \in {"verify", "config", "publish", "restore"},
         Hold(w, p, o, e, row), UNCHANGED <<store, batch, finisher>>
  PROVE  Typed'
  BY DEF Typed, TypeOK, WriterFits, BatchFits, Loaded, Hold, store, WriterState

LEMMA TypedNext == Typed /\ [Next]_vars => Typed'
<1> SUFFICES ASSUME Typed, [Next]_vars PROVE Typed'
  OBVIOUS
<1> USE DEF Typed, TypeOK, WriterFits, BatchFits, Loaded
<1>1. ASSUME NEW e \in Env, NEW wf \in Workflow, NEW c \in Config,
             NEW l \in RegisterLabel, Register(e, wf, c, l)
      PROVE  Typed'
  BY <1>1, RegisteredIsRow DEF Register
<1>2. ASSUME NEW w \in Writer, NEW e \in Env, NEW r \in RunId, NEW claim \in Claim,
             StartVerify(w, e, r, claim)
      PROVE  Typed'
  <2>1. Recorded(envs[e], r, claim) \in EnvRow
    BY <1>2, RecordedIsRow, CatalogAssumption DEF StartVerify, Exists
  <2>2. QED
    BY <1>2, <2>1, HoldTyped DEF StartVerify
<1>3. ASSUME NEW w \in Writer, NEW e \in Env, NEW c \in Config,
             StartConfigChange(w, e, c)
      PROVE  Typed'
  <2>1. [envs[e] EXCEPT !.config = c] \in EnvRow
    BY <1>3 DEF StartConfigChange, Exists, EnvRow
  <2>2. QED
    BY <1>3, <2>1, HoldTyped DEF StartConfigChange
<1>4. ASSUME NEW w \in Writer, NEW e \in Env, StartPublish(w, e) \/ StartRestore(w, e)
      PROVE  Typed'
  BY <1>4, HoldTyped DEF StartPublish, StartRestore, Exists
<1>5. ASSUME NEW w \in Writer, Validate(w)
      PROVE  Typed'
  <2>1. Published(writer[w].row) \in EnvRow
    BY <1>5, PublishedIsRow DEF Validate
  <2>2. Idle \in WriterState
    BY DEF Idle, WriterState
  <2>3. QED
    BY <1>5, <2>1, <2>2 DEF Validate, Hold, store, WriterState, Idle
<1>6. ASSUME NEW w \in Writer, Write(w) \/ Abandon(w)
      PROVE  Typed'
  <2>1. Idle \in WriterState
    BY DEF Idle, WriterState
  <2>2. QED
    BY <1>6, <2>1 DEF Write, Abandon, store, Idle
<1>7. ASSUME NEW w \in Writer, RestoreWithoutRun(w)
      PROVE  Typed'
  BY <1>7 DEF RestoreWithoutRun, store, WriterState
<1>8. ASSUME NEW w \in Writer, NEW b \in BatchId, RestoreStartRun(w, b)
      PROVE  Typed'
  <2>1. envs[writer[w].env].workflow \in Workflow
    BY <1>8 DEF RestoreStartRun, Exists, EnvRow
  <2>2. batch' \in [BatchId -> BatchState] /\ \A x \in BatchId : BatchFits(x)'
    BY <1>8, <2>1 DEF RestoreStartRun, BatchState, NoBatch
  <2>3. writer' = [writer EXCEPT ![w].pc = "waiting", ![w].run = b] /\ writer[w].pc = "restoring"
    BY <1>8 DEF RestoreStartRun
  <2>4. writer' \in [Writer -> WriterState]
    <3>1. writer[w] \in WriterState /\ b \in RunId
      BY DEF RunId
    <3>2. PICK next : next = [writer[w] EXCEPT !.pc = "waiting", !.run = b]
      OBVIOUS
    <3>3. next \in WriterState
      BY <3>1, <3>2 DEF WriterState
    <3>4. writer' = [writer EXCEPT ![w] = next]
      BY <2>3, <3>2
    <3> QED
      BY <3>3, <3>4
  <2>5. writer'[w].pc = "waiting" /\ writer'[w].row = writer[w].row
        /\ writer'[w].env = writer[w].env /\ writer'[w].run = b
    BY <2>3 DEF WriterState
  <2>6. WriterFits(w)'
    BY <2>3, <2>5
  <2>7. \A x \in Writer \ {w} : writer'[x] = writer[x]
    BY <2>3
  <2>8. \A x \in Writer : WriterFits(x)'
    BY <2>6, <2>7
  <2>9. QED
    BY <1>8, <2>2, <2>4, <2>8 DEF RestoreStartRun, store
<1>9. ASSUME NEW w \in Writer, RestoreRead(w) \/ RestoreGiveUp(w)
      PROVE  Typed'
  <2>1. writer[w].row \in EnvRow /\ writer[w].env \in Env /\ writer[w].run \in RunId
    BY <1>9 DEF RestoreRead, RestoreGiveUp, RunId
  <2>2. ReportAccepts(writer[w].run, writer[w].row.workflow) \in BOOLEAN
    BY DEF ReportAccepts, AcceptancePassed
  <2>3. \A ok \in BOOLEAN : Restored(writer[w].row, writer[w].run, ok) \in EnvRow
    BY <2>1, JudgedIsRow
  <2>4. PICK row \in EnvRow : writer' = [writer EXCEPT ![w] = Ready(@, row)]
    BY <1>9, <2>2, <2>3 DEF RestoreRead, RestoreGiveUp
  <2>5. writer[w] \in WriterState /\ writer'[w] = Ready(writer[w], row)
    BY <2>4
  <2>6. writer'[w] \in WriterState /\ WriterFits(w)'
    BY <2>1, <2>5, ReadyToWrite
  <2>7. writer' \in [Writer -> WriterState] /\ \A x \in Writer : WriterFits(x)'
    BY <2>4, <2>6
  <2>8. QED
    BY <1>9, <2>7 DEF RestoreRead, RestoreGiveUp, store
<1>10. ASSUME NEW b \in BatchId, NEW e \in Env, NEW wf \in Workflow,
              StartBatch(b, e, wf)
       PROVE  Typed'
  BY <1>10 DEF StartBatch, store, BatchState, NoBatch
<1>11. ASSUME NEW b \in BatchId, NEW v \in {"failed", "passed", "accepted"},
              DecideBatch(b, v)
       PROVE  Typed'
  BY <1>11 DEF DecideBatch, store, BatchState, Finishing
<1>12. ASSUME NEW b \in BatchId, RecordBatchRun(b)
       PROVE  Typed'
  <2>1. BatchRun(b) \in RunRow
    BY <1>12 DEF RecordBatchRun, BatchRun, RunRow
  <2>2. QED
    BY <1>12, <2>1 DEF RecordBatchRun, BatchState, Finishing
<1>13. ASSUME NEW b \in BatchId, IndexBatchEvidence(b) \/ CopyBatchTopology(b)
       PROVE  Typed'
  BY <1>13 DEF IndexBatchEvidence, CopyBatchTopology, SaveTopology, BatchState,
               Finishing, RunId
<1>14. ASSUME NEW b \in BatchId, LoadForFinalize(b)
       PROVE  Typed'
  <2>1. Exists(batch[b].env) =>
          Finalized(envs[batch[b].env], b, batch[b].verdict = "accepted") \in EnvRow
    BY <1>14, JudgedIsRow DEF LoadForFinalize, Exists, RunId
  <2>2. QED
    BY <1>14, <2>1 DEF LoadForFinalize, store, BatchState, Finishing
<1>15. ASSUME NEW b \in BatchId, FinalizeEnvironment(b)
       PROVE  Typed'
  <2>1. envs' \in [Env -> EnvRow \cup {NoRow}]
    BY <1>15 DEF FinalizeEnvironment
  <2>2. batch'[b] = [batch[b] EXCEPT !.phase = "done", !.row = NoRow]
    BY <1>15 DEF FinalizeEnvironment
  <2>3. batch'[b] \in BatchState /\ BatchFits(b)'
    <3>1. batch[b] \in BatchState /\ batch[b].phase = "finalizing"
      BY <1>15 DEF FinalizeEnvironment
    <3>2. /\ batch'[b] \in BatchState /\ batch'[b].phase = "done"
          /\ batch'[b].env = batch[b].env
          /\ batch'[b].workflow = batch[b].workflow
      BY <2>2, <3>1, EndedBatch
    <3>3. QED
      BY <3>1, <3>2
  <2>4. batch' \in [BatchId -> BatchState] /\ \A x \in BatchId : BatchFits(x)'
    BY <1>15, <2>3 DEF FinalizeEnvironment
  <2>5. QED
    BY <1>15, <2>1, <2>4 DEF FinalizeEnvironment
<1>16. ASSUME Crash
       PROVE  Typed'
  <2>1. ASSUME NEW b \in BatchId
        PROVE  batch'[b] \in BatchState /\ BatchFits(b)'
    <3>1. CASE batch[b].phase = "none"
      BY <1>16, <3>1 DEF Crash
    <3>2. CASE batch[b].phase # "none"
      <4>1. batch'[b] = [batch[b] EXCEPT !.phase = "lost", !.row = NoRow]
        BY <1>16, <3>2 DEF Crash
      <4>2. QED
        <5>0. batch[b] \in BatchState
          OBVIOUS
        <5>1. /\ batch'[b] \in BatchState /\ batch'[b].phase = "lost"
              /\ batch'[b].env = batch[b].env
              /\ batch'[b].workflow = batch[b].workflow
          BY <4>1, <5>0, EndedBatch
        <5>2. QED
          BY <3>2, <5>1
    <3>3. QED
      BY <3>1, <3>2
  <2>2. batch' = [b \in BatchId |-> batch'[b]]
    BY <1>16 DEF Crash
  <2>3. QED
    BY <1>16, <2>1, <2>2 DEF Crash, store
<1>17. ASSUME NEW w \in Writer, NEW r \in SavedId, NEW row \in SavedRun,
              SaveRun(w, r, row)
       PROVE  Typed'
  BY <1>17, CatalogAssumption DEF SaveRun, WriterState, Idle, RunId
<1>18. ASSUME NEW w \in Writer, CopySavedEvidence(w) \/ CopySavedTopology(w)
       PROVE  Typed'
  <2>1. Idle \in WriterState
    BY DEF Idle, WriterState
  <2>2. QED
    BY <1>18, <2>1 DEF CopySavedEvidence, CopySavedTopology, SaveTopology, WriterState, Idle, RunId
<1>19. ASSUME NEW r \in RunId, NEW q \in RunId, NEW v \in {"partial", "complete"}, Collect(r, q, v)
       PROVE  Typed'
  BY <1>19 DEF Collect, SaveTopology
<1>20. ASSUME UNCHANGED vars
       PROVE  Typed'
  BY <1>20 DEF vars
<1>21. QED
  BY <1>1, <1>2, <1>3, <1>4, <1>5, <1>6, <1>7, <1>8, <1>9, <1>10, <1>11, <1>12,
     <1>13, <1>14, <1>15, <1>16, <1>17, <1>18, <1>19, <1>20
  DEF Next, CommandNext, BatchNext, BatchStep, RunNext

\* Every reachable state is well typed: a command that lost a race still holds
\* a whole row, never a mixture of two.
THEOREM TypeCorrect == Spec => []TypeOK
<1>1. Typed => TypeOK
  BY DEF Typed
<1>2. QED
  BY TypedInit, TypedNext, <1>1, PTL DEF Spec

(***************************************************************************)
(* The facts the gate checks are permanent: runs are inserted once and     *)
(* evidence is only added.  This is what makes a stale verified row        *)
(* harmless: the proof it was published with is still in the Store.        *)
(***************************************************************************)
FactsStay ==
  /\ \A r \in RunId : runs[r] # NoRow => runs'[r] = runs[r]
  /\ evidence \subseteq evidence'
  /\ everComplete \subseteq everComplete'

LEMMA StepKeepsFacts == Typed /\ [Next]_vars => FactsStay
<1> SUFFICES ASSUME Typed, [Next]_vars PROVE FactsStay
  OBVIOUS
<1> USE DEF FactsStay, store, SaveTopology
<1>1. CASE CommandNext
  BY <1>1 DEF CommandNext, Register, StartVerify, StartConfigChange, StartPublish,
     StartRestore, Validate, Write, Abandon, RestoreWithoutRun, RestoreRead,
     RestoreGiveUp, RestoreStartRun
<1>2. ASSUME NEW b \in BatchId, BatchStep(b)
      PROVE  FactsStay
  <2>1. CASE RecordBatchRun(b)
    BY <2>1 DEF RecordBatchRun, Typed, TypeOK, RunId
  <2>2. CASE IndexBatchEvidence(b) \/ CopyBatchTopology(b)
    BY <2>2 DEF IndexBatchEvidence, CopyBatchTopology
  <2>3. CASE LoadForFinalize(b) \/ FinalizeEnvironment(b)
    BY <2>3 DEF LoadForFinalize, FinalizeEnvironment
  <2>4. QED
    BY <1>2, <2>1, <2>2, <2>3 DEF BatchStep
<1>3. CASE BatchNext
  BY <1>2, <1>3 DEF BatchNext, StartBatch, DecideBatch, Crash
<1>4. CASE RunNext
  <2>1. ASSUME NEW w \in Writer, NEW r \in SavedId, NEW row \in SavedRun, SaveRun(w, r, row)
        PROVE  FactsStay
    BY <2>1 DEF SaveRun, Typed, TypeOK, RunId
  <2>2. ASSUME NEW w \in Writer, CopySavedEvidence(w) \/ CopySavedTopology(w)
        PROVE  FactsStay
    BY <2>2 DEF CopySavedEvidence, CopySavedTopology
  <2>3. ASSUME NEW r \in RunId, NEW q \in RunId, NEW v \in {"partial", "complete"}, Collect(r, q, v)
        PROVE  FactsStay
    BY <2>3 DEF Collect
  <2>4. QED
    BY <1>4, <2>1, <2>2, <2>3 DEF RunNext
<1>5. CASE UNCHANGED vars
  BY <1>5 DEF vars
<1>6. QED
  BY <1>1, <1>3, <1>4, <1>5 DEF Next

\* A run, once stored, is never rewritten and never loses its evidence, by
\* batch runs, saved runs and collections alike.
THEOREM FactsAreStored == Spec => StoredFactsStay
<1>1. Typed /\ [Next]_vars =>
        [ /\ \A r \in RunId : runs[r] # NoRow => runs'[r] = runs[r]
          /\ evidence \subseteq evidence' ]_<<runs, evidence>>
  BY StepKeepsFacts DEF FactsStay
<1>2. QED
  BY TypedInit, TypedNext, <1>1, PTL DEF Spec, StoredFactsStay

(***************************************************************************)
(* VerifiedRunAccepted is not inductive: a command that loaded a verified  *)
(* row may write it back at any later time.  Every held row has to be      *)
(* backed, and every complete topology row remembered.                     *)
(***************************************************************************)
HeldRowsBacked ==
  /\ VerifiedRunAccepted
  /\ \A w \in Writer : writer[w].pc \in Loaded => Backed(writer[w].row)
  /\ \A b \in BatchId : batch[b].phase = "finalizing" => Backed(batch[b].row)
  /\ topology \subseteq everComplete

LEMMA BackedStays ==
  ASSUME Typed, FactsStay, NEW row \in EnvRow, Backed(row)
  PROVE  Backed(row)'
  BY DEF FactsStay, Backed, Proves

LEMMA UnverifiedIsBacked ==
  ASSUME NEW row, ~row.verified
  PROVE  Backed(row)
  BY DEF Backed

\* Whatever is written or held after a step was backed before it, is backed
\* by the gate, or is not verified.
LEMMA PublishedIsBacked ==
  ASSUME Typed, topology \subseteq everComplete, NEW row \in EnvRow, Publishable(row)
  PROVE  Backed(Published(row))
<1>1. /\ Published(row).status = row.status /\ Published(row).run = row.run
      /\ Published(row).evidence = row.evidence
      /\ Published(row).topology = row.topology
      /\ Published(row).workflow = row.workflow
      /\ Published(row).label = "verified"
  BY DEF Published, EnvRow
<1>2. row.run \in RunId
  BY DEF Publishable, EnvRow
<1>3. Proves(row.run, row.workflow)
  BY <1>2 DEF Publishable, AcceptancePassed, Proves
<1>4. QED
  BY <1>1, <1>3 DEF Publishable, Backed

LEMMA BackedInit == Init => HeldRowsBacked
  BY DEF Init, HeldRowsBacked, VerifiedRunAccepted, Exists, Idle, NoBatch, Loaded

LEMMA BackedNext == Typed /\ HeldRowsBacked /\ [Next]_vars => HeldRowsBacked'
<1> SUFFICES ASSUME Typed, HeldRowsBacked, [Next]_vars PROVE HeldRowsBacked'
  OBVIOUS
<1>0. \A row \in EnvRow : Backed(row) => Backed(row)'
  BY StepKeepsFacts, BackedStays
<1>a. ASSUME NEW row \in EnvRow, ~row.verified
      PROVE  Backed(row)'
  BY <1>0, <1>a, UnverifiedIsBacked
\* Stored and held rows that a step leaves alone stay backed.
<1>b. ASSUME NEW e \in Env, Exists(e)
      PROVE  envs[e] \in EnvRow /\ Backed(envs[e]) /\ \A row : row = envs[e] => Backed(row)'
  <2>1. envs[e] \in EnvRow /\ Backed(envs[e])
    BY <1>b DEF Typed, TypeOK, HeldRowsBacked, VerifiedRunAccepted, Exists
  <2>2. QED
    BY <2>1, <1>0
<1>c. ASSUME NEW w \in Writer, writer[w].pc \in Loaded
      PROVE  /\ writer[w].row \in EnvRow /\ Backed(writer[w].row)
             /\ \A row : row = writer[w].row => Backed(row)'
  <2>1. writer[w].row \in EnvRow /\ Backed(writer[w].row)
    BY <1>c DEF Typed, WriterFits, HeldRowsBacked
  <2>2. QED
    BY <2>1, <1>0
<1>d. ASSUME NEW b \in BatchId, batch[b].phase = "finalizing"
      PROVE  \A row : row = batch[b].row => Backed(row)'
  <2>1. batch[b].row \in EnvRow /\ Backed(batch[b].row)
    BY <1>d DEF Typed, BatchFits, HeldRowsBacked
  <2>2. QED
    BY <2>1, <1>0
\* It is enough to look at the rows a step changes.
<1>e. ASSUME \A e \in Env : envs'[e] # NoRow /\ envs'[e] # envs[e] => Backed(envs[e])',
             \A w \in Writer : writer'[w].pc \in Loaded /\ writer'[w].row # writer[w].row
                               => Backed(writer[w].row)',
             \A w \in Writer : writer'[w].pc \in Loaded /\ writer'[w].row = writer[w].row
                               => writer[w].pc \in Loaded,
             \A b \in BatchId : batch'[b].phase = "finalizing" /\ batch'[b] # batch[b]
                               => Backed(batch[b].row)',
             topology' \subseteq everComplete'
      PROVE  HeldRowsBacked'
  BY <1>b, <1>c, <1>d, <1>e DEF HeldRowsBacked, VerifiedRunAccepted, Exists
<1>f. topology \subseteq everComplete
  BY DEF HeldRowsBacked
<1>g. ASSUME NEW w \in Writer, NEW e \in Env, NEW row \in EnvRow, NEW p, NEW o,
             Backed(row)', Hold(w, p, o, e, row), UNCHANGED <<store, batch, finisher>>,
             writer[w].pc = "idle" \/ writer[w].pc \in Loaded
      PROVE  HeldRowsBacked'
  <2>1. /\ \A x \in Writer : x # w => writer'[x] = writer[x]
        /\ writer'[w].row = row
    BY <1>g DEF Hold, Typed, TypeOK
  <2>2. \A x \in Writer : writer'[x].pc \in Loaded => Backed(writer[x].row)'
    BY <1>c, <1>g, <2>1
  <2>3. QED
    BY <1>b, <1>d, <1>f, <1>g, <2>2 DEF store, HeldRowsBacked, VerifiedRunAccepted, Exists
<1>1. ASSUME NEW e \in Env, NEW wf \in Workflow, NEW c \in Config,
             NEW l \in RegisterLabel, Register(e, wf, c, l)
      PROVE  HeldRowsBacked'
  <2>1. Backed(Registered(wf, c, l))'
    BY <1>a, RegisteredIsRow DEF Registered
  <2>2. QED
    BY <1>1, <1>e, <1>f, <2>1 DEF Register, Typed, TypeOK
<1>2. ASSUME NEW w \in Writer, NEW e \in Env, NEW r \in RunId, NEW claim \in Claim,
             StartVerify(w, e, r, claim)
      PROVE  HeldRowsBacked'
  <2>1. Recorded(envs[e], r, claim) \in EnvRow
    BY <1>2, <1>b, RecordedIsRow, CatalogAssumption DEF StartVerify
  <2>2. ~Recorded(envs[e], r, claim).verified
    BY <1>2, <1>b DEF StartVerify, Recorded, EnvRow
  <2>3. \A row \in EnvRow : row = Recorded(envs[e], r, claim) => Backed(row)'
    BY <1>a, <2>1, <2>2
  <2>4. PICK row \in EnvRow : row = Recorded(envs[e], r, claim)
    BY <2>1
  <2>5. QED
    BY <1>2, <1>g, <2>3, <2>4 DEF StartVerify
<1>3. ASSUME NEW w \in Writer, NEW e \in Env, NEW c \in Config,
             StartConfigChange(w, e, c)
      PROVE  HeldRowsBacked'
  <2>1. envs[e] \in EnvRow /\ Backed(envs[e])
    BY <1>3, <1>b DEF StartConfigChange
  <2>2. PICK row \in EnvRow : row = [envs[e] EXCEPT !.config = c]
    BY <2>1 DEF EnvRow
  <2>3. Backed(row)
    BY <2>1, <2>2 DEF Backed, EnvRow
  <2>4. QED
    BY <1>0, <1>3, <1>g, <2>2, <2>3 DEF StartConfigChange
<1>4. ASSUME NEW w \in Writer, NEW e \in Env, StartPublish(w, e) \/ StartRestore(w, e)
      PROVE  HeldRowsBacked'
  <2>1. PICK row \in EnvRow : row = envs[e] /\ Backed(row)'
    BY <1>4, <1>b DEF StartPublish, StartRestore
  <2>2. QED
    BY <1>4, <1>g, <2>1 DEF StartPublish, StartRestore
<1>5. ASSUME NEW w \in Writer, Validate(w)
      PROVE  HeldRowsBacked'
  <2>1. CASE Publishable(writer[w].row)
    <3>1. writer[w].row \in EnvRow /\ writer[w].env \in Env
      BY <1>5 DEF Validate, Typed, WriterFits, Loaded
    <3>2. Backed(Published(writer[w].row)) /\ Published(writer[w].row) \in EnvRow
      BY <1>f, <2>1, <3>1, PublishedIsBacked, PublishedIsRow
    <3>3. PICK row \in EnvRow : row = Published(writer[w].row) /\ Backed(row)'
      BY <1>0, <3>2
    <3>4. QED
      BY <1>5, <1>g, <2>1, <3>1, <3>3 DEF Validate, Loaded
  <2>2. CASE ~Publishable(writer[w].row)
    BY <1>5, <1>e, <1>f, <2>2 DEF Validate, Idle, Loaded, store, Typed, TypeOK
  <2>3. QED
    BY <2>1, <2>2
<1>6. ASSUME NEW w \in Writer, Write(w)
      PROVE  HeldRowsBacked'
  <2>1. writer[w].env \in Env /\ writer[w].row \in EnvRow
    BY <1>6 DEF Write, Typed, WriterFits, Loaded
  <2>2. \A row : row = writer[w].row => Backed(row)'
    BY <1>6, <1>c DEF Write, Loaded
  <2>3. \A e \in Env : envs'[e] # envs[e] => Backed(envs[e])'
    BY <1>6, <2>1, <2>2 DEF Write, Typed, TypeOK
  <2>4. QED
    BY <1>6, <1>e, <1>f, <2>3 DEF Write, Idle, Loaded, Typed, TypeOK
<1>7. ASSUME NEW w \in Writer, Abandon(w) \/ RestoreWithoutRun(w)
      PROVE  HeldRowsBacked'
  <2>1. \A x \in Writer : writer'[x].pc \in Loaded =>
          writer[x].pc \in Loaded /\ writer'[x].row = writer[x].row
    BY <1>7 DEF Abandon, RestoreWithoutRun, Idle, Loaded, Typed, TypeOK, WriterState
  <2>2. QED
    BY <1>7, <1>e, <1>f, <2>1 DEF Abandon, RestoreWithoutRun, store
<1>8. ASSUME NEW w \in Writer, NEW b \in BatchId, RestoreStartRun(w, b)
      PROVE  HeldRowsBacked'
  <2>1. \A x \in Writer : writer'[x].pc \in Loaded =>
          writer[x].pc \in Loaded /\ writer'[x].row = writer[x].row
    BY <1>8 DEF RestoreStartRun, Loaded, Typed, TypeOK, WriterState
  <2>2. \A x \in BatchId : batch'[x].phase = "finalizing" => batch'[x] = batch[x]
    BY <1>8 DEF RestoreStartRun, NoBatch, Typed, TypeOK
  <2>3. QED
    BY <1>8, <1>e, <1>f, <2>1, <2>2 DEF RestoreStartRun, store
<1>9. ASSUME NEW w \in Writer, RestoreRead(w) \/ RestoreGiveUp(w)
      PROVE  HeldRowsBacked'
  <2>1. writer[w].row \in EnvRow /\ writer[w].run \in RunId /\ writer[w] \in WriterState
    BY <1>9 DEF RestoreRead, RestoreGiveUp, Typed, TypeOK, WriterFits, Loaded, RunId
  <2>2. ReportAccepts(writer[w].run, writer[w].row.workflow) \in BOOLEAN
    BY DEF ReportAccepts, AcceptancePassed
  <2>3. PICK ok \in BOOLEAN :
          writer' = [writer EXCEPT ![w] = Ready(@, Restored(writer[w].row, writer[w].run, ok))]
    BY <1>9, <2>2 DEF RestoreRead, RestoreGiveUp
  <2>4. PICK row \in EnvRow : row = Restored(writer[w].row, writer[w].run, ok)
    BY <2>1, JudgedIsRow
  <2>5. ~row.verified
    BY <2>1, <2>4 DEF Restored, EnvRow
  <2>6. Backed(row)'
    BY <1>a, <2>5
  <2>7. /\ \A x \in Writer : x # w => writer'[x] = writer[x]
        /\ writer'[w].row = row
    BY <2>1, <2>3, <2>4, ReadyToWrite DEF Typed, TypeOK
  <2>8. writer[w].pc \in Loaded
    BY <1>9 DEF RestoreRead, RestoreGiveUp, Loaded
  <2>9. QED
    BY <1>9, <1>e, <1>f, <2>6, <2>7, <2>8 DEF RestoreRead, RestoreGiveUp, store
<1>10. ASSUME NEW b \in BatchId, NEW e \in Env, NEW wf \in Workflow,
              StartBatch(b, e, wf)
       PROVE  HeldRowsBacked'
  BY <1>10, <1>e, <1>f DEF StartBatch, NoBatch, store, Typed, TypeOK
<1>11. ASSUME NEW b \in BatchId, NEW v \in {"failed", "passed", "accepted"},
              DecideBatch(b, v)
       PROVE  HeldRowsBacked'
  BY <1>11, <1>e, <1>f DEF DecideBatch, store, Typed, TypeOK, BatchState
<1>12. ASSUME NEW b \in BatchId,
              RecordBatchRun(b) \/ IndexBatchEvidence(b) \/ CopyBatchTopology(b)
       PROVE  HeldRowsBacked'
  <2>1. topology' \subseteq everComplete'
    BY <1>12, <1>f DEF RecordBatchRun, IndexBatchEvidence, CopyBatchTopology, SaveTopology
  <2>2. \A x \in BatchId : batch'[x].phase = "finalizing" => batch'[x] = batch[x]
    BY <1>12 DEF RecordBatchRun, IndexBatchEvidence, CopyBatchTopology, Typed, TypeOK, BatchState
  <2>3. envs' = envs /\ writer' = writer
    BY <1>12 DEF RecordBatchRun, IndexBatchEvidence, CopyBatchTopology
  <2>4. QED
    BY <1>e, <2>1, <2>2, <2>3
<1>13. ASSUME NEW b \in BatchId, LoadForFinalize(b)
       PROVE  HeldRowsBacked'
  <2>1. CASE batch'[b].phase = "finalizing"
    <3>1. /\ batch[b].env \in Env /\ Exists(batch[b].env)
          /\ batch' = [batch EXCEPT ![b].phase = "finalizing",
                ![b].row = Finalized(envs[batch[b].env], b, batch[b].verdict = "accepted")]
      BY <1>13, <2>1 DEF LoadForFinalize, Typed, TypeOK, BatchFits, BatchState
    <3>2. envs[batch[b].env] \in EnvRow
      BY <1>b, <3>1
    <3>3. PICK row \in EnvRow :
            row = Finalized(envs[batch[b].env], b, batch[b].verdict = "accepted")
      BY <3>2, JudgedIsRow DEF RunId
    <3>4. Backed(row)'
      BY <1>a, <3>2, <3>3 DEF Finalized, EnvRow
    <3>5. /\ \A x \in BatchId : x # b => batch'[x] = batch[x]
          /\ batch'[b].row = row
      BY <3>1, <3>3 DEF Typed, TypeOK, BatchState
    <3>6. QED
      BY <1>13, <1>e, <1>f, <3>4, <3>5 DEF LoadForFinalize, store
  <2>2. CASE batch'[b].phase # "finalizing"
    <3>1. \A x \in BatchId : x # b => batch'[x] = batch[x]
      BY <1>13 DEF LoadForFinalize, Typed, TypeOK
    <3>2. QED
      BY <1>13, <1>e, <1>f, <2>2, <3>1 DEF LoadForFinalize, store
  <2>3. QED
    BY <2>1, <2>2
<1>14. ASSUME NEW b \in BatchId, FinalizeEnvironment(b)
       PROVE  HeldRowsBacked'
  <2>1. batch[b].env \in Env
    BY <1>14 DEF FinalizeEnvironment, Typed, BatchFits
  <2>2. \A row : row = batch[b].row => Backed(row)'
    BY <1>14, <1>d DEF FinalizeEnvironment
  <2>3. \A e \in Env : envs'[e] # envs[e] => Backed(envs[e])'
    BY <1>14, <2>1, <2>2 DEF FinalizeEnvironment, Typed, TypeOK
  <2>4. \A x \in BatchId : batch'[x].phase = "finalizing" => batch'[x] = batch[x]
    BY <1>14 DEF FinalizeEnvironment, Typed, TypeOK, BatchState
  <2>5. QED
    BY <1>14, <1>e, <1>f, <2>3, <2>4 DEF FinalizeEnvironment
<1>15. ASSUME Crash
       PROVE  HeldRowsBacked'
  <2>1. \A x \in BatchId : batch'[x].phase # "finalizing"
    BY <1>15 DEF Crash, Typed, TypeOK, BatchState
  <2>2. QED
    BY <1>15, <1>e, <1>f, <2>1 DEF Crash, store
<1>16. ASSUME RunNext
       PROVE  HeldRowsBacked'
  <2>1. \A x \in Writer : writer'[x].pc \in Loaded => writer'[x] = writer[x]
    <3>1. ASSUME NEW w \in Writer, NEW r \in SavedId, NEW row \in SavedRun,
                 SaveRun(w, r, row), NEW x \in Writer, writer'[x].pc \in Loaded
          PROVE  writer'[x] = writer[x]
      BY <3>1 DEF SaveRun, Idle, Loaded, Typed, TypeOK
    <3>2. ASSUME NEW w \in Writer, CopySavedEvidence(w) \/ CopySavedTopology(w),
                 NEW x \in Writer, writer'[x].pc \in Loaded
          PROVE  writer'[x] = writer[x]
      <4>1. CASE CopySavedEvidence(w)
        BY <3>2, <4>1 DEF CopySavedEvidence, Loaded, Typed, TypeOK, WriterState
      <4>2. CASE CopySavedTopology(w)
        BY <3>2, <4>2 DEF CopySavedTopology, Idle, Loaded, Typed, TypeOK
      <4>3. QED
        BY <3>2, <4>1, <4>2
    <3>3. ASSUME NEW r \in RunId, NEW q \in RunId, NEW v \in {"partial", "complete"}, Collect(r, q, v)
          PROVE  writer' = writer
      BY <3>3 DEF Collect
    <3>4. QED
      BY <1>16, <3>1, <3>2, <3>3 DEF RunNext
  <2>2. topology' \subseteq everComplete'
    BY <1>16, <1>f DEF RunNext, SaveRun, CopySavedEvidence, CopySavedTopology,
       Collect, SaveTopology
  <2>3. envs' = envs /\ batch' = batch
    BY <1>16 DEF RunNext, SaveRun, CopySavedEvidence, CopySavedTopology, Collect
  <2>4. QED
    BY <1>e, <2>1, <2>2, <2>3
<1>17. ASSUME UNCHANGED vars
       PROVE  HeldRowsBacked'
  BY <1>17, <1>e, <1>f DEF vars
<1>18. QED
  BY <1>1, <1>2, <1>3, <1>4, <1>5, <1>6, <1>7, <1>8, <1>9, <1>10, <1>11, <1>12,
     <1>13, <1>14, <1>15, <1>16, <1>17
  DEF Next, CommandNext, BatchNext, BatchStep

\* Every verified environment, and every verified row any command still holds,
\* names a run in the Store that passed the acceptance of the row's workflow.
THEOREM VerifiedIsAccepted == Spec => []VerifiedRunAccepted
<1>1. HeldRowsBacked => VerifiedRunAccepted
  BY DEF HeldRowsBacked
<1>2. QED
  BY TypedInit, TypedNext, BackedInit, BackedNext, <1>1, PTL DEF Spec

-----------------------------------------------------------------------------
(* The mutex of the batch runner, and the gate.                            *)

LEMMA OneFinisherInit == Init => OneFinisher
  BY CatalogAssumption DEF Init, OneFinisher, NoBatch, Finishing, RunId

\* Only the steps of a batch and a crash move a phase into or out of Finishing.
LEMMA OneFinisherNext == Typed /\ OneFinisher /\ [Next]_vars => OneFinisher'
<1> SUFFICES ASSUME Typed, OneFinisher, [Next]_vars PROVE OneFinisher'
  OBVIOUS
<1>a. \A b \in BatchId : b # NoRun
  BY CatalogAssumption DEF RunId
\* A step that leaves the phases and the mutex alone.
<1>b. ASSUME \A b \in BatchId : batch'[b].phase \in Finishing <=> batch[b].phase \in Finishing,
             finisher' = finisher
      PROVE  OneFinisher'
  BY <1>b DEF OneFinisher
<1>1. ASSUME CommandNext \/ RunNext
      PROVE  OneFinisher'
  <2>1. finisher' = finisher
    BY <1>1 DEF CommandNext, RunNext, Register, StartVerify, StartConfigChange,
       StartPublish, StartRestore, Validate, Write, Abandon, RestoreWithoutRun,
       RestoreRead, RestoreGiveUp, RestoreStartRun, SaveRun, CopySavedEvidence,
       CopySavedTopology, Collect
  <2>2. ASSUME NEW w \in Writer, NEW b \in BatchId, RestoreStartRun(w, b),
               NEW x \in BatchId
        PROVE  batch'[x].phase \in Finishing <=> batch[x].phase \in Finishing
    BY <2>2 DEF RestoreStartRun, FreshBatch, NoBatch, Finishing, Typed, TypeOK
  <2>3. \/ batch' = batch
        \/ \E w \in Writer, b \in BatchId : RestoreStartRun(w, b)
    BY <1>1 DEF CommandNext, RunNext, Register, StartVerify, StartConfigChange,
       StartPublish, StartRestore, Validate, Write, Abandon, RestoreWithoutRun,
       RestoreRead, RestoreGiveUp, SaveRun, CopySavedEvidence, CopySavedTopology,
       Collect
  <2>4. QED
    BY <1>b, <2>1, <2>2, <2>3
<1>2. ASSUME NEW b \in BatchId, NEW e \in Env, NEW wf \in Workflow,
             StartBatch(b, e, wf)
      PROVE  OneFinisher'
  <2>1. \A x \in BatchId : batch'[x].phase \in Finishing <=> batch[x].phase \in Finishing
    BY <1>2 DEF StartBatch, FreshBatch, NoBatch, Finishing, Typed, TypeOK
  <2>2. QED
    BY <1>2, <1>b, <2>1 DEF StartBatch
<1>3. ASSUME NEW b \in BatchId, NEW v \in {"failed", "passed", "accepted"},
             DecideBatch(b, v)
      PROVE  OneFinisher'
  <2>1. \A x \in BatchId : batch[x].phase \notin Finishing
    BY <1>3, <1>a DEF DecideBatch, OneFinisher
  <2>2. batch'[b].phase \in Finishing /\ \A x \in BatchId : x # b => batch'[x] = batch[x]
    BY <1>3 DEF DecideBatch, Finishing, Typed, TypeOK, BatchState
  <2>3. QED
    BY <1>3, <2>1, <2>2 DEF DecideBatch, OneFinisher
<1>4. ASSUME NEW b \in BatchId, RecordBatchRun(b) \/ IndexBatchEvidence(b) \/ CopyBatchTopology(b)
      PROVE  OneFinisher'
  <2>1. \A x \in BatchId : batch'[x].phase \in Finishing <=> batch[x].phase \in Finishing
    BY <1>4 DEF RecordBatchRun, IndexBatchEvidence, CopyBatchTopology, Finishing,
       Typed, TypeOK, BatchState
  <2>2. QED
    BY <1>4, <1>b, <2>1 DEF RecordBatchRun, IndexBatchEvidence, CopyBatchTopology
\* The batch that leaves Finishing is the one that holds the mutex.
<1>5. ASSUME NEW b \in BatchId, batch[b].phase \in Finishing,
             batch'[b].phase \notin Finishing, finisher' = NoRun,
             \A x \in BatchId : x # b => batch'[x] = batch[x]
      PROVE  OneFinisher'
  <2>1. finisher = b
    BY <1>5 DEF OneFinisher
  <2>2. \A x \in BatchId : batch'[x].phase \notin Finishing
    BY <1>5, <2>1 DEF OneFinisher
  <2>3. QED
    BY <1>5, <1>a, <2>2 DEF OneFinisher
<1>6. ASSUME NEW b \in BatchId, LoadForFinalize(b)
      PROVE  OneFinisher'
  <2>1. \A x \in BatchId : x # b => batch'[x] = batch[x]
    BY <1>6 DEF LoadForFinalize, Typed, TypeOK
  <2>2. CASE Exists(batch[b].env) /\ envs[batch[b].env].workflow = batch[b].workflow
    <3>1. batch'[b].phase \in Finishing /\ batch[b].phase \in Finishing
      BY <1>6, <2>2 DEF LoadForFinalize, Finishing, Typed, TypeOK, BatchState
    <3>2. QED
      BY <1>6, <1>b, <2>1, <2>2, <3>1 DEF LoadForFinalize
  <2>3. CASE ~(Exists(batch[b].env) /\ envs[batch[b].env].workflow = batch[b].workflow)
    <3>1. batch'[b].phase \notin Finishing /\ batch[b].phase \in Finishing
      BY <1>6, <2>3 DEF LoadForFinalize, Finishing, Typed, TypeOK, BatchState
    <3>2. QED
      BY <1>6, <1>5, <2>1, <2>3, <3>1 DEF LoadForFinalize
  <2>4. QED
    BY <2>2, <2>3
<1>7. ASSUME NEW b \in BatchId, FinalizeEnvironment(b)
      PROVE  OneFinisher'
  <2>1. batch[b] \in BatchState /\ batch' = [batch EXCEPT ![b] = [@ EXCEPT !.phase = "done", !.row = NoRow]]
    BY <1>7 DEF FinalizeEnvironment, Typed, TypeOK
  <2>2. batch'[b].phase = "done" /\ \A x \in BatchId : x # b => batch'[x] = batch[x]
    BY <2>1, EndedBatch DEF Typed, TypeOK
  <2>3. QED
    BY <1>5, <1>7, <2>2 DEF FinalizeEnvironment, Finishing
<1>8. ASSUME Crash
      PROVE  OneFinisher'
  <2>1. ASSUME NEW x \in BatchId
        PROVE  batch'[x].phase \in {"none", "lost"}
    <3>1. CASE batch[x].phase = "none"
      BY <1>8, <3>1 DEF Crash
    <3>2. CASE batch[x].phase # "none"
      <4>1. batch[x] \in BatchState /\ batch'[x] = [batch[x] EXCEPT !.phase = "lost", !.row = NoRow]
        BY <1>8, <3>2 DEF Crash, Typed, TypeOK
      <4>2. QED
        BY <4>1, EndedBatch
    <3>3. QED
      BY <3>1, <3>2
  <2>2. QED
    BY <1>8, <1>a, <2>1 DEF Crash, OneFinisher, Finishing
<1>9. CASE UNCHANGED vars
  BY <1>9 DEF vars, OneFinisher
<1>10. QED
  BY <1>1, <1>2, <1>3, <1>4, <1>6, <1>7, <1>8, <1>9
  DEF Next, BatchNext, BatchStep

\* Whatever the number of batch runs, at most one is inside finish(), and it is
\* the one that holds apiCaseBatchRunner.mu.
THEOREM FinishIsExclusive == Spec => []OneFinisher
  BY TypedInit, TypedNext, OneFinisherInit, OneFinisherNext, PTL DEF Spec

(***************************************************************************)
(* Refinement.  A step of the catalog writes one row, which is backed, or  *)
(* adds facts about one run, or is invisible to discovery.                 *)
(***************************************************************************)
WritesOneRow ==
  \E e \in Env, row \in EnvRow :
    /\ Backed(row)
    /\ envs' = [envs EXCEPT ![e] = row]
    /\ UNCHANGED <<runs, evidence, topology, everComplete>>

LearnsOfOneRun ==
  \E r \in RunId :
    /\ \A q \in RunId \ {r} : /\ runs'[q] = runs[q]
                              /\ q \in evidence' <=> q \in evidence
                              /\ q \in everComplete' <=> q \in everComplete
    /\ envs' = envs

KeepsFacts == UNCHANGED <<envs, runs, evidence, everComplete>>

LEMMA BatchStepIsVisible ==
  ASSUME Typed, HeldRowsBacked, NEW b \in BatchId, BatchStep(b)
  PROVE  WritesOneRow \/ LearnsOfOneRun \/ KeepsFacts
<1>1. CASE RecordBatchRun(b) \/ IndexBatchEvidence(b) \/ CopyBatchTopology(b)
  <2>1. b \in RunId
    BY DEF RunId
  <2>2. LearnsOfOneRun
    BY <1>1, <2>1 DEF RecordBatchRun, IndexBatchEvidence, CopyBatchTopology,
       SaveTopology, LearnsOfOneRun, Typed, TypeOK
  <2>3. QED
    BY <2>2
<1>2. CASE LoadForFinalize(b)
  BY <1>2 DEF LoadForFinalize, KeepsFacts, store
<1>3. CASE FinalizeEnvironment(b)
  <2>1. batch[b].env \in Env /\ batch[b].row \in EnvRow /\ Backed(batch[b].row)
    BY <1>3 DEF FinalizeEnvironment, Typed, BatchFits, HeldRowsBacked
  <2>2. QED
    BY <1>3, <2>1 DEF FinalizeEnvironment, WritesOneRow, KeepsFacts
<1>4. QED
  BY <1>1, <1>2, <1>3 DEF BatchStep

LEMMA StepIsVisible ==
  Typed /\ HeldRowsBacked /\ [Next]_vars => WritesOneRow \/ LearnsOfOneRun \/ KeepsFacts
<1> SUFFICES ASSUME Typed, HeldRowsBacked, [Next]_vars
             PROVE  WritesOneRow \/ LearnsOfOneRun \/ KeepsFacts
  OBVIOUS
<1>1. ASSUME NEW e \in Env, NEW wf \in Workflow, NEW c \in Config,
             NEW l \in RegisterLabel, Register(e, wf, c, l)
      PROVE  WritesOneRow
  <2>1. Registered(wf, c, l) \in EnvRow /\ Backed(Registered(wf, c, l))
    BY RegisteredIsRow DEF Registered, Backed
  <2>2. QED
    BY <1>1, <2>1 DEF Register, WritesOneRow
<1>2. ASSUME NEW w \in Writer, Write(w)
      PROVE  WritesOneRow
  <2>1. writer[w].env \in Env /\ writer[w].row \in EnvRow /\ Backed(writer[w].row)
    BY <1>2 DEF Write, Typed, WriterFits, Loaded, HeldRowsBacked
  <2>2. QED
    BY <1>2, <2>1 DEF Write, WritesOneRow
<1>3. ASSUME CommandNext
      PROVE  KeepsFacts \/ WritesOneRow
  BY <1>1, <1>2, <1>3 DEF CommandNext, StartVerify, StartConfigChange, StartPublish,
     StartRestore, Validate, Abandon, RestoreWithoutRun, RestoreRead, RestoreGiveUp,
     RestoreStartRun, store, KeepsFacts
<1>4. ASSUME BatchNext
      PROVE  WritesOneRow \/ LearnsOfOneRun \/ KeepsFacts
  BY <1>4, BatchStepIsVisible DEF BatchNext, StartBatch, DecideBatch, Crash, store, KeepsFacts
<1>5. ASSUME NEW w \in Writer, NEW r \in SavedId, NEW row \in SavedRun, SaveRun(w, r, row)
      PROVE  LearnsOfOneRun
  <2>1. r \in RunId
    BY DEF RunId
  <2>2. QED
    BY <1>5, <2>1 DEF SaveRun, LearnsOfOneRun, Typed, TypeOK
<1>6. ASSUME NEW w \in Writer, CopySavedEvidence(w) \/ CopySavedTopology(w)
      PROVE  LearnsOfOneRun
  <2>1. writer[w].run \in RunId
    BY <1>6 DEF CopySavedEvidence, CopySavedTopology, Typed, WriterFits, RunId
  <2>2. QED
    BY <1>6, <2>1 DEF CopySavedEvidence, CopySavedTopology, SaveTopology, LearnsOfOneRun
<1>7. ASSUME NEW r \in RunId, NEW q \in RunId, NEW v \in {"partial", "complete"}, Collect(r, q, v)
      PROVE  LearnsOfOneRun
  BY <1>7 DEF Collect, SaveTopology, LearnsOfOneRun
<1>8. CASE UNCHANGED vars
  BY <1>8 DEF vars, KeepsFacts
<1>9. QED
  BY <1>3, <1>4, <1>5, <1>6, <1>7, <1>8 DEF Next, RunNext

LEMMA GateInit == Init => Gate!Init
<1> SUFFICES ASSUME Init PROVE Gate!Init
  OBVIOUS
<1>1. Listing = [e \in Env |-> NoRow]
  BY DEF Init, Listing, Exists
<1>2. Proof = {}
  BY DEF Init, Proof, Proves
<1>3. QED
  BY <1>1, <1>2 DEF Gate!Init, Listing, Proof

\* Writing a backed row is one atomic listing.
LEMMA WriteIsList ==
  ASSUME Typed, WritesOneRow
  PROVE  Gate!Next
<1>1. PICK e \in Env, row \in EnvRow :
         /\ Backed(row)
         /\ envs' = [envs EXCEPT ![e] = row]
         /\ UNCHANGED <<runs, evidence, topology, everComplete>>
  BY DEF WritesOneRow
<1> DEFINE entry == [workflow |-> row.workflow, run |-> row.run, verified |-> row.verified]
<1>2. entry \in Gate!Entry /\ entry.verified = row.verified
      /\ entry.run = row.run /\ entry.workflow = row.workflow
  BY DEF Gate!Entry, EnvRow
<1>3. row.verified => <<row.run, row.workflow>> \in Proof
  BY <1>1 DEF Backed, Proof, Proves, EnvRow
<1>4. Listing' = [Listing EXCEPT ![e] = entry]
  BY <1>1, CatalogAssumption DEF Listing, Exists, Typed, TypeOK
<1>5. Proof' = Proof
  BY <1>1 DEF Proof, Proves
<1> HIDE DEF entry
<1>6. Gate!List(e, entry)
  BY <1>2, <1>3, <1>4, <1>5 DEF Gate!List, Listing, Proof
<1>7. QED
  BY <1>2, <1>6 DEF Gate!Next

\* New facts about one run make it prove at most one workflow.
LEMMA FactsAreProve ==
  ASSUME Typed, FactsStay, LearnsOfOneRun
  PROVE  Gate!Next \/ UNCHANGED <<Listing, Proof>>
<1>1. PICK r \in RunId :
         /\ \A q \in RunId \ {r} : /\ runs'[q] = runs[q]
                                   /\ q \in evidence' <=> q \in evidence
                                   /\ q \in everComplete' <=> q \in everComplete
         /\ envs' = envs
  BY DEF LearnsOfOneRun
<1>2. Listing' = Listing
  BY <1>1 DEF Listing, Exists
<1>3. \A q \in RunId, wf \in Workflow : Proves(q, wf) => Proves(q, wf)'
  BY DEF Proves, FactsStay
<1>4. \A q \in RunId \ {r}, wf \in Workflow : Proves(q, wf)' => Proves(q, wf)
  BY <1>1 DEF Proves
<1>5. CASE \A wf \in Workflow : Proves(r, wf)' => Proves(r, wf)
  <2>1. Proof' = Proof
    BY <1>3, <1>4, <1>5 DEF Proof
  <2>2. QED
    BY <1>2, <2>1
<1>6. CASE \E wf \in Workflow : Proves(r, wf)' /\ ~Proves(r, wf)
  <2>1. PICK wf \in Workflow : Proves(r, wf)' /\ ~Proves(r, wf)
    BY <1>6
  <2>2. \A other \in Workflow : Proves(r, other)' => other = wf
    BY <2>1 DEF Proves
  <2>3. \A other \in Workflow : <<r, other>> \notin Proof
    BY <1>3, <2>1, <2>2 DEF Proof
  <2>4. \A p \in RunId \X Workflow :
          p \in Proof' <=> p \in Proof \cup {<<r, wf>>}
    <3>1. ASSUME NEW q \in RunId, NEW w \in Workflow
          PROVE  <<q, w>> \in Proof' <=> <<q, w>> \in Proof \cup {<<r, wf>>}
      BY <1>3, <1>4, <2>1, <2>2 DEF Proof
    <3>2. QED
      BY <3>1
  <2>5. Proof' = Proof \cup {<<r, wf>>}
    BY <2>1, <2>4 DEF Proof
  <2>6. Gate!Prove(r, wf)
    BY <1>2, <2>3, <2>5 DEF Gate!Prove, Listing, Proof
  <2>7. QED
    BY <2>6 DEF Gate!Next
<1>7. QED
  BY <1>5, <1>6

LEMMA GateNext ==
  Typed /\ HeldRowsBacked /\ [Next]_vars => Gate!Next \/ UNCHANGED <<Listing, Proof>>
<1> SUFFICES ASSUME Typed, HeldRowsBacked, [Next]_vars
             PROVE  Gate!Next \/ UNCHANGED <<Listing, Proof>>
  OBVIOUS
<1>1. CASE KeepsFacts
  BY <1>1 DEF KeepsFacts, Listing, Proof, Exists, Proves
<1>2. QED
  BY <1>1, StepKeepsFacts, StepIsVisible, WriteIsList, FactsAreProve

\* Discovery behaves as if verified listings were made by one atomic check of
\* the Store, although commands load, check and upsert in separate steps.
THEOREM CatalogImplementsGate == Spec => GateSpec
<1>1. Typed /\ HeldRowsBacked /\ [Next]_vars => [Gate!Next]_<<Listing, Proof>>
  BY GateNext
<1>2. QED
  BY TypedInit, TypedNext, BackedInit, BackedNext, GateInit, <1>1, PTL
  DEF Spec, GateSpec, Gate!Spec
=============================================================================
