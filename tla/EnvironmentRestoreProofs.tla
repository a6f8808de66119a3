----------------------- MODULE EnvironmentRestoreProofs -----------------------
(***************************************************************************)
(* Restores touch a host with consent only, and Docker only when everything *)
(* is prepared, for every environment, option and number of sources and     *)
(* services: the steps that start or remove containers are far from the     *)
(* flags and outcomes they depend on, so the invariants carry these along.  *)
(***************************************************************************)
EXTENDS EnvironmentRestore, FiniteOrders

Fields == {"pc", "options", "next", "backedUp", "commands"}

TouchesDocker == {"backup", "down", "commands"}

\* What a restore that has got so far was allowed to do.
Consent ==
    /\ Fields \subseteq DOMAIN run
    /\ events \in Nat
    /\ checkouts = [p \in Paths |-> checkouts[p]]
    /\ run.pc # "idle" /\ run.options.prepare => run.options.execute
    /\ run.pc \in TouchesDocker =>
          run.options.execute /\ ~run.options.prepare /\ ~run.options.adopt
    /\ run.pc \in {"backup", "down"} => run.options.cleanup /\ run.options.allowed
    /\ run.pc = "down" => run.backedUp

\* What a step with consent may do to the host.
WithConsent ==
    /\ containers # "none" /\ containers' = "none" =>
          run.options.cleanup /\ run.options.allowed /\ run.backedUp
    /\ hostVars' # hostVars => run.options.execute
    /\ containers' # containers => ~run.options.prepare /\ ~run.options.adopt

\* The other parts of a restore's state keep its consent.
SameConsent ==
    /\ Fields \subseteq DOMAIN run' /\ run'.options = run.options
    /\ run'.pc \notin TouchesDocker
    /\ run.pc # "idle" /\ events' = events
    /\ checkouts' = [p \in Paths |-> checkouts'[p]]

LEMMA SameConsentKeeps == Consent /\ SameConsent => Consent'
BY DEF Consent, SameConsent, TouchesDocker

\* Docker ends, and the restore goes on without it.
LEMMA DockerEndsKeeps ==
    ASSUME Consent, NEW ok, DockerEnds(ok), run.pc # "idle", events' = events,
           checkouts' = [p \in Paths |-> checkouts'[p]]
    PROVE  SameConsent
BY DEF Consent, DockerEnds, SameConsent, Fields, TouchesDocker

-----------------------------------------------------------------------------
LEMMA ConsentInit == RestoreInit => Consent
BY RestoreConstants DEF RestoreInit, Consent, NoRestore, Fields, TouchesDocker

\* Without --execute no source changes.
LEMMA DryOutcomes ==
    ASSUME ~run.options.execute, NEW s, NEW state, NEW outcome \in SourceOutcomes(s, state)
    PROVE  outcome.state = state
<1>1. \A ok : Outcome(ok, state).state = state
  BY DEF Outcome
<1>2. \A o \in environmentRestoreMissingRepo(s, state, run.options.execute) : o.state = state
  BY <1>1 DEF environmentRestoreMissingRepo
<1>3. \A o \in environmentRestoreExistingRepo(s, state, run.options.execute, run.options.pull) :
          o.state = state
  BY <1>1 DEF environmentRestoreExistingRepo, environmentRestoreExistingRef
<1> QED
  BY <1>1, <1>2, <1>3 DEF SourceOutcomes, environmentRestoreRepo

LEMMA SourcesKeep ==
    ASSUME Consent, environmentRestoreAddSourceReports
    PROVE  Consent' /\ WithConsent
<1> DEFINE s == env.sources[run.next]
<1>1. PICK outcome \in SourceOutcomes(s, checkouts[s.path]) :
          /\ checkouts' = Prepared(s, outcome)
          /\ run' = [run EXCEPT !.next = @ + 1, !.ok = @ /\ outcome.ok,
                        !.package = IF s.kind = "package" THEN outcome.ok ELSE @,
                        !.repos = IF s.kind = "repo" THEN @ /\ outcome.ok ELSE @]
  BY DEF environmentRestoreAddSourceReports
<1>2. run.pc = "sources" /\ UNCHANGED <<tools, written, containers, events>>
  BY DEF environmentRestoreAddSourceReports, At
<1>3. Fields \subseteq DOMAIN run' /\ run'.options = run.options /\ run'.pc = "sources"
  BY <1>1, <1>2 DEF Consent, Fields
<1>4. checkouts' = [p \in Paths |-> checkouts'[p]]
  BY <1>1 DEF Consent, Prepared
<1>5. Consent'
  BY <1>2, <1>3, <1>4, SameConsentKeeps DEF SameConsent, TouchesDocker
<1>6. ~run.options.execute => checkouts' = checkouts
  <2> SUFFICES ASSUME ~run.options.execute PROVE checkouts' = checkouts
    OBVIOUS
  <2>1. outcome.state = checkouts[s.path]
    BY <1>1, DryOutcomes
  <2>2. checkouts' = [checkouts EXCEPT ![s.path] = outcome.state]
    BY <1>1, <2>1 DEF Prepared
  <2> QED
    BY <2>1, <2>2 DEF Consent
<1> QED
  BY <1>2, <1>5, <1>6 DEF WithConsent, hostVars

\* Steps before Docker starts, or that write files only.
LEMMA PlansKeep ==
    ASSUME Consent,
           \/ environmentRestoreSkippedDockerReport \/ environmentRestorePrepareReposOnlyDockerReport
           \/ environmentRestoreUseExistingContainers \/ environmentRestoreDockerStops
           \/ environmentRestorePrepareDockerExecution
    PROVE  Consent' /\ WithConsent
<1>1. SourcesDone /\ run.pc = "sources" /\ UNCHANGED <<tools, containers, events>>
  BY DEF SourcesDone, At, environmentRestoreSkippedDockerReport,
     environmentRestorePrepareReposOnlyDockerReport, environmentRestoreUseExistingContainers,
     environmentRestoreDockerStops, environmentRestorePrepareDockerExecution, hostVars
<1>2. checkouts' = [p \in Paths |-> checkouts'[p]]
  BY DEF Consent, environmentRestoreSkippedDockerReport, environmentRestorePrepareReposOnlyDockerReport,
     environmentRestoreUseExistingContainers, environmentRestoreDockerStops,
     environmentRestorePrepareDockerExecution, hostVars, WriteGeneratedFiles
<1>3. WithConsent
  BY <1>1 DEF Consent, WithConsent, environmentRestoreSkippedDockerReport,
     environmentRestorePrepareReposOnlyDockerReport, environmentRestoreUseExistingContainers,
     environmentRestoreDockerStops, environmentRestorePrepareDockerExecution, hostVars
<1>4. CASE environmentRestorePrepareDockerExecution
  <2>1. /\ run.options.execute /\ ~run.options.prepare /\ ~run.options.adopt
        /\ Fields \subseteq DOMAIN run' /\ run'.options = run.options
        /\ \/ run'.pc = "workflow"
           \/ run'.pc = "commands"
           \/ run'.pc = "backup" /\ run.options.cleanup /\ run.options.allowed
    BY <1>4 DEF environmentRestorePrepareDockerExecution, Consent, Fields
  <2> QED
    BY <1>1, <1>2, <1>3, <2>1 DEF Consent, TouchesDocker
<1>5. CASE environmentRestoreSkippedDockerReport \/ environmentRestorePrepareReposOnlyDockerReport
           \/ environmentRestoreUseExistingContainers \/ environmentRestoreDockerStops
  <2>1. ASSUME NEW ok, DockerEnds(ok)
        PROVE  Fields \subseteq DOMAIN run' /\ run'.options = run.options /\ run'.pc \notin TouchesDocker
    BY <2>1 DEF Consent, Fields, TouchesDocker, DockerEnds
  <2>2. ASSUME run' = [run EXCEPT !.pc = "edges", !.next = 1]
        PROVE  Fields \subseteq DOMAIN run' /\ run'.options = run.options /\ run'.pc \notin TouchesDocker
    BY <2>2 DEF Consent, Fields, TouchesDocker
  <2>3. ASSUME environmentRestoreDockerStops
        PROVE  Fields \subseteq DOMAIN run' /\ run'.options = run.options /\ run'.pc \notin TouchesDocker
    BY <2>3 DEF Consent, Fields, TouchesDocker, environmentRestoreDockerStops
  <2>4. Fields \subseteq DOMAIN run' /\ run'.options = run.options /\ run'.pc \notin TouchesDocker
    BY <1>5, <2>1, <2>2, <2>3 DEF environmentRestoreSkippedDockerReport,
       environmentRestorePrepareReposOnlyDockerReport, environmentRestoreUseExistingContainers
  <2> QED
    BY <1>1, <1>2, <1>3, <2>4, SameConsentKeeps DEF SameConsent
<1> QED
  BY <1>4, <1>5

LEMMA CleanupKeeps ==
    ASSUME Consent, environmentRestoreRunCleanup
    PROVE  Consent' /\ WithConsent
<1>1. /\ run.pc \in {"backup", "down"} /\ UNCHANGED <<tools, checkouts, written, events>>
      /\ checkouts' = [p \in Paths |-> checkouts'[p]]
  BY DEF environmentRestoreRunCleanup, At, Consent
<1>2. WithConsent
  BY DEF environmentRestoreRunCleanup, At, Consent, WithConsent, TouchesDocker, hostVars
<1>3. CASE run' = [run EXCEPT !.pc = "down", !.backedUp = TRUE]
  <2>1. /\ Fields \subseteq DOMAIN run' /\ run'.options = run.options /\ run'.pc = "down"
        /\ run'.backedUp
    BY <1>3 DEF Consent, Fields
  <2> QED
    BY <1>1, <1>2, <2>1 DEF Consent, TouchesDocker
<1>4. CASE run' = [run EXCEPT !.pc = "commands"]
  <2>1. Fields \subseteq DOMAIN run' /\ run'.options = run.options /\ run'.pc = "commands"
    BY <1>4 DEF Consent, Fields
  <2> QED
    BY <1>1, <1>2, <2>1 DEF Consent, TouchesDocker
<1>5. CASE DockerEnds(FALSE)
  BY <1>1, <1>2, <1>5, DockerEndsKeeps, SameConsentKeeps
<1> QED
  BY <1>3, <1>4, <1>5 DEF environmentRestoreRunCleanup

LEMMA CommandsKeep ==
    ASSUME Consent, environmentRestoreRunCommands
    PROVE  Consent' /\ WithConsent
<1>1. /\ run.pc = "commands" /\ UNCHANGED <<tools, checkouts, written, events>>
      /\ checkouts' = [p \in Paths |-> checkouts'[p]]
  BY DEF environmentRestoreRunCommands, At, Consent
<1>2. containers' \in {containers, "ours"}
  BY <1>1 DEF environmentRestoreRunCommands, PartlyDone, At
<1>3. WithConsent
  BY <1>1, <1>2 DEF Consent, WithConsent, TouchesDocker, hostVars
<1>4. CASE \E ok : DockerEnds(ok)
  BY <1>1, <1>3, <1>4, DockerEndsKeeps, SameConsentKeeps
<1>5. CASE ~\E ok : DockerEnds(ok)
  <2>1. Fields \subseteq DOMAIN run' /\ run'.options = run.options
        /\ run'.pc \in {"edges", "commands"}
    BY <1>5 DEF environmentRestoreRunCommands, Consent, Fields
  <2> QED
    BY <1>1, <1>3, <2>1 DEF Consent, TouchesDocker
<1> QED
  BY <1>4, <1>5

\* Steps after Docker leave the host alone.
LEMMA LaterKeep ==
    ASSUME Consent,
           \/ environmentRestoreApplyEdgeAssets \/ waitEnvironmentRestoreHealthChecks
           \/ environmentRestoreMaybeRunWorkflow \/ environmentRestoreMaybePersist
    PROVE  Consent' /\ WithConsent
<1>1. /\ run.pc \in {"edges", "health", "workflow", "persist"} /\ UNCHANGED <<hostVars, events>>
      /\ checkouts' = [p \in Paths |-> checkouts'[p]]
  BY DEF ApplyNext, environmentRestoreApplyEdgeAssets, waitEnvironmentRestoreHealthChecks,
     environmentRestoreMaybeRunWorkflow, environmentRestoreMaybePersist, At, hostVars, Consent
<1>2. WithConsent
  BY <1>1 DEF WithConsent, hostVars
<1>3. CASE \E ok : DockerEnds(ok)
  BY <1>1, <1>2, <1>3, DockerEndsKeeps, SameConsentKeeps
<1>4. CASE ~\E ok : DockerEnds(ok)
  <2>1. Fields \subseteq DOMAIN run' /\ run'.options = run.options /\ run'.pc \notin TouchesDocker
    <3>1. CASE environmentRestoreApplyEdgeAssets
      BY <1>4, <3>1 DEF ApplyNext, environmentRestoreApplyEdgeAssets, Consent, Fields, TouchesDocker, At
    <3>2. CASE waitEnvironmentRestoreHealthChecks
      BY <1>1, <1>4, <3>2 DEF waitEnvironmentRestoreHealthChecks, Consent, Fields, TouchesDocker, At
    <3>3. CASE environmentRestoreMaybeRunWorkflow
      <4>1. \/ run' = [run EXCEPT !.pc = "persist"]
            \/ \E ok, state : run' = [run EXCEPT !.pc = "persist", !.ok = ok, !.workflow = state]
        BY <3>3 DEF environmentRestoreMaybeRunWorkflow
      <4>2. Fields \subseteq DOMAIN run
        BY DEF Consent
      <4>3. ASSUME run' = [run EXCEPT !.pc = "persist"]
            PROVE  Fields \subseteq DOMAIN run' /\ run'.options = run.options /\ run'.pc = "persist"
        BY <4>2, <4>3 DEF Fields
      <4>4. ASSUME NEW ok, NEW state, run' = [run EXCEPT !.pc = "persist", !.ok = ok, !.workflow = state]
            PROVE  Fields \subseteq DOMAIN run' /\ run'.options = run.options /\ run'.pc = "persist"
        BY <4>2, <4>4 DEF Fields
      <4> QED
        BY <4>1, <4>3, <4>4 DEF TouchesDocker
    <3>4. CASE environmentRestoreMaybePersist
      <4>1. \E ok : run' = [run EXCEPT !.pc = "end", !.ok = ok]
        BY <3>4 DEF environmentRestoreMaybePersist
      <4> QED
        BY <4>1 DEF Consent, Fields, TouchesDocker
    <3> QED
      BY <3>1, <3>2, <3>3, <3>4
  <2> QED
    BY <1>1, <1>2, <2>1, SameConsentKeeps DEF SameConsent
<1> QED
  BY <1>3, <1>4

\* A restore that is killed, whatever its last command did.
LEMMA KillKeeps ==
    ASSUME Consent, KillRestore
    PROVE  Consent' /\ WithConsent
<1>1. run' = NoRestore /\ UNCHANGED <<tools, written, events>>
  BY DEF KillRestore
<1>2. checkouts' = [p \in Paths |-> checkouts'[p]]
  BY DEF KillRestore, Consent
<1>3. Consent'
  BY <1>1, <1>2 DEF Consent, NoRestore, Fields, TouchesDocker
<1>4. checkouts' # checkouts => run.options.execute
  BY DEF KillRestore
<1>5. \/ containers' = containers
      \/ run.pc = "commands" /\ containers' = "ours"
      \/ run.pc = "down"
  BY DEF KillRestore, PartlyDone, At
<1>6. WithConsent
  BY <1>1, <1>4, <1>5 DEF Consent, WithConsent, TouchesDocker, hostVars
<1> QED
  BY <1>3, <1>6

\* A new restore, the end of one, and what others do to the host.
LEMMA OtherSteps ==
    ASSUME Consent,
           \/ newEnvironmentRestoreReport \/ FinishRestore \/ OutsideEvent \/ ContainersAppear
    PROVE  Consent' /\ (run.pc # "idle" /\ events' = events => WithConsent)
<1>1. CASE newEnvironmentRestoreReport
  <2>1. PICK o \in Options : /\ validateEnvironmentRestoreCommandFlags(o)
                             /\ run'.options = o /\ run'.pc = "sources" /\ Fields \subseteq DOMAIN run'
    <3>1. Fields \subseteq DOMAIN NoRestore
      BY DEF Fields, NoRestore
    <3> QED
      BY <1>1, <3>1 DEF newEnvironmentRestoreReport, Fields
  <2>2. run'.options.prepare => run'.options.execute
    BY <2>1 DEF validateEnvironmentRestoreCommandFlags
  <2>3. run.pc = "idle" /\ UNCHANGED <<checkouts, events>>
    BY <1>1 DEF newEnvironmentRestoreReport, hostVars, At
  <2> QED
    BY <2>1, <2>2, <2>3 DEF Consent, TouchesDocker
<1>2. CASE FinishRestore
  BY <1>2 DEF FinishRestore, Consent, WithConsent, NoRestore, Fields, TouchesDocker, hostVars
<1>3. CASE OutsideEvent
  <2>1. run.pc = "idle" /\ run' = run /\ events' \in Nat
    BY <1>3 DEF OutsideEvent, At, Consent
  <2>2. checkouts' = [p \in Paths |-> checkouts'[p]]
    BY <1>3 DEF OutsideEvent, Consent
  <2> QED
    BY <2>1, <2>2 DEF Consent, TouchesDocker
<1>4. CASE ContainersAppear
  <2>1. run' = run /\ checkouts' = checkouts /\ events' = events + 1 /\ events \in Nat
    BY <1>4 DEF ContainersAppear, Consent
  <2> QED
    BY <2>1 DEF Consent
<1> QED
  BY <1>1, <1>2, <1>3, <1>4

LEMMA ConsentStep ==
    ASSUME Consent, RestoreNext
    PROVE  Consent' /\ (run.pc # "idle" /\ events' = events => WithConsent)
BY SourcesKeep, PlansKeep, CleanupKeeps, CommandsKeep, LaterKeep, KillKeeps, OtherSteps
   DEF RestoreNext, RestoreStep, environmentRestoreDocker

LEMMA ConsentNext == Consent /\ [RestoreNext]_restoreVars => Consent'
<1>1. Consent /\ UNCHANGED restoreVars => Consent'
  BY DEF Consent, restoreVars, hostVars
<1> QED
  BY <1>1, ConsentStep

-----------------------------------------------------------------------------
\* For every environment and every combination of options, a restore removes containers only
\* with an allowed cleanup after its review commands, and changes the host only with --execute
\* (NoRestoreWithoutConsent), however often restores are killed and started again and whatever
\* others do to the host in between.
THEOREM RestoresHaveConsent == RestoreSpec => NoRestoreWithoutConsent
<1>1. RestoreInit => Consent
  BY ConsentInit
<1>2. Consent /\ [RestoreNext]_restoreVars => Consent'
  BY ConsentNext
<1>3. Consent /\ [RestoreNext]_restoreVars
      => [run.pc \notin {"idle"} /\ events' = events =>
             /\ containers # "none" /\ containers' = "none" =>
                   run.options.cleanup /\ run.options.allowed /\ run.backedUp
             /\ hostVars' # hostVars => run.options.execute
             /\ containers' # containers => ~run.options.prepare /\ ~run.options.adopt]_restoreVars
  BY ConsentStep DEF WithConsent
<1> QED
  BY <1>1, <1>2, <1>3, PTL DEF RestoreSpec, NoRestoreWithoutConsent

-----------------------------------------------------------------------------
(* Docker starts prepared.                                                 *)

Gates == {"ok", "tooling", "conflicts", "assets", "policy", "package", "repos"}

\* The repository of source i is where it is recorded, or was, before the restore wrote
\* generated files into it.
InPlace(i) ==
    LET s == env.sources[i]
    IN  s.kind = "repo" /\ s.ref # "none" /\ ~Shared(i) =>
            \/ checkouts[s.path] = s.ref
            \/ checkouts[s.path] = "dirty" /\ s.path \in env.writes

GatesPassed ==
    PreflightOK(run) /\ run.policy /\ run.package /\ run.repos /\ env.graph # "bad"

\* A report that is still ok passed every gate so far, and the sources before the next one
\* are in place.
SourcesSoFar ==
    run.pc = "sources" =>
        /\ run.next \in Nat \ {0}
        /\ run.ok => GatesPassed
        /\ run.ok /\ run.options.execute =>
              \A i \in DOMAIN env.sources : i < run.next => InPlace(i)

Preparing ==
    /\ Consent
    /\ env \in Environments
    /\ Gates \subseteq DOMAIN run
    /\ SourcesSoFar
    /\ DockerStartsPrepared

LEMMA SourceTypes ==
    ASSUME env \in Environments, NEW i \in DOMAIN env.sources
    PROVE  /\ env.sources[i].path \in Paths /\ env.sources[i].ref \in Refs \cup {"none"}
           /\ DOMAIN env.sources \subseteq Nat \ {0}
<1>1. env.sources \in Seq(Sources)
  BY RestoreConstants
<1>2. env.sources[i] \in Sources /\ DOMAIN env.sources \subseteq Nat \ {0}
  BY <1>1
<1> QED
  BY <1>2 DEF Sources

LEMMA RefStates ==
    ASSUME NEW ref \in Refs
    PROVE  ref \notin Gitless \cup {"foreign", "dirty", "branch", "none"}
BY RestoreConstants

\* Files that are written into a checkout leave it where it is, or dirty.
LEMMA SoiledInPlace ==
    ASSUME NEW path, NEW ref \in Refs, NEW state,
           \/ state = ref
           \/ state = "dirty" /\ path \in env.writes
    PROVE  \/ Soiled(path, state) = ref
           \/ Soiled(path, state) = "dirty" /\ path \in env.writes
BY RefStates DEF Soiled, Gitless

\* With --execute a repository that is ok is at its ref.
LEMMA OutcomeAtRef ==
    ASSUME run.options.execute, NEW s, s.kind = "repo", s.ref \in Refs, NEW state,
           NEW outcome \in SourceOutcomes(s, state), outcome.ok
    PROVE  outcome.state = s.ref
<1>0. s.ref # "none"
  BY RefStates
<1>1. \A x : ~Outcome(FALSE, x).ok /\ Outcome(TRUE, x).state = x
  BY DEF Outcome
<1> HIDE DEF Outcome
<1>2. ASSUME outcome \in environmentRestoreMissingRepo(s, state, run.options.execute)
      PROVE  outcome.state = s.ref
  <2>1. outcome \in {Outcome(FALSE, state), Outcome(TRUE, s.ref), Outcome(FALSE, "branch")}
    BY <1>0, <1>2 DEF environmentRestoreMissingRepo, environmentRestoreCloneIntoCheckout
  <2> QED
    BY <1>1, <2>1
<1>3. ASSUME outcome \in environmentRestoreExistingRepo(s, state, run.options.execute, run.options.pull)
      PROVE  outcome.state = s.ref
  <2>1. outcome \in {Outcome(FALSE, state), Outcome(TRUE, s.ref)}
    BY <1>0, <1>3 DEF environmentRestoreExistingRepo, environmentRestoreExistingRef
  <2> QED
    BY <1>1, <2>1
<1> QED
  BY <1>2, <1>3 DEF SourceOutcomes, environmentRestoreRepo

\* What preparing a source does to another checkout is at most to write into it.
LEMMA PreparedOthers ==
    ASSUME Consent, NEW s, s.path \in Paths, NEW outcome, NEW path \in Paths, path # s.path
    PROVE  Prepared(s, outcome)[path] \in {checkouts[path], Soiled(path, checkouts[path])}
<1>1. DOMAIN checkouts = Paths
  BY DEF Consent
<1>2. "workspace" \in Paths
  BY RestoreConstants
<1> QED
  BY <1>1, <1>2 DEF Prepared

LEMMA PreparedItself ==
    ASSUME Consent, NEW s, s.path \in Paths, s.kind = "repo", NEW outcome
    PROVE  Prepared(s, outcome)[s.path] = outcome.state
<1>1. DOMAIN checkouts = Paths
  BY DEF Consent
<1> QED
  BY <1>1 DEF Prepared

LEMMA SourcesPrepare ==
    ASSUME Preparing, environmentRestoreAddSourceReports
    PROVE  Preparing'
<1> DEFINE s == env.sources[run.next]
<1>1. PICK outcome \in SourceOutcomes(s, checkouts[s.path]) :
          /\ checkouts' = Prepared(s, outcome)
          /\ run' = [run EXCEPT !.next = @ + 1, !.ok = @ /\ outcome.ok,
                        !.package = IF s.kind = "package" THEN outcome.ok ELSE @,
                        !.repos = IF s.kind = "repo" THEN @ /\ outcome.ok ELSE @]
  BY DEF environmentRestoreAddSourceReports
<1>2. /\ run.pc = "sources" /\ env' = env /\ run.next \in DOMAIN env.sources
      /\ run.next \in Nat \ {0}
  <2>1. /\ run.pc = "sources" /\ env' = env /\ run.next <= Len(env.sources)
        /\ run.next \in Nat \ {0}
    BY DEF environmentRestoreAddSourceReports, At, Preparing, SourcesSoFar
  <2>2. env.sources \in Seq(Sources)
    BY RestoreConstants DEF Preparing
  <2> QED
    BY <2>1, <2>2
<1>3. /\ s.path \in Paths /\ s.ref \in Refs \cup {"none"} /\ DOMAIN env.sources \subseteq Nat \ {0}
  BY <1>2, SourceTypes DEF Preparing
<1>4. /\ DOMAIN run' = DOMAIN run /\ run'.pc = "sources" /\ run'.options = run.options
      /\ run'.next = run.next + 1 /\ run'.tooling = run.tooling
      /\ run'.conflicts = run.conflicts /\ run'.assets = run.assets /\ run'.policy = run.policy
      /\ run'.ok = (run.ok /\ outcome.ok)
      /\ run'.package = IF s.kind = "package" THEN outcome.ok ELSE run.package
      /\ run'.repos = IF s.kind = "repo" THEN run.repos /\ outcome.ok ELSE run.repos
  BY <1>1, <1>2 DEF Preparing, Consent, Fields, Gates
<1>5. Consent'
  BY SourcesKeep DEF Preparing
<1>6. run'.ok => GatesPassed'
  BY <1>2, <1>4 DEF Preparing, SourcesSoFar, GatesPassed, PreflightOK
<1>7. ASSUME run'.ok, run.options.execute, NEW i \in DOMAIN env.sources, i < run.next + 1,
             env.sources[i].kind = "repo", env.sources[i].ref # "none", ~Shared(i)
      PROVE  \/ checkouts'[env.sources[i].path] = env.sources[i].ref
             \/ checkouts'[env.sources[i].path] = "dirty" /\ env.sources[i].path \in env.writes
  <2>0. env.sources[i].path \in Paths /\ env.sources[i].ref \in Refs
    BY <1>7, SourceTypes DEF Preparing
  <2>1. run.ok /\ outcome.ok
    BY <1>4, <1>7
  <2>2. CASE i = run.next
    <3>1. outcome.state = s.ref
      BY <1>7, <2>0, <2>1, <2>2, OutcomeAtRef
    <3>2. checkouts'[s.path] = outcome.state
      BY <1>1, <1>3, <1>7, <2>2, PreparedItself DEF Preparing
    <3> QED
      BY <2>2, <3>1, <3>2
  <2>3. CASE i # run.next
    <3>1. i < run.next
      BY <1>2, <1>3, <1>7, <2>3
    <3>2. \/ checkouts[env.sources[i].path] = env.sources[i].ref
          \/ checkouts[env.sources[i].path] = "dirty" /\ env.sources[i].path \in env.writes
      BY <1>2, <1>7, <2>1, <3>1 DEF Preparing, SourcesSoFar, InPlace
    <3>3. env.sources[i].path # s.path
      BY <1>2, <1>7, <2>3 DEF Shared
    <3>4. checkouts'[env.sources[i].path] \in
             {checkouts[env.sources[i].path], Soiled(env.sources[i].path, checkouts[env.sources[i].path])}
      BY <1>1, <1>3, <2>0, <3>3, PreparedOthers DEF Preparing
    <3> DEFINE path == env.sources[i].path
    <3>5. \/ Soiled(path, checkouts[path]) = env.sources[i].ref
          \/ Soiled(path, checkouts[path]) = "dirty" /\ path \in env.writes
      BY <2>0, <3>2, SoiledInPlace
    <3> QED
      BY <3>2, <3>4, <3>5
  <2> QED
    BY <2>2, <2>3
<1>8. SourcesSoFar'
  <2>1. \A i : Shared(i)' <=> Shared(i)
    BY <1>2 DEF Shared
  <2>2. ASSUME run'.ok, run.options.execute, NEW i \in DOMAIN env.sources, i < run.next + 1
        PROVE  InPlace(i)'
    BY <1>2, <1>7, <2>1, <2>2 DEF InPlace
  <2> QED
    BY <1>2, <1>4, <1>6, <2>2 DEF SourcesSoFar
<1>9. DockerStartsPrepared'
  BY <1>4 DEF DockerStartsPrepared
<1> QED
  BY <1>2, <1>4, <1>5, <1>8, <1>9 DEF Preparing

\* A step to somewhere Docker is not started, or of somebody else, leaves nothing to prepare.
LEMMA NothingToPrepare ==
    ASSUME Preparing, Consent', env' = env, DOMAIN run' = DOMAIN run \/ run' = NoRestore,
           run'.pc \notin TouchesDocker \cup {"sources"}
    PROVE  Preparing'
BY DEF Preparing, SourcesSoFar, DockerStartsPrepared, TouchesDocker, Gates, NoRestore

\* Steps of Docker before its last command keep what was prepared.
LEMMA StillPrepared ==
    ASSUME Preparing, Consent', UNCHANGED <<env, checkouts, written>>,
           DOMAIN run' = DOMAIN run, run.pc \in TouchesDocker, run'.pc \in TouchesDocker,
           run'.options = run.options, run'.tooling = run.tooling,
           run'.conflicts = run.conflicts, run'.assets = run.assets, run'.policy = run.policy,
           run'.package = run.package, run'.repos = run.repos
    PROVE  Preparing'
<1>1. SourcesSoFar'
  BY DEF SourcesSoFar, TouchesDocker
<1>2. DockerStartsPrepared'
  BY DEF Preparing, DockerStartsPrepared, TouchesDocker, PreflightOK, Cloned, Shared
<1> QED
  BY <1>1, <1>2 DEF Preparing

LEMMA ExecutionPrepared ==
    ASSUME Preparing, environmentRestorePrepareDockerExecution
    PROVE  Preparing'
<1>0. Consent'
  BY PlansKeep DEF Preparing
<1>1. /\ run.pc = "sources" /\ run.next > Len(env.sources) /\ run.ok /\ run.options.execute
      /\ ~run.options.prepare /\ ~run.options.adopt /\ WriteGeneratedFiles /\ env' = env
      /\ run.next \in Nat
  BY DEF environmentRestorePrepareDockerExecution, SourcesDone, At, Preparing, SourcesSoFar
<1>2. /\ DOMAIN run' = DOMAIN run /\ run'.pc \in TouchesDocker \cup {"workflow"}
      /\ run'.options = run.options /\ run'.tooling = run.tooling
      /\ run'.conflicts = run.conflicts /\ run'.assets = run.assets /\ run'.policy = run.policy
      /\ run'.package = run.package /\ run'.repos = run.repos
  BY DEF environmentRestorePrepareDockerExecution, Preparing, Consent, Fields, Gates, TouchesDocker
<1>3. run'.pc \in TouchesDocker => (env.compose \in Paths => Cloned(env.compose))
  <2>1. ASSUME env.compose \in Paths, ~Cloned(env.compose) PROVE run'.pc = "workflow"
    BY <2>1 DEF environmentRestorePrepareDockerExecution, Preparing, Consent, Fields
  <2> QED
    BY <2>1 DEF TouchesDocker
<1>4. GatesPassed /\ \A i \in DOMAIN env.sources : InPlace(i)
  <2>1. GatesPassed /\ \A i \in DOMAIN env.sources : i < run.next => InPlace(i)
    BY <1>1 DEF Preparing, SourcesSoFar
  <2>2. env.sources \in Seq(Sources)
    BY RestoreConstants DEF Preparing
  <2>3. \A i \in DOMAIN env.sources : i < run.next
    BY <1>1, <2>2
  <2> QED
    BY <2>1, <2>3
<1>5. \A p \in Paths : checkouts'[p] \in {checkouts[p], Soiled(p, checkouts[p])}
  BY <1>1 DEF WriteGeneratedFiles, Preparing, Consent
<1>6. CASE run'.pc = "workflow"
  BY <1>0, <1>1, <1>2, <1>6, NothingToPrepare DEF TouchesDocker
<1>7. CASE run'.pc \in TouchesDocker
  <2>1. SourcesSoFar'
    BY <1>7 DEF SourcesSoFar, TouchesDocker
  <2>2. env.compose \in Paths => Cloned(env.compose)'
    BY <1>1, <1>3, <1>5, <1>7 DEF Cloned, Soiled, Gitless
  <2>3. env.compose = "generated" => written'
    BY <1>1 DEF WriteGeneratedFiles, GeneratedFiles
  <2>4. ASSUME NEW i \in DOMAIN env.sources, env.sources[i].kind = "repo",
               env.sources[i].ref # "none", ~Shared(i)
        PROVE  \/ checkouts'[env.sources[i].path] = env.sources[i].ref
               \/ checkouts'[env.sources[i].path] = "dirty" /\ env.sources[i].path \in env.writes
    <3>1. env.sources[i].path \in Paths /\ env.sources[i].ref \in Refs
      BY <2>4, SourceTypes DEF Preparing
    <3>2. \/ checkouts[env.sources[i].path] = env.sources[i].ref
          \/ checkouts[env.sources[i].path] = "dirty" /\ env.sources[i].path \in env.writes
      BY <1>4, <2>4 DEF InPlace
    <3> DEFINE path == env.sources[i].path
    <3>3. \/ Soiled(path, checkouts[path]) = env.sources[i].ref
          \/ Soiled(path, checkouts[path]) = "dirty" /\ path \in env.writes
      BY <3>1, <3>2, SoiledInPlace
    <3> QED
      BY <1>5, <3>1, <3>2, <3>3
  <2>5. DockerStartsPrepared'
    <3>1. \A i : Shared(i)' <=> Shared(i)
      BY <1>1 DEF Shared
    <3> QED
      BY <1>1, <1>2, <1>4, <2>2, <2>3, <2>4, <3>1
      DEF DockerStartsPrepared, GatesPassed, PreflightOK, Cloned
  <2> QED
    BY <1>0, <1>1, <1>2, <2>1, <2>5 DEF Preparing
<1> QED
  BY <1>2, <1>6, <1>7

LEMMA DockerPrepared ==
    ASSUME Preparing, environmentRestoreRunCleanup \/ environmentRestoreRunCommands
    PROVE  Preparing'
<1>0. Consent' /\ UNCHANGED <<env, checkouts, written>>
  BY CleanupKeeps, CommandsKeep
  DEF Preparing, environmentRestoreRunCleanup, environmentRestoreRunCommands
<1>1. run.pc \in TouchesDocker
  BY DEF environmentRestoreRunCleanup, environmentRestoreRunCommands, At, TouchesDocker
<1>2. /\ DOMAIN run' = DOMAIN run /\ run'.options = run.options /\ run'.tooling = run.tooling
      /\ run'.conflicts = run.conflicts /\ run'.assets = run.assets /\ run'.policy = run.policy
      /\ run'.package = run.package /\ run'.repos = run.repos
      /\ run'.pc \in TouchesDocker \cup {"workflow", "edges"}
  <2>1. CASE environmentRestoreRunCleanup
    BY <2>1 DEF environmentRestoreRunCleanup, DockerEnds, Preparing, Consent, Fields, Gates, TouchesDocker
  <2>2. CASE environmentRestoreRunCommands
    BY <2>2 DEF environmentRestoreRunCommands, DockerEnds, Preparing, Consent, Fields, Gates, TouchesDocker
  <2> QED
    BY <2>1, <2>2
<1>3. CASE run'.pc \in TouchesDocker
  BY <1>0, <1>1, <1>2, <1>3, StillPrepared
<1>4. CASE run'.pc \in {"workflow", "edges"}
  BY <1>0, <1>2, <1>4, NothingToPrepare DEF TouchesDocker
<1> QED
  BY <1>2, <1>3, <1>4

LEMMA LaterPrepared ==
    ASSUME Preparing,
           \/ environmentRestoreSkippedDockerReport \/ environmentRestorePrepareReposOnlyDockerReport
           \/ environmentRestoreUseExistingContainers \/ environmentRestoreDockerStops
           \/ environmentRestoreApplyEdgeAssets \/ waitEnvironmentRestoreHealthChecks
           \/ environmentRestoreMaybeRunWorkflow \/ environmentRestoreMaybePersist
    PROVE  Preparing'
<1>0. Consent'
  BY PlansKeep, LaterKeep DEF Preparing
<1>1. env' = env
  BY DEF environmentRestoreSkippedDockerReport, environmentRestorePrepareReposOnlyDockerReport,
     environmentRestoreUseExistingContainers, environmentRestoreDockerStops,
     environmentRestoreApplyEdgeAssets, waitEnvironmentRestoreHealthChecks,
     environmentRestoreMaybeRunWorkflow, environmentRestoreMaybePersist
<1>2. "pc" \in DOMAIN run
  BY DEF Preparing, Consent, Fields
<1>3. ASSUME NEW ok, DockerEnds(ok) PROVE DOMAIN run' = DOMAIN run /\ run'.pc = "workflow"
  BY <1>2, <1>3 DEF DockerEnds
<1>4. DOMAIN run' = DOMAIN run /\ run'.pc \notin TouchesDocker \cup {"sources"}
  <2>1. CASE environmentRestoreSkippedDockerReport \/ environmentRestorePrepareReposOnlyDockerReport
    BY <1>3, <2>1 DEF environmentRestoreSkippedDockerReport,
       environmentRestorePrepareReposOnlyDockerReport, TouchesDocker
  <2>2. CASE environmentRestoreUseExistingContainers
    <3>1. \/ \E ok : DockerEnds(ok)
          \/ run' = [run EXCEPT !.pc = "edges", !.next = 1]
      BY <2>2 DEF environmentRestoreUseExistingContainers
    <3> QED
      BY <1>2, <1>3, <3>1 DEF TouchesDocker
  <2>3. CASE environmentRestoreDockerStops
    BY <1>2, <2>3 DEF environmentRestoreDockerStops, TouchesDocker
  <2>4. CASE environmentRestoreApplyEdgeAssets
    <3>1. \/ \E ok : DockerEnds(ok)
          \/ run' = [run EXCEPT !.pc = "health", !.next = 1]
          \/ \E applied : run' = [run EXCEPT !.next = @ + 1, !.applied = applied]
      BY <2>4 DEF ApplyNext, environmentRestoreApplyEdgeAssets
    <3>2. run.pc = "edges"
      BY <2>4 DEF ApplyNext, environmentRestoreApplyEdgeAssets, At
    <3> QED
      BY <1>2, <1>3, <3>1, <3>2 DEF TouchesDocker
  <2>5. CASE waitEnvironmentRestoreHealthChecks
    BY <1>2, <1>3, <2>5 DEF waitEnvironmentRestoreHealthChecks, TouchesDocker, At
  <2>6. CASE environmentRestoreMaybeRunWorkflow
    <3>1. \/ run' = [run EXCEPT !.pc = "persist"]
          \/ \E ok, state : run' = [run EXCEPT !.pc = "persist", !.ok = ok, !.workflow = state]
      BY <2>6 DEF environmentRestoreMaybeRunWorkflow
    <3>2. ASSUME NEW ok, NEW state, run' = [run EXCEPT !.pc = "persist", !.ok = ok, !.workflow = state]
          PROVE  DOMAIN run' = DOMAIN run /\ run'.pc = "persist"
      BY <1>2, <3>2
    <3> QED
      BY <1>2, <3>1, <3>2 DEF TouchesDocker
  <2>7. CASE environmentRestoreMaybePersist
    <3>1. \E ok : run' = [run EXCEPT !.pc = "end", !.ok = ok]
      BY <2>7 DEF environmentRestoreMaybePersist
    <3> QED
      BY <1>2, <3>1 DEF TouchesDocker
  <2> QED
    BY <2>1, <2>2, <2>3, <2>4, <2>5, <2>6, <2>7
<1> QED
  BY <1>0, <1>1, <1>4, NothingToPrepare

LEMMA NewPrepared ==
    ASSUME Preparing, newEnvironmentRestoreReport
    PROVE  Preparing'
<1>0. Consent'
  BY OtherSteps DEF Preparing
<1>1. PICK o \in Options, seen \in BOOLEAN :
         LET new == [NoRestore EXCEPT
                        !.pc = "sources", !.options = o,
                        !.tooling = ToolsOK,
                        !.conflicts = seen /\ environmentRestoreCheckContainerConflicts(o),
                        !.assets = environmentRestoreCheckStartupAssets(o),
                        !.policy = environmentRestoreSourcePolicyReport,
                        !.again = proven]
         IN  run' = [new EXCEPT !.ok = PreflightOK(new) /\ new.policy /\ env.graph # "bad"]
  BY DEF newEnvironmentRestoreReport
<1> DEFINE new == [NoRestore EXCEPT
                        !.pc = "sources", !.options = o,
                        !.tooling = ToolsOK,
                        !.conflicts = seen /\ environmentRestoreCheckContainerConflicts(o),
                        !.assets = environmentRestoreCheckStartupAssets(o),
                        !.policy = environmentRestoreSourcePolicyReport,
                        !.again = proven]
<1>2. /\ Gates \subseteq DOMAIN new /\ {"pc", "next", "options"} \subseteq DOMAIN new
      /\ new.pc = "sources" /\ new.next = 1 /\ new.package = TRUE /\ new.repos = TRUE
  BY DEF NoRestore, Gates
<1>3. run' = [new EXCEPT !.ok = PreflightOK(new) /\ new.policy /\ env.graph # "bad"]
  BY <1>1
<1> HIDE DEF new
<1>4. /\ DOMAIN run' = DOMAIN new /\ run'.pc = "sources" /\ run'.next = 1
      /\ run'.tooling = new.tooling /\ run'.conflicts = new.conflicts /\ run'.assets = new.assets
      /\ run'.policy = new.policy /\ run'.package = TRUE /\ run'.repos = TRUE
      /\ run'.ok = (PreflightOK(new) /\ new.policy /\ env.graph # "bad")
  BY <1>2, <1>3 DEF Gates
<1>5. env' = env
  BY DEF newEnvironmentRestoreReport
<1>6. run'.ok => GatesPassed'
  BY <1>4, <1>5 DEF GatesPassed, PreflightOK
<1>7. \A i \in DOMAIN env.sources : ~(i < 1)
  <2>1. env.sources \in Seq(Sources)
    BY RestoreConstants DEF Preparing
  <2> QED
    BY <2>1
<1>8. SourcesSoFar'
  BY <1>4, <1>5, <1>6, <1>7 DEF SourcesSoFar
<1>9. DockerStartsPrepared'
  BY <1>4 DEF DockerStartsPrepared
<1> QED
  BY <1>0, <1>2, <1>4, <1>5, <1>8, <1>9 DEF Preparing

LEMMA OthersPrepared ==
    ASSUME Preparing, FinishRestore \/ KillRestore \/ OutsideEvent \/ ContainersAppear
    PROVE  Preparing'
<1>0. Consent' /\ env' = env
  BY OtherSteps, KillKeeps DEF Preparing, FinishRestore, KillRestore, OutsideEvent, ContainersAppear
<1>1. CASE FinishRestore \/ KillRestore
  <2>1. run' = NoRestore
    BY <1>1 DEF FinishRestore, KillRestore
  <2> QED
    BY <1>0, <2>1, NothingToPrepare DEF NoRestore, TouchesDocker
<1>2. CASE OutsideEvent
  <2>1. run' = run /\ run.pc = "idle"
    BY <1>2 DEF OutsideEvent, At
  <2> QED
    BY <1>0, <2>1, NothingToPrepare DEF TouchesDocker
<1>3. CASE ContainersAppear
  <2>1. UNCHANGED <<run, env, checkouts, written>>
    BY <1>3 DEF ContainersAppear
  <2> QED
    BY <1>0, <2>1 DEF Preparing, SourcesSoFar, DockerStartsPrepared, GatesPassed, PreflightOK,
       InPlace, Shared, Cloned
<1> QED
  BY <1>1, <1>2, <1>3

\* When a restore starts to touch Docker, its preflight, graph and sources passed, its
\* repositories are at their refs and its compose file is there (DockerStartsPrepared): for any
\* environment and sources, however often restores are killed and whatever others do meanwhile.
THEOREM DockerStartsWhenPrepared == RestoreSpec => []DockerStartsPrepared
<1>1. RestoreInit => Preparing
  BY ConsentInit DEF RestoreInit, Preparing, SourcesSoFar, DockerStartsPrepared, NoRestore, Gates
<1>2. Preparing /\ [RestoreNext]_restoreVars => Preparing'
  <2>1. Preparing /\ RestoreNext => Preparing'
    BY SourcesPrepare, ExecutionPrepared, DockerPrepared, LaterPrepared, NewPrepared, OthersPrepared
    DEF RestoreNext, RestoreStep, environmentRestoreDocker
  <2>2. Preparing /\ UNCHANGED restoreVars => Preparing'
    BY DEF restoreVars, hostVars, Preparing, Consent, SourcesSoFar, DockerStartsPrepared,
       GatesPassed, PreflightOK, InPlace, Shared, Cloned
  <2> QED
    BY <2>1, <2>2
<1>3. Preparing => DockerStartsPrepared
  BY DEF Preparing
<1> QED
  BY <1>1, <1>2, <1>3, PTL DEF RestoreSpec

-----------------------------------------------------------------------------
(* The list of health checks.                                              *)

LEMMA PickedIsList ==
    ASSUME NEW T, NEW list \in Seq(T), NEW places \in SUBSET DOMAIN list
    PROVE  Picked(list, places) \in Seq(T)
<1> DEFINE Place(n) == CHOOSE i \in places : Cardinality({j \in places : j < i}) = n - 1
<1>1. places \in SUBSET Nat /\ IsFiniteSet(places)
  <2>1. DOMAIN list = 1 .. Len(list) /\ Len(list) \in Nat
    OBVIOUS
  <2>2. IsFiniteSet(1 .. Len(list))
    BY <2>1, FS_Interval
  <2> QED
    BY <2>1, <2>2, FS_Subset
<1>2. /\ Cardinality(places) \in Nat
      /\ \A n \in 1 .. Cardinality(places) :
            \E i \in places : Cardinality({j \in places : j < i}) = n - 1
  BY <1>1, RanksOfNumbers
<1>3. \A n \in 1 .. Cardinality(places) : Place(n) \in places
  BY <1>2
<1>5. Picked(list, places) = [n \in 1 .. Cardinality(places) |-> list[Place(n)]]
  BY DEF Picked
<1> HIDE DEF Place
<1>4. \A n \in 1 .. Cardinality(places) : list[Place(n)] \in T
  BY <1>3
<1> QED
  BY <1>2, <1>4, <1>5

LEMMA SetToSeqLists ==
    ASSUME NEW S, IsFiniteSet(S)
    PROVE  /\ SetToSeq(S) \in Seq(S)
           /\ \A x \in S : \E i \in DOMAIN SetToSeq(S) : SetToSeq(S)[i] = x
<1>1. Cardinality(S) \in Nat
  BY FS_CardinalityType
<1>2. ExistsBijection(1 .. Cardinality(S), S)
  BY FS_CardinalityType
<1>3. PICK g \in [1 .. Cardinality(S) -> S] : IsInjective(g)
  BY <1>2 DEF ExistsBijection, Bijection, Injection, IsInjective
<1>4. SetToSeq(S) \in [1 .. Cardinality(S) -> S] /\ IsInjective(SetToSeq(S))
  BY <1>3 DEF SetToSeq
<1>5. SetToSeq(S) \in Injection(1 .. Cardinality(S), S)
  BY <1>4 DEF Injection, IsInjective
<1>6. IsFiniteSet(1 .. Cardinality(S)) /\ Cardinality(1 .. Cardinality(S)) = Cardinality(S)
  BY <1>1, FS_Interval
<1>7. SetToSeq(S) \in Surjection(1 .. Cardinality(S), S)
  BY <1>5, <1>6, FS_Injection
<1>8. \A x \in S : \E i \in 1 .. Cardinality(S) : SetToSeq(S)[i] = x
  BY <1>7 DEF Surjection
<1> HIDE DEF SetToSeq
<1>9. SetToSeq(S) \in Seq(S) /\ DOMAIN SetToSeq(S) = 1 .. Cardinality(S)
  BY <1>1, <1>4
<1> QED
  BY <1>8, <1>9

\* The checks are a list; the services of the allow-list are each named by one that is not
\* of an unsupported kind.
LEMMA ChecksAreList ==
    ASSUME env \in Environments
    PROVE  /\ environmentRestoreEffectiveHealthChecks \in Seq(Checks)
           /\ \A s \in env.selected : \E i \in DOMAIN environmentRestoreEffectiveHealthChecks :
                 /\ environmentRestoreEffectiveHealthChecks[i].service = s
                 /\ environmentRestoreEffectiveHealthChecks[i].form # "unsupported"
<1> DEFINE started == {i \in DOMAIN env.gates : env.selected = {} \/ env.gates[i] \in env.selected}
           gates == Picked(env.gates, started)
           probes == [i \in DOMAIN gates |-> Probe(gates[i])]
<1>1. /\ env.gates \in Seq(Services) /\ env.checks \in Seq(Checks) /\ env.selected \subseteq Services
      /\ IsFiniteSet(Services)
  BY RestoreConstants
<1>2. \A s \in Services : Probe(s) \in Checks /\ Probe(s).service = s /\ Probe(s).form = "probe"
  BY DEF Probe, Checks
<1>3. gates \in Seq(Services)
  <2>1. started \in SUBSET DOMAIN env.gates
    OBVIOUS
  <2> HIDE DEF started
  <2> QED
    BY <1>1, <2>1, PickedIsList
<1>4. RecordedHealthChecks = env.checks \o probes
  BY DEF RecordedHealthChecks
<1> HIDE DEF gates
<1>5. probes \in Seq(Checks)
  BY <1>2, <1>3
<1> HIDE DEF probes
<1>6. RecordedHealthChecks \in Seq(Checks)
  BY <1>1, <1>4, <1>5
<1> DEFINE named == RecordedHealthChecks
           covered == {named[i].service : i \in {j \in DOMAIN named : named[j].form # "unsupported"}}
           defaults == SetToSeq(env.selected \ covered)
           extra == [i \in DOMAIN defaults |-> Probe(defaults[i])]
<1>7. environmentRestoreEffectiveHealthChecks = named \o extra
  BY DEF environmentRestoreEffectiveHealthChecks
<1>8. IsFiniteSet(env.selected \ covered) /\ env.selected \ covered \subseteq Services
  <2>1. env.selected \ covered \subseteq Services
    BY <1>1
  <2> HIDE DEF covered
  <2> QED
    BY <1>1, <2>1, FS_Subset
<1>9. /\ defaults \in Seq(Services)
      /\ \A x \in env.selected \ covered : \E i \in DOMAIN defaults : defaults[i] = x
  <2> HIDE DEF covered
  <2>1. /\ defaults \in Seq(env.selected \ covered)
        /\ \A x \in env.selected \ covered : \E i \in DOMAIN defaults : defaults[i] = x
    BY <1>8, SetToSeqLists
  <2> HIDE DEF defaults
  <2>2. defaults \in Seq(Services)
    BY <1>8, <2>1
  <2> QED
    BY <2>1, <2>2
<1>10. extra \in Seq(Checks) /\ DOMAIN extra = DOMAIN defaults
  <2> HIDE DEF defaults
  <2> QED
    BY <1>2, <1>9
<1>11. named \in Seq(Checks)
  BY <1>6
<1>12. ASSUME NEW s \in env.selected
       PROVE  \E i \in DOMAIN (named \o extra) :
                 (named \o extra)[i].service = s /\ (named \o extra)[i].form # "unsupported"
  <2>1. CASE s \in covered
    <3>1. PICK i \in DOMAIN named : named[i].service = s /\ named[i].form # "unsupported"
      BY <2>1
    <3> HIDE DEF named, extra
    <3>2. i \in DOMAIN (named \o extra) /\ (named \o extra)[i] = named[i]
      BY <1>10, <1>11, <3>1
    <3> QED
      BY <3>1, <3>2
  <2>2. CASE s \notin covered
    <3>1. PICK i \in DOMAIN defaults : defaults[i] = s
      BY <1>9, <2>2
    <3>2. i \in DOMAIN extra /\ extra[i] = Probe(s)
      BY <3>1
    <3>3. Probe(s).service = s /\ Probe(s).form = "probe"
      BY <1>1, <1>2
    <3> HIDE DEF named, extra
    <3>4. Len(named) + i \in DOMAIN (named \o extra) /\ (named \o extra)[Len(named) + i] = extra[i]
      BY <1>10, <1>11, <3>2
    <3> QED
      BY <3>2, <3>3, <3>4
  <2> QED
    BY <2>1, <2>2
<1> HIDE DEF named, extra
<1>13. named \o extra \in Seq(Checks)
  BY <1>10, <1>11
<1> QED
  BY <1>7, <1>12, <1>13

LEMMA ChecksStay ==
    ASSUME env' = env
    PROVE  environmentRestoreEffectiveHealthChecks' = environmentRestoreEffectiveHealthChecks
BY DEF environmentRestoreEffectiveHealthChecks, RecordedHealthChecks

-----------------------------------------------------------------------------
(* What a restore that ends ok has done.                                   *)

\* The checks before the n-th are answered, as far as they can be probed.
AnsweredBefore(n) ==
    \A i \in DOMAIN environmentRestoreEffectiveHealthChecks : i < n => Answered(i)

\* The last command starts the containers.
StartsAtLast(plan) ==
    /\ Len(plan) \in Nat \ {0}
    /\ plan[Len(plan)] \in {"up", "start"}

Full == run.options.execute /\ ~run.options.prepare

\* What the edges name is applied, or the graph has no config assets.
EdgesApplied == env.assets = {} \/ DOMAIN env.edges \subseteq run.applied

Restored ==
    /\ run.started \/ run.options.adopt
    /\ EdgesApplied
    /\ \A i \in DOMAIN environmentRestoreEffectiveHealthChecks : Answered(i)

\* What is behind a restore that is at pc and still ok.
Done ==
    /\ DOMAIN run = DOMAIN NoRestore
    /\ env \in Environments
    /\ run.next \in Nat \ {0}
    /\ run.ok \in BOOLEAN /\ run.docker \in BOOLEAN
    /\ run.pc = "sources" => run.docker
    /\ run.pc \in TouchesDocker \cup {"edges"} => run.ok /\ run.docker
    /\ run.pc \in TouchesDocker => StartsAtLast(run.commands)
    /\ run.pc \in {"backup", "down"} => run.next = 1
    /\ run.pc = "commands" => run.next <= Len(run.commands)
    /\ run.pc \in {"edges", "health"} => run.started \/ run.options.adopt
    /\ run.pc = "health" =>
          EdgesApplied /\ run.ok = run.docker /\ (run.docker => AnsweredBefore(run.next))
    /\ run.pc = "workflow" => run.ok = run.docker
    /\ run.pc = "persist" => (run.ok <=> run.docker /\ run.workflow # "failed")
    /\ run.pc \in {"workflow", "persist", "end"} /\ run.ok /\ Full => Restored
    /\ run.pc \in {"persist", "end"} /\ run.ok /\ run.options.workflow => run.workflow = "passed"
    /\ run.pc \in {"sources", "workflow"} \cup TouchesDocker \cup {"edges", "health"} =>
          run.workflow = "not-requested"
    /\ lastRestore.ok <=> lastRestore.phase = "completed"

Report == {"pc", "options", "next", "commands", "ok", "tooling", "conflicts", "assets", "policy",
           "package", "repos", "docker", "planned", "backedUp", "started", "applied", "late",
           "unhealthy", "answered", "workflow", "again"}

LEMMA ReportFields == DOMAIN NoRestore = Report
BY DEF NoRestore, Report

\* A step to a point where nothing has been done yet, or of a report that is not ok.
LEMMA NothingDone ==
    ASSUME Done, UNCHANGED <<env, lastRestore>>, DOMAIN run' = Report,
           run'.pc \in {"idle", "sources"}, run'.next \in Nat \ {0},
           run'.ok \in BOOLEAN, run'.docker = TRUE, run'.workflow = "not-requested"
    PROVE  Done'
BY ReportFields DEF Done, TouchesDocker, Full

LEMMA DoneWithoutDocker ==
    ASSUME Done, NEW ok \in BOOLEAN, DockerEnds(ok),
           ok => ~Full \/ Restored,
           ok => run.ok, run.workflow = "not-requested", UNCHANGED <<env, lastRestore>>
    PROVE  Done'
<1>1. /\ DOMAIN run' = Report /\ run'.pc = "workflow" /\ run'.next = run.next
      /\ run'.docker = ok /\ run'.ok = (run.ok /\ ok) /\ run'.workflow = run.workflow
      /\ run'.options = run.options /\ run'.started = run.started /\ run'.applied = run.applied
      /\ run'.answered = run.answered
  BY ReportFields DEF Done, DockerEnds, Report
<1>2. run'.ok = ok
  BY <1>1 DEF Done
<1>3. ok /\ Full' => Restored'
  <2>1. environmentRestoreEffectiveHealthChecks' = environmentRestoreEffectiveHealthChecks
    BY ChecksStay
  <2>2. Full' <=> Full
    BY <1>1 DEF Full
  <2>3. Restored => Restored'
    BY <1>1, <2>1 DEF Restored, EdgesApplied, Answered
  <2> QED
    BY <2>2, <2>3
<1> QED
  BY <1>1, <1>2, <1>3, ReportFields DEF Done, TouchesDocker

LEMMA FailedDocker ==
    ASSUME Done, DockerEnds(FALSE), run.workflow = "not-requested", UNCHANGED <<env, lastRestore>>
    PROVE  Done'
<1>1. /\ DOMAIN run' = Report /\ run'.pc = "workflow" /\ run'.next = run.next
      /\ run'.docker = FALSE /\ run'.ok = FALSE /\ run'.workflow = run.workflow
  BY ReportFields DEF Done, DockerEnds, Report
<1> QED
  BY <1>1, ReportFields DEF Done, TouchesDocker

LEMMA SourcesDo ==
    ASSUME Done, environmentRestoreAddSourceReports
    PROVE  Done'
<1> DEFINE s == env.sources[run.next]
<1>1. PICK outcome \in SourceOutcomes(s, checkouts[s.path]) :
          run' = [run EXCEPT !.next = @ + 1, !.ok = @ /\ outcome.ok,
                        !.package = IF s.kind = "package" THEN outcome.ok ELSE @,
                        !.repos = IF s.kind = "repo" THEN @ /\ outcome.ok ELSE @]
  BY DEF environmentRestoreAddSourceReports
<1>2. /\ UNCHANGED <<env, lastRestore>> /\ run.pc = "sources" /\ run.docker = TRUE
      /\ run.workflow = "not-requested" /\ run.next \in Nat \ {0} /\ run.ok \in BOOLEAN
  BY DEF environmentRestoreAddSourceReports, At, Done
<1>3. /\ DOMAIN run' = Report /\ run'.pc = run.pc /\ run'.next = run.next + 1
      /\ run'.docker = run.docker /\ run'.ok = (run.ok /\ outcome.ok)
      /\ run'.workflow = run.workflow
  BY <1>1, ReportFields DEF Done, Report
<1> QED
  <2>1. run'.next \in Nat \ {0} /\ run'.ok \in BOOLEAN
    BY <1>2, <1>3
  <2> QED
    BY <1>2, <1>3, <2>1, NothingDone

LEMMA LastOfConcatenation ==
    ASSUME NEW T, NEW list \in Seq(T), NEW x \in T
    PROVE  /\ Len(list \o <<x>>) = Len(list) + 1 /\ Len(list) \in Nat
           /\ (list \o <<x>>)[Len(list) + 1] = x
OBVIOUS

\* The plan ends with the command that starts the containers.
LEMMA PlanStarts ==
    StartsAtLast(environmentRestoreDockerPlan)
<1> DEFINE services == environmentRestoreComposeCommandServices
           When(name) == IF name \in env.skips \/ services[name] = {} THEN << >> ELSE <<name>>
<1>1. CASE env.compose = "none"
  <2>1. environmentRestoreDockerPlan = <<"start">>
    BY <1>1 DEF environmentRestoreDockerPlan
  <2> QED
    BY <2>1 DEF StartsAtLast
<1>2. CASE env.compose # "none"
  <2>1. environmentRestoreDockerPlan = When("pull") \o When("build") \o <<"up">>
    BY <1>2 DEF environmentRestoreDockerPlan, environmentRestorePlanComposeCommands
  <2>0. PICK T : T = {"pull", "build", "up"}
    OBVIOUS
  <2>2. \A name \in T : When(name) \in Seq(T)
    OBVIOUS
  <2> HIDE DEF When
  <2>3. PICK first : first = When("pull") \o When("build")
    OBVIOUS
  <2>4. first \in Seq(T)
    BY <2>0, <2>2, <2>3
  <2>5. environmentRestoreDockerPlan = first \o <<"up">>
    BY <2>1, <2>3
  <2>6. "up" \in T
    BY <2>0
  <2>7. /\ Len(first \o <<"up">>) = Len(first) + 1 /\ Len(first) \in Nat
        /\ (first \o <<"up">>)[Len(first) + 1] = "up"
    BY <2>4, <2>6, LastOfConcatenation
  <2> QED
    BY <2>5, <2>7 DEF StartsAtLast
<1> QED
  BY <1>1, <1>2

LEMMA PlansDo ==
    ASSUME Done,
           \/ environmentRestoreSkippedDockerReport \/ environmentRestorePrepareReposOnlyDockerReport
           \/ environmentRestoreUseExistingContainers \/ environmentRestoreDockerStops
    PROVE  Done'
<1>1. /\ UNCHANGED <<env, lastRestore>> /\ run.pc = "sources" /\ run.workflow = "not-requested"
      /\ run.ok \in BOOLEAN /\ run.docker = TRUE
  BY DEF environmentRestoreSkippedDockerReport, environmentRestorePrepareReposOnlyDockerReport,
     environmentRestoreUseExistingContainers, environmentRestoreDockerStops, SourcesDone, At, Done
<1> USE DEF TouchesDocker
<1>2. CASE environmentRestoreSkippedDockerReport
  <2>1. ~run.ok /\ DockerEnds(FALSE)
    BY <1>2 DEF environmentRestoreSkippedDockerReport
  <2> QED
    BY <1>1, <2>1, FailedDocker
<1>3. CASE environmentRestorePrepareReposOnlyDockerReport
  <2>1. PICK ok \in BOOLEAN : ok = ~env.outside
    OBVIOUS
  <2>2. run.ok /\ ~Full /\ DockerEnds(ok)
    BY <1>3, <2>1 DEF environmentRestorePrepareReposOnlyDockerReport, Full
  <2> QED
    BY <1>1, <2>2, DoneWithoutDocker
<1>4. CASE environmentRestoreUseExistingContainers
  <2>1. CASE env.outside \/ ~run.options.execute
    <3>1. PICK ok \in BOOLEAN : ok = ~env.outside
      OBVIOUS
    <3>2. run.ok /\ DockerEnds(ok) /\ (ok => ~Full)
      BY <1>4, <2>1, <3>1 DEF environmentRestoreUseExistingContainers, Full
    <3>3. CASE ok
      BY <1>1, <3>2, <3>3, DoneWithoutDocker
    <3>4. CASE ~ok
      BY <1>1, <3>2, <3>4, FailedDocker
    <3> QED
      BY <3>3, <3>4
  <2>2. CASE ~(env.outside \/ ~run.options.execute)
    <3>1. run' = [run EXCEPT !.pc = "edges", !.next = 1] /\ run.ok /\ run.options.adopt
      BY <1>4, <2>2 DEF environmentRestoreUseExistingContainers
    <3>2. /\ DOMAIN run' = Report /\ run'.pc = "edges" /\ run'.next = 1
          /\ run'.docker = run.docker /\ run'.ok = run.ok /\ run'.workflow = run.workflow
          /\ run'.options = run.options
      BY <3>1, ReportFields DEF Done, Report
    <3>3. run'.next \in Nat \ {0}
      BY <3>2
    <3> QED
      BY <1>1, <3>1, <3>2, <3>3, ReportFields DEF Done, TouchesDocker
  <2> QED
    BY <2>1, <2>2
<1>5. CASE environmentRestoreDockerStops
  <2>1. PICK ok \in BOOLEAN : ok = (HasDockerPlan /\ ~env.outside)
    OBVIOUS
  <2>2. PICK planned : planned = (env.compose # "none" /\ run.options.cleanup)
    OBVIOUS
  <2>3. run' = [run EXCEPT !.pc = "workflow", !.docker = ok, !.ok = ok, !.planned = planned]
    BY <1>5, <2>1, <2>2 DEF environmentRestoreDockerStops
  <2>4. ok => ~run.options.execute
    BY <1>5, <2>1 DEF environmentRestoreDockerStops
  <2>5. /\ DOMAIN run' = Report /\ run'.pc = "workflow" /\ run'.next = run.next
        /\ run'.docker = ok /\ run'.ok = ok /\ run'.workflow = run.workflow
        /\ run'.options = run.options
    BY <2>3, ReportFields DEF Done, Report
  <2> QED
    BY <1>1, <2>4, <2>5, ReportFields DEF Done, TouchesDocker, Full
<1> QED
  BY <1>2, <1>3, <1>4, <1>5

LEMMA ExecutionDo ==
    ASSUME Done, environmentRestorePrepareDockerExecution
    PROVE  Done'
<1>1. /\ UNCHANGED <<env, lastRestore>> /\ run.pc = "sources" /\ run.workflow = "not-requested"
      /\ run.ok /\ run.docker
  BY DEF environmentRestorePrepareDockerExecution, SourcesDone, At, Done
<1>2. PICK plan, cleanup : plan = environmentRestoreDockerPlan /\ cleanup = run.options.cleanup
  OBVIOUS
<1>3. PICK planned : planned = [run EXCEPT !.next = 1, !.planned = cleanup, !.commands = plan]
  OBVIOUS
<1>4. PICK pc : pc = IF cleanup THEN "backup" ELSE "commands"
  OBVIOUS
<1>5. \/ run' = [planned EXCEPT !.pc = "workflow", !.docker = FALSE, !.ok = FALSE]
      \/ run' = [planned EXCEPT !.pc = pc]
  BY <1>2, <1>3, <1>4 DEF environmentRestorePrepareDockerExecution
<1>6. /\ DOMAIN planned = Report /\ planned.next = 1 /\ planned.commands = plan
      /\ planned.ok = run.ok /\ planned.docker = run.docker /\ planned.workflow = run.workflow
      /\ planned.options = run.options
  BY <1>3, ReportFields DEF Done, Report
<1>7. CASE run' = [planned EXCEPT !.pc = "workflow", !.docker = FALSE, !.ok = FALSE]
  <2>1. /\ DOMAIN run' = Report /\ run'.pc = "workflow" /\ run'.next = 1
        /\ run'.docker = FALSE /\ run'.ok = FALSE /\ run'.workflow = run.workflow
    BY <1>6, <1>7 DEF Report
  <2>2. run'.next \in Nat \ {0}
    BY <2>1
  <2> QED
    BY <1>1, <2>1, <2>2, ReportFields DEF Done, TouchesDocker
<1>8. CASE run' = [planned EXCEPT !.pc = pc]
  <2>1. /\ DOMAIN run' = Report /\ run'.pc = pc /\ run'.next = 1 /\ run'.commands = plan
        /\ run'.docker = run.docker /\ run'.ok = run.ok /\ run'.workflow = run.workflow
    BY <1>6, <1>8 DEF Report
  <2>2. pc \in {"backup", "commands"} /\ StartsAtLast(plan) /\ 1 <= Len(plan)
    BY <1>2, <1>4, PlanStarts DEF StartsAtLast
  <2>3. StartsAtLast(run'.commands) /\ 1 <= Len(run'.commands)
    BY <2>1, <2>2
  <2> QED
    BY <1>1, <2>1, <2>2, <2>3, ReportFields DEF Done, TouchesDocker
<1> QED
  BY <1>5, <1>7, <1>8

LEMMA CleanupDo ==
    ASSUME Done, environmentRestoreRunCleanup
    PROVE  Done'
<1>1. /\ UNCHANGED <<env, lastRestore>> /\ run.pc \in {"backup", "down"}
      /\ run.workflow = "not-requested" /\ run.ok /\ run.docker /\ run.next = 1
      /\ StartsAtLast(run.commands) /\ 1 <= Len(run.commands)
  <2>1. UNCHANGED <<env, lastRestore>> /\ run.pc \in {"backup", "down"}
    BY DEF environmentRestoreRunCleanup, At
  <2>2. /\ run.workflow = "not-requested" /\ run.ok /\ run.docker /\ run.next = 1
        /\ StartsAtLast(run.commands)
    BY <2>1 DEF Done, TouchesDocker
  <2> QED
    BY <2>1, <2>2 DEF StartsAtLast
<1>2. CASE DockerEnds(FALSE)
  BY <1>1, <1>2, FailedDocker
<1>3. ASSUME \/ run' = [run EXCEPT !.pc = "down", !.backedUp = TRUE]
             \/ run' = [run EXCEPT !.pc = "commands"]
      PROVE  Done'
  <2>1. /\ DOMAIN run' = Report /\ run'.pc \in {"down", "commands"} /\ run'.next = 1
        /\ run'.commands = run.commands
        /\ run'.docker = run.docker /\ run'.ok = run.ok /\ run'.workflow = run.workflow
    BY <1>1, <1>3, ReportFields DEF Done, Report
  <2> QED
    BY <1>1, <2>1, ReportFields DEF Done, TouchesDocker
<1> QED
  BY <1>2, <1>3 DEF environmentRestoreRunCleanup

LEMMA CommandsDo ==
    ASSUME Done, environmentRestoreRunCommands
    PROVE  Done'
<1>1. /\ UNCHANGED <<env, lastRestore>> /\ run.pc = "commands"
      /\ run.workflow = "not-requested" /\ run.ok /\ run.docker
      /\ StartsAtLast(run.commands) /\ run.next <= Len(run.commands) /\ run.next \in Nat \ {0}
  BY DEF environmentRestoreRunCommands, At, Done, TouchesDocker
<1>2. CASE DockerEnds(FALSE)
  BY <1>1, <1>2, FailedDocker
<1>3. PICK pc, next, started :
        /\ next = (IF run.next = Len(run.commands) THEN 1 ELSE run.next + 1)
        /\ pc = (IF run.next = Len(run.commands) THEN "edges" ELSE "commands")
        /\ started = (run.started \/ run.commands[run.next] \in {"up", "start"})
  OBVIOUS
<1>5. CASE run' = [run EXCEPT !.started = started, !.next = next, !.pc = pc]
  <2>1. /\ DOMAIN run' = Report /\ run'.pc = pc /\ run'.next = next /\ run'.started = started
        /\ run'.commands = run.commands /\ run'.options = run.options
        /\ run'.docker = run.docker /\ run'.ok = run.ok /\ run'.workflow = run.workflow
    BY <1>5, ReportFields DEF Done, Report
  <2>2. CASE run.next = Len(run.commands)
    <3>1. pc = "edges" /\ next = 1 /\ started
      BY <1>1, <1>3, <2>2 DEF StartsAtLast
    <3> QED
      BY <1>1, <2>1, <3>1, ReportFields DEF Done, TouchesDocker
  <2>3. CASE run.next # Len(run.commands)
    <3>1. pc = "commands" /\ next \in Nat \ {0} /\ next <= Len(run.commands)
      BY <1>1, <1>3, <2>3 DEF StartsAtLast
    <3> QED
      BY <1>1, <2>1, <3>1, ReportFields DEF Done, TouchesDocker
  <2> QED
    BY <2>2, <2>3
<1> QED
  BY <1>2, <1>3, <1>5 DEF environmentRestoreRunCommands

LEMMA EdgesDo ==
    ASSUME Done, environmentRestoreApplyEdgeAssets
    PROVE  Done'
<1>1. /\ UNCHANGED <<env, lastRestore>> /\ run.pc = "edges"
      /\ run.workflow = "not-requested" /\ run.ok = TRUE /\ run.docker = TRUE
      /\ run.started \/ run.options.adopt
      /\ run.next \in Nat \ {0}
  BY DEF ApplyNext, environmentRestoreApplyEdgeAssets, At, Done, TouchesDocker
<1>2. CASE run.next <= Len(EdgeAssets)
  <2>1. PICK applied : run' = [run EXCEPT !.next = @ + 1, !.applied = applied]
    BY <1>2 DEF ApplyNext, environmentRestoreApplyEdgeAssets
  <2>2. /\ DOMAIN run' = Report /\ run'.pc = "edges" /\ run'.next = run.next + 1
        /\ run'.started = run.started /\ run'.options = run.options
        /\ run'.docker = run.docker /\ run'.ok = run.ok /\ run'.workflow = run.workflow
    BY <1>1, <2>1, ReportFields DEF Done, Report
  <2>3. run'.next \in Nat \ {0}
    BY <1>1, <2>2
  <2> QED
    BY <1>1, <2>2, <2>3, ReportFields DEF Done, TouchesDocker
<1>3. CASE ~(run.next <= Len(EdgeAssets)) /\ DOMAIN EdgeAssets \subseteq run.applied
  <2>1. run' = [run EXCEPT !.pc = "health", !.next = 1]
    BY <1>3 DEF ApplyNext, environmentRestoreApplyEdgeAssets
  <2>2. /\ DOMAIN run' = Report /\ run'.pc = "health" /\ run'.next = 1
        /\ run'.started = run.started /\ run'.options = run.options /\ run'.applied = run.applied
        /\ run'.docker = run.docker /\ run'.ok = run.ok /\ run'.workflow = run.workflow
    BY <1>1, <2>1, ReportFields DEF Done, Report
  <2>3. run'.next \in Nat \ {0}
    BY <2>2
  <2>4. AnsweredBefore(run.next)'
    <3>1. environmentRestoreEffectiveHealthChecks \in Seq(Checks)
      BY ChecksAreList DEF Done
    <3>2. \A i \in DOMAIN environmentRestoreEffectiveHealthChecks : ~(i < 1)
      BY <3>1
    <3> QED
      BY <1>1, <2>2, <3>2, ChecksStay DEF AnsweredBefore
  <2>5. EdgesApplied'
    BY <1>1, <1>3, <2>2 DEF EdgesApplied, EdgeAssets
  <2> QED
    BY <1>1, <1>3, <2>2, <2>3, <2>4, <2>5, ReportFields DEF Done, TouchesDocker
<1>4. CASE ~(run.next <= Len(EdgeAssets)) /\ ~(DOMAIN EdgeAssets \subseteq run.applied)
  <2>1. DockerEnds(FALSE)
    BY <1>4 DEF ApplyNext, environmentRestoreApplyEdgeAssets
  <2> QED
    BY <1>1, <2>1, FailedDocker
<1> QED
  BY <1>2, <1>3, <1>4

\* The next check is answered, or it cannot be probed, or Docker has failed.
LEMMA AnsweredNext ==
    ASSUME Done, env' = env, NEW n \in Nat,
           AnsweredBefore(n), run.answered \subseteq run'.answered,
           n \in DOMAIN environmentRestoreEffectiveHealthChecks =>
              \/ environmentRestoreEffectiveHealthChecks[n].form # "probe"
              \/ n \in run'.answered,
           NEW m, m = n + 1, run'.next = m
    PROVE  AnsweredBefore(run.next)'
<1>1. environmentRestoreEffectiveHealthChecks \in Seq(Checks)
  BY ChecksAreList DEF Done
<1>2. \A i \in DOMAIN environmentRestoreEffectiveHealthChecks : i < m => i < n \/ i = n
  BY <1>1
<1> QED
  BY <1>2, ChecksStay DEF AnsweredBefore, Answered

LEMMA HealthDo ==
    ASSUME Done, waitEnvironmentRestoreHealthChecks
    PROVE  Done'
<1>1. /\ UNCHANGED <<env, lastRestore>> /\ run.pc = "health"
      /\ run.workflow = "not-requested" /\ run.ok = run.docker /\ run.docker \in BOOLEAN
      /\ run.started \/ run.options.adopt
      /\ run.next \in Nat \ {0} /\ EdgesApplied
      /\ run.docker => AnsweredBefore(run.next)
  BY DEF waitEnvironmentRestoreHealthChecks, At, Done
<1>2. PICK checks \in Seq(Checks) : checks = environmentRestoreEffectiveHealthChecks
  BY ChecksAreList DEF Done
<1>3. CASE run.next > Len(checks)
  <2>1. DockerEnds(run.docker)
    BY <1>2, <1>3 DEF waitEnvironmentRestoreHealthChecks
  <2>2. \A i \in DOMAIN checks : i < run.next
    BY <1>1, <1>3
  <2>3. run.docker => Restored
    BY <1>1, <1>2, <2>2 DEF Restored, EdgesApplied, AnsweredBefore
  <2>4. CASE run.docker
    BY <1>1, <2>1, <2>3, <2>4, DoneWithoutDocker
  <2>5. CASE ~run.docker
    <3>1. DockerEnds(FALSE)
      BY <1>1, <2>1, <2>5
    <3> QED
      BY <1>1, <3>1, FailedDocker
  <2> QED
    BY <2>4, <2>5
<1>4. CASE ~(run.next > Len(checks))
  <2>1. PICK n : n = run.next
    OBVIOUS
  <2>2. PICK next : next = [run EXCEPT !.next = n + 1]
    OBVIOUS
  <2>3. PICK failed : failed = [next EXCEPT !.docker = FALSE, !.ok = FALSE, !.unhealthy = TRUE]
    OBVIOUS
  <2>4. \/ run' = [next EXCEPT !.answered = run.answered \cup {n}]
        \/ checks[n].form \in {"typed", "blank"} /\ run' = next
        \/ run' = failed
        \/ run' = [failed EXCEPT !.late = TRUE]
    BY <1>2, <1>4, <2>1, <2>2, <2>3, ReportFields DEF waitEnvironmentRestoreHealthChecks, Done, Report
  <2>5. /\ DOMAIN next = Report /\ next.pc = "health" /\ next.next = n + 1
        /\ next.started = run.started /\ next.options = run.options /\ next.applied = run.applied
        /\ next.docker = run.docker /\ next.ok = run.ok /\ next.workflow = run.workflow
        /\ next.answered = run.answered
    BY <1>1, <2>2, ReportFields DEF Done, Report
  <2>6. n + 1 \in Nat \ {0} /\ n \in Nat
    BY <1>1, <2>1
  <2>7. CASE run' = [next EXCEPT !.answered = run.answered \cup {n}]
    <3>1. /\ DOMAIN run' = Report /\ run'.pc = "health" /\ run'.next = n + 1
          /\ run'.started = run.started /\ run'.options = run.options /\ run'.applied = run.applied
          /\ run'.docker = run.docker /\ run'.ok = run.ok /\ run'.workflow = run.workflow
          /\ run'.answered = run.answered \cup {n}
      BY <2>5, <2>7 DEF Report
    <3>2. run.docker => AnsweredBefore(run.next)'
      BY <1>1, <1>2, <2>1, <2>6, <3>1, AnsweredNext
    <3> QED
      BY <1>1, <2>6, <3>1, <3>2, ReportFields DEF Done, EdgesApplied, TouchesDocker
  <2>8. CASE checks[n].form \in {"typed", "blank"} /\ run' = next
    <3>1. run.docker => AnsweredBefore(run.next)'
      BY <1>1, <1>2, <2>1, <2>5, <2>6, <2>8, AnsweredNext
    <3> QED
      BY <1>1, <2>5, <2>6, <2>8, <3>1, ReportFields DEF Done, EdgesApplied, TouchesDocker
  <2>9. CASE run' = failed \/ run' = [failed EXCEPT !.late = TRUE]
    <3>1. /\ DOMAIN failed = Report /\ failed.pc = "health" /\ failed.next = n + 1
          /\ failed.started = run.started /\ failed.options = run.options /\ failed.applied = run.applied
          /\ failed.docker = FALSE /\ failed.ok = FALSE /\ failed.workflow = run.workflow
      BY <2>3, <2>5 DEF Report
    <3>2. /\ DOMAIN run' = Report /\ run'.pc = "health" /\ run'.next = n + 1
          /\ run'.started = run.started /\ run'.options = run.options /\ run'.applied = run.applied
          /\ run'.docker = FALSE /\ run'.ok = FALSE /\ run'.workflow = run.workflow
      BY <2>9, <3>1 DEF Report
    <3> QED
      BY <1>1, <2>6, <3>2, ReportFields DEF Done, EdgesApplied, TouchesDocker
  <2> QED
    BY <2>4, <2>7, <2>8, <2>9
<1> QED
  BY <1>3, <1>4

LEMMA WorkflowDo ==
    ASSUME Done, environmentRestoreMaybeRunWorkflow
    PROVE  Done'
<1>1. /\ UNCHANGED <<env, lastRestore>> /\ run.pc = "workflow"
      /\ run.workflow = "not-requested" /\ run.ok = run.docker /\ run.docker \in BOOLEAN
      /\ run.next \in Nat \ {0} /\ (run.ok /\ Full => Restored)
  BY DEF environmentRestoreMaybeRunWorkflow, At, Done
<1>2. PICK ok \in BOOLEAN : \E workflow :
         /\ \/ run' = [run EXCEPT !.pc = "persist", !.ok = ok, !.workflow = workflow]
            \/ run' = [run EXCEPT !.pc = "persist"] /\ ok = run.ok /\ workflow = run.workflow
         /\ ok => run.ok
         /\ ok <=> run.docker /\ workflow # "failed"
         /\ ok /\ run.options.workflow => workflow = "passed"
  <2>1. CASE run.ok /\ run.options.workflow
    <3>1. PICK ok \in BOOLEAN : run' = [run EXCEPT !.pc = "persist", !.ok = ok,
                                        !.workflow = IF ok THEN "passed" ELSE "failed"]
      BY <2>1 DEF environmentRestoreMaybeRunWorkflow, environmentRestoreRunWorkflow
    <3>2. CASE ok
      BY <1>1, <2>1, <3>1, <3>2
    <3>3. CASE ~ok
      BY <1>1, <2>1, <3>1, <3>3
    <3> QED
      BY <3>2, <3>3
  <2>2. CASE ~(run.ok /\ run.options.workflow)
    BY <1>1, <2>2 DEF environmentRestoreMaybeRunWorkflow
  <2> QED
    BY <2>1, <2>2
<1>2a. PICK workflow :
         /\ \/ run' = [run EXCEPT !.pc = "persist", !.ok = ok, !.workflow = workflow]
            \/ run' = [run EXCEPT !.pc = "persist"] /\ ok = run.ok /\ workflow = run.workflow
         /\ ok => run.ok
         /\ ok <=> run.docker /\ workflow # "failed"
         /\ ok /\ run.options.workflow => workflow = "passed"
  BY <1>2
<1>3. /\ DOMAIN run' = Report /\ run'.pc = "persist" /\ run'.next = run.next
      /\ run'.started = run.started /\ run'.options = run.options /\ run'.applied = run.applied
      /\ run'.docker = run.docker /\ run'.ok = ok /\ run'.workflow = workflow
      /\ run'.answered = run.answered
  <2>1. CASE run' = [run EXCEPT !.pc = "persist", !.ok = ok, !.workflow = workflow]
    BY <2>1, ReportFields DEF Done, Report
  <2>2. CASE run' = [run EXCEPT !.pc = "persist"] /\ ok = run.ok /\ workflow = run.workflow
    BY <2>2, ReportFields DEF Done, Report
  <2> QED
    BY <1>2a, <2>1, <2>2
<1>4. run'.ok /\ Full' => Restored'
  BY <1>1, <1>2a, <1>3, ChecksStay DEF Full, Restored, EdgesApplied, Answered
<1> QED
  BY <1>1, <1>2a, <1>3, <1>4, ReportFields DEF Done, TouchesDocker

\* The phase that is saved is "completed" exactly for an ok restore.
LEMMA PhaseIsTrue ==
    ASSUME NEW ok \in BOOLEAN, ok <=> run.ok /\ environmentRestoreReadinessReport,
           run.ok <=> run.docker /\ run.workflow # "failed"
    PROVE  ok <=> environmentRestorePhase(ok) = "completed"
<1>1. environmentRestoreReadinessReport => run.docker /\ run.workflow # "failed"
  BY DEF environmentRestoreReadinessReport
<1>2. ok <=> environmentRestoreReadinessReport
  BY <1>1
<1>3. CASE ok
  BY <1>3 DEF environmentRestorePhase
<1>4. CASE ~ok
  <2>1. environmentRestorePhase(ok) \in
           {"preflight", "package", "repository", "health-check", "docker", "readiness"}
    BY <1>2, <1>4 DEF environmentRestorePhase
  <2> QED
    BY <1>4, <2>1
<1> QED
  BY <1>3, <1>4

LEMMA PersistDo ==
    ASSUME Done, environmentRestoreMaybePersist
    PROVE  Done'
<1>1. /\ env' = env /\ run.pc = "persist" /\ run.next \in Nat \ {0}
      /\ run.ok <=> run.docker /\ run.workflow # "failed"
      /\ run.docker \in BOOLEAN
  BY DEF environmentRestoreMaybePersist, At, Done
<1>2. PICK good \in BOOLEAN : good <=> run.ok /\ environmentRestoreReadinessReport
  OBVIOUS
<1>3. PICK ok \in BOOLEAN : run' = [run EXCEPT !.pc = "end", !.ok = ok] /\ (ok => run.ok)
  BY DEF environmentRestoreMaybePersist
<1>4. /\ DOMAIN run' = Report /\ run'.pc = "end" /\ run'.next = run.next
      /\ run'.started = run.started /\ run'.options = run.options /\ run'.applied = run.applied
      /\ run'.docker = run.docker /\ run'.ok = ok /\ run'.workflow = run.workflow
      /\ run'.answered = run.answered
  BY <1>3, ReportFields DEF Done, Report
<1>5. run'.ok /\ Full' => Restored'
  BY <1>1, <1>3, <1>4, ChecksStay DEF Done, Full, Restored, EdgesApplied, Answered
<1>6. lastRestore'.ok <=> lastRestore'.phase = "completed"
  <2>1. CASE UNCHANGED lastRestore
    BY <2>1 DEF Done
  <2>2. CASE ~UNCHANGED lastRestore
    <3>1. PICK x : /\ x = (run.ok /\ environmentRestoreReadinessReport)
                   /\ lastRestore' = SavedAttempt(x)
      BY <2>2 DEF environmentRestoreMaybePersist
    <3>2. x \in BOOLEAN /\ (x <=> run.ok /\ environmentRestoreReadinessReport)
      BY <3>1
    <3>3. lastRestore'.ok = x /\ lastRestore'.phase = environmentRestorePhase(x)
      BY <3>1 DEF SavedAttempt
    <3> QED
      BY <1>1, <3>2, <3>3, PhaseIsTrue
  <2> QED
    BY <2>1, <2>2
<1> QED
  BY <1>1, <1>3, <1>4, <1>5, <1>6, ReportFields DEF Done, TouchesDocker

\* The steps between two restores, and what happens beside one.
LEMMA OthersDo ==
    ASSUME Done,
           \/ newEnvironmentRestoreReport \/ FinishRestore \/ KillRestore
           \/ OutsideEvent \/ ContainersAppear \/ UNCHANGED restoreVars
    PROVE  Done'
<1>1. CASE newEnvironmentRestoreReport
  <2>1. PICK o, new :
           /\ o \in Options
           /\ DOMAIN new = Report /\ new.pc = "sources" /\ new.next = 1 /\ new.docker = TRUE
           /\ new.workflow = "not-requested"
           /\ run' = [new EXCEPT !.ok = PreflightOK(new) /\ new.policy /\ env.graph # "bad"]
    <3>1. PICK o \in Options, seen \in BOOLEAN :
             run' = [[NoRestore EXCEPT
                            !.pc = "sources", !.options = o,
                            !.tooling = ToolsOK,
                            !.conflicts = seen /\ environmentRestoreCheckContainerConflicts(o),
                            !.assets = environmentRestoreCheckStartupAssets(o),
                            !.policy = environmentRestoreSourcePolicyReport,
                            !.again = proven]
                        EXCEPT !.ok = PreflightOK([NoRestore EXCEPT
                            !.pc = "sources", !.options = o,
                            !.tooling = ToolsOK,
                            !.conflicts = seen /\ environmentRestoreCheckContainerConflicts(o),
                            !.assets = environmentRestoreCheckStartupAssets(o),
                            !.policy = environmentRestoreSourcePolicyReport,
                            !.again = proven])
                          /\ [NoRestore EXCEPT
                            !.pc = "sources", !.options = o,
                            !.tooling = ToolsOK,
                            !.conflicts = seen /\ environmentRestoreCheckContainerConflicts(o),
                            !.assets = environmentRestoreCheckStartupAssets(o),
                            !.policy = environmentRestoreSourcePolicyReport,
                            !.again = proven].policy /\ env.graph # "bad"]
      BY <1>1 DEF newEnvironmentRestoreReport
    <3>2. PICK new : new = [NoRestore EXCEPT
                            !.pc = "sources", !.options = o,
                            !.tooling = ToolsOK,
                            !.conflicts = seen /\ environmentRestoreCheckContainerConflicts(o),
                            !.assets = environmentRestoreCheckStartupAssets(o),
                            !.policy = environmentRestoreSourcePolicyReport,
                            !.again = proven]
      OBVIOUS
    <3>3. /\ DOMAIN new = Report /\ new.pc = "sources" /\ new.next = 1 /\ new.docker = TRUE
          /\ new.workflow = "not-requested"
      BY <3>2 DEF NoRestore, Report
    <3> QED
      BY <3>1, <3>2, <3>3
  <2>2. PICK ok \in BOOLEAN : ok = (PreflightOK(new) /\ new.policy /\ env.graph # "bad")
    OBVIOUS
  <2>3. /\ DOMAIN run' = Report /\ run'.pc = "sources" /\ run'.next = 1 /\ run'.docker = TRUE
        /\ run'.workflow = "not-requested" /\ run'.ok = ok
    BY <2>1, <2>2 DEF Report
  <2>4. UNCHANGED <<env, lastRestore>>
    BY <1>1 DEF newEnvironmentRestoreReport
  <2>5. run'.next \in Nat \ {0} /\ run'.ok \in BOOLEAN
    BY <2>2, <2>3
  <2> QED
    BY <2>3, <2>4, <2>5, NothingDone
<1>2. CASE FinishRestore \/ KillRestore
  <2>1. run' = NoRestore /\ UNCHANGED <<env, lastRestore>>
    BY <1>2 DEF FinishRestore, KillRestore
  <2>2. /\ NoRestore.pc = "idle" /\ NoRestore.next = 1 /\ NoRestore.ok = TRUE
        /\ NoRestore.docker = TRUE /\ NoRestore.workflow = "not-requested"
    BY DEF NoRestore
  <2>3. run'.next \in Nat \ {0}
    BY <2>1, <2>2
  <2>4. run'.ok \in BOOLEAN
    BY <2>1, <2>2
  <2> QED
    BY <2>1, <2>2, <2>3, <2>4, NothingDone, ReportFields
<1>3. CASE OutsideEvent \/ ContainersAppear \/ UNCHANGED restoreVars
  <2>1. UNCHANGED <<env, run, lastRestore>>
    BY <1>3 DEF OutsideEvent, ContainersAppear, restoreVars
  <2>2. environmentRestoreEffectiveHealthChecks' = environmentRestoreEffectiveHealthChecks
    BY <2>1, ChecksStay
  <2> QED
    BY <2>1, <2>2 DEF Done, Full, Restored, EdgesApplied, AnsweredBefore, Answered
<1> QED
  BY <1>1, <1>2, <1>3

LEMMA DoneInit ==
    ASSUME RestoreInit
    PROVE  Done
<1>1. /\ NoRestore.pc = "idle" /\ NoRestore.next = 1 /\ NoRestore.ok = TRUE
      /\ NoRestore.docker = TRUE /\ NoRestore.workflow = "not-requested"
  BY DEF NoRestore
<1>2. run = NoRestore /\ env \in Environments /\ lastRestore = NoAttempt
  BY DEF RestoreInit
<1>3. run.next \in Nat \ {0}
  BY <1>1, <1>2
<1>4. lastRestore.ok <=> lastRestore.phase = "completed"
  BY <1>2 DEF NoAttempt
<1> QED
  BY <1>1, <1>2, <1>3, <1>4 DEF Done, TouchesDocker

LEMMA DoneStep ==
    ASSUME Done, [RestoreNext]_restoreVars
    PROVE  Done'
BY SourcesDo, PlansDo, ExecutionDo, CleanupDo, CommandsDo, EdgesDo, HealthDo, WorkflowDo, PersistDo,
   OthersDo
   DEF RestoreNext, RestoreStep, environmentRestoreDocker

\* What is applied is an asset that the graph has.
AppliedExist == \A i \in run.applied : env.edges[i] \in env.assets

\* All but the step that applies an asset leave what is applied, or begin a new report.
LEMMA AppliedStays ==
    ASSUME DOMAIN run = Report, [RestoreNext]_restoreVars, ~environmentRestoreApplyEdgeAssets
    PROVE  run'.applied \in {run.applied, {}}
<1>0. NoRestore.applied = {}
  BY DEF NoRestore
<1> USE DEF Report
<1>1. CASE newEnvironmentRestoreReport
  <2> DEFINE new(o, seen) == [NoRestore EXCEPT
                            !.pc = "sources", !.options = o,
                            !.tooling = ToolsOK,
                            !.conflicts = seen /\ environmentRestoreCheckContainerConflicts(o),
                            !.assets = environmentRestoreCheckStartupAssets(o),
                            !.policy = environmentRestoreSourcePolicyReport,
                            !.again = proven]
  <2>1. PICK o, seen :
           run' = [new(o, seen) EXCEPT !.ok = PreflightOK(new(o, seen)) /\ new(o, seen).policy
                                              /\ env.graph # "bad"]
    BY <1>1 DEF newEnvironmentRestoreReport
  <2>2. new(o, seen).applied = {} /\ DOMAIN new(o, seen) = Report
    BY <1>0, ReportFields
  <2> QED
    BY <2>1, <2>2
<1>2. CASE FinishRestore \/ KillRestore
  BY <1>0, <1>2 DEF FinishRestore, KillRestore
<1>3. ASSUME NEW ok, DockerEnds(ok) PROVE run'.applied = run.applied
  BY <1>3 DEF DockerEnds
<1>4. CASE environmentRestoreAddSourceReports
  BY <1>4 DEF environmentRestoreAddSourceReports
<1>5. CASE environmentRestoreSkippedDockerReport \/ environmentRestorePrepareReposOnlyDockerReport
  BY <1>3, <1>5 DEF environmentRestoreSkippedDockerReport,
     environmentRestorePrepareReposOnlyDockerReport
<1>6. CASE environmentRestoreUseExistingContainers
  BY <1>3, <1>6 DEF environmentRestoreUseExistingContainers
<1>7. CASE environmentRestoreDockerStops
  BY <1>7 DEF environmentRestoreDockerStops
<1>8. CASE environmentRestorePrepareDockerExecution
  BY <1>8 DEF environmentRestorePrepareDockerExecution
<1>9. CASE environmentRestoreRunCleanup
  BY <1>3, <1>9 DEF environmentRestoreRunCleanup
<1>10. CASE environmentRestoreRunCommands
  BY <1>3, <1>10 DEF environmentRestoreRunCommands
<1>11. CASE waitEnvironmentRestoreHealthChecks
  BY <1>3, <1>11 DEF waitEnvironmentRestoreHealthChecks
<1>12. CASE environmentRestoreMaybeRunWorkflow
  BY <1>12 DEF environmentRestoreMaybeRunWorkflow
<1>13. CASE environmentRestoreMaybePersist
  BY <1>13 DEF environmentRestoreMaybePersist
<1>14. CASE OutsideEvent \/ ContainersAppear \/ UNCHANGED restoreVars
  BY <1>14 DEF OutsideEvent, ContainersAppear, restoreVars
<1> QED
  BY <1>1, <1>2, <1>4, <1>5, <1>6, <1>7, <1>8, <1>9, <1>10, <1>11, <1>12, <1>13, <1>14
  DEF RestoreNext, RestoreStep, environmentRestoreDocker

LEMMA AppliedStep ==
    ASSUME Done, AppliedExist, [RestoreNext]_restoreVars
    PROVE  AppliedExist'
<1>1. DOMAIN run = Report
  BY ReportFields DEF Done
<1>2. CASE environmentRestoreApplyEdgeAssets
  <2>1. env' = env
    BY <1>2 DEF environmentRestoreApplyEdgeAssets
  <2>2. CASE run.next <= Len(EdgeAssets)
    <3>1. PICK ok \in environmentRestoreApplyEdgeAsset(EdgeAssets[run.next]) :
             run'.applied = run.applied \cup {i \in {run.next} : ok}
      BY <1>1, <1>2, <2>2 DEF environmentRestoreApplyEdgeAssets, ApplyNext, Report
    <3>2. env.assets # {} /\ EdgeAssets = env.edges
      BY <2>2 DEF EdgeAssets, Done
    <3>3. ok => env.edges[run.next] \in env.assets
      BY <3>1, <3>2 DEF environmentRestoreApplyEdgeAsset
    <3> QED
      BY <2>1, <3>1, <3>3 DEF AppliedExist
  <2>3. CASE ~(run.next <= Len(EdgeAssets))
    <3>1. run'.applied = run.applied
      BY <1>1, <1>2, <2>3 DEF environmentRestoreApplyEdgeAssets, DockerEnds, Report
    <3> QED
      BY <2>1, <3>1 DEF AppliedExist
  <2> QED
    BY <2>2, <2>3
<1>3. CASE ~environmentRestoreApplyEdgeAssets
  <2>1. env' = env
    BY DEF RestoreNext, RestoreStep, environmentRestoreDocker, newEnvironmentRestoreReport,
       environmentRestoreAddSourceReports, environmentRestoreSkippedDockerReport,
       environmentRestorePrepareReposOnlyDockerReport, environmentRestoreUseExistingContainers,
       environmentRestoreDockerStops, environmentRestorePrepareDockerExecution,
       environmentRestoreRunCleanup, environmentRestoreRunCommands,
       environmentRestoreApplyEdgeAssets, waitEnvironmentRestoreHealthChecks,
       environmentRestoreMaybeRunWorkflow, environmentRestoreMaybePersist, FinishRestore,
       KillRestore, OutsideEvent, ContainersAppear, restoreVars
  <2>2. run'.applied \in {run.applied, {}}
    BY <1>1, <1>3, AppliedStays
  <2> QED
    BY <2>1, <2>2 DEF AppliedExist
<1> QED
  BY <1>2, <1>3

LEMMA AppliedInit ==
    ASSUME RestoreInit
    PROVE  AppliedExist
BY DEF RestoreInit, NoRestore, AppliedExist

\* Done is what OkMeansRestored says, and enough for the services of the allow-list: the
\* check that covers a service is probed, and so answered, or has a form that is skipped.
LEMMA DoneIsEnough ==
    ASSUME Done, AppliedExist
    PROVE  OkMeansRestored /\ SelectedServicesAnswer
<1>1. OkMeansRestored
  <2>1. At("end") /\ run.ok /\ run.options.execute /\ ~run.options.prepare =>
           Restored /\ (run.options.workflow => run.workflow = "passed")
    BY DEF Done, Full, At
  <2>2. lastRestore.ok <=> lastRestore.phase = "completed"
    BY DEF Done
  <2> QED
    BY <2>1, <2>2 DEF AppliedExist, OkMeansRestored, Restored, EdgesApplied
<1>2. SelectedServicesAnswer
  <2>1. SUFFICES ASSUME run.pc = "end", run.ok, Full, NEW s \in env.selected
                 PROVE  LET checks == environmentRestoreEffectiveHealthChecks
                        IN  \/ \E i \in run.answered : checks[i].service = s
                            \/ \E i \in DOMAIN checks :
                                  checks[i].service = s /\ checks[i].form \in {"typed", "blank"}
    BY DEF SelectedServicesAnswer, At, Full
  <2>2. PICK i \in DOMAIN environmentRestoreEffectiveHealthChecks :
           /\ environmentRestoreEffectiveHealthChecks[i].service = s
           /\ environmentRestoreEffectiveHealthChecks[i].form # "unsupported"
    BY ChecksAreList DEF Done
  <2>3. environmentRestoreEffectiveHealthChecks[i] \in Checks
    BY <2>2, ChecksAreList DEF Done
  <2>4. environmentRestoreEffectiveHealthChecks[i].form \in {"probe", "typed", "blank"}
    BY <2>2, <2>3 DEF Checks
  <2>5. Answered(i)
    BY <2>1, <2>2 DEF Done, Restored
  <2> QED
    BY <2>2, <2>4, <2>5 DEF Answered
<1> QED
  BY <1>1, <1>2

\* A full restore that ends ok applied every asset that an edge names, unless the graph has no
\* config assets at all (environment_restore_edge_assets.go:49), had an answer to every check
\* it can probe, and an accepted workflow if asked; the Store says "completed" exactly when
\* it says ok (the report and the status saved of it).
THEOREM OkRestoresAreRestored == RestoreSpec => []OkMeansRestored
<1>1. RestoreInit => Done /\ AppliedExist
  BY DoneInit, AppliedInit
<1>2. Done /\ AppliedExist /\ [RestoreNext]_restoreVars => Done' /\ AppliedExist'
  BY DoneStep, AppliedStep
<1>3. Done /\ AppliedExist => OkMeansRestored
  BY DoneIsEnough
<1> QED
  BY <1>1, <1>2, <1>3, PTL DEF RestoreSpec

\* Every service of the allow-list is probed by a restore that ends ok, unless a recorded
\* check names it in a form that is skipped (effective health checks of the restore).
THEOREM SelectedServicesAreProbed == RestoreSpec => []SelectedServicesAnswer
<1>1. RestoreInit => Done /\ AppliedExist
  BY DoneInit, AppliedInit
<1>2. Done /\ AppliedExist /\ [RestoreNext]_restoreVars => Done' /\ AppliedExist'
  BY DoneStep, AppliedStep
<1>3. Done /\ AppliedExist => SelectedServicesAnswer
  BY DoneIsEnough
<1> QED
  BY <1>1, <1>2, <1>3, PTL DEF RestoreSpec

-----------------------------------------------------------------------------
(* What can be repeated.                                                   *)

\* Without a pull, preparing the source cannot fail, and changes nothing.
Fine(s, state) ==
    \/ s.kind = "package" /\ remoteOnly
    \/ /\ s.kind = "asset" => s.url = "remote"
       /\ state # "missing" /\ ~(state = "empty" /\ s.url # "none")
       /\ \/ s.url = "none" /\ s.ref = "none"
          \/ environmentRestoreValidateCheckout(s, state) /\ (s.ref = "none" \/ state = s.ref)

FineAt(i) == Fine(env.sources[i], checkouts[env.sources[i].path])

\* A restore writes into no checkout, and no two sources share one.
Quiet == env.writes = {} /\ \A i \in DOMAIN env.sources : ~Shared(i)

Usable == ToolsOK /\ environmentRestoreSourcePolicyReport /\ env.graph # "bad"

\* The sources of a restore that repeats an ok one are being prepared.
Repeats == run.again /\ Quiet /\ ~run.options.pull /\ run.pc = "sources"

Undisturbed == StartupFileSourced /\ (run.options.adopt \/ run.options.cleanup \/ ~env.named)

\* What is known of a restore that is still ok, of one that was, and of its repetition.
Repeatable ==
    /\ checkouts \in [Paths -> Checkouts]
    /\ proven => run.pc \in {"idle", "end"} /\ Usable
    /\ proven /\ Quiet => \A i \in DOMAIN env.sources : FineAt(i)
    /\ run.pc # "idle" /\ run.ok => Usable
    /\ run.pc # "idle" /\ run.ok /\ run.options.execute /\ Quiet =>
          \A i \in DOMAIN env.sources : (run.pc = "sources" => i < run.next) => FineAt(i)
    /\ Repeats => \A i \in DOMAIN env.sources : FineAt(i)
    /\ Repeats /\ Undisturbed => run.ok

LEMMA SourceFields ==
    ASSUME env \in Environments, NEW i \in DOMAIN env.sources
    PROVE  /\ env.sources[i] \in Sources /\ env.sources[i].path \in Paths
           /\ env.sources[i].kind \in {"package", "repo", "asset"}
           /\ env.sources[i].url \in {"none", "remote", "local"}
           /\ env.sources[i].ref \in Refs \cup {"none"}
           /\ i \in Nat \ {0} /\ i <= Len(env.sources)
<1>1. env.sources \in Seq(Sources)
  BY RestoreConstants
<1>2. env.sources[i] \in Sources /\ i \in Nat \ {0} /\ i <= Len(env.sources)
  BY <1>1
<1> QED
  BY <1>2 DEF Sources

\* Files written into a fine checkout leave it fine, when they soil none.
LEMMA SoiledIsFine ==
    ASSUME env.writes = {}, NEW s, NEW path, NEW state, Fine(s, state)
    PROVE  Fine(s, Soiled(path, state))
<1>1. Soiled(path, state) = IF state \in {"missing", "empty"} THEN "plain" ELSE state
  BY DEF Soiled
<1>2. CASE state \in {"missing", "empty"}
  BY <1>1, <1>2 DEF Fine, environmentRestoreValidateCheckout, Gitless
<1>3. CASE state \notin {"missing", "empty"}
  BY <1>1, <1>3
<1> QED
  BY <1>2, <1>3

LEMMA OutcomeFields ==
    ASSUME NEW ok, NEW state
    PROVE  Outcome(ok, state).ok = ok /\ Outcome(ok, state).state = state
BY DEF Outcome

\* A source that is ok after a restore with --execute is fine from then on.
LEMMA OkIsFine ==
    ASSUME run.options.execute, NEW s \in Sources, NEW state \in Checkouts,
           NEW outcome \in SourceOutcomes(s, state), outcome.ok
    PROVE  Fine(s, outcome.state)
<1>0. /\ s.ref \in Refs \cup {"none"} /\ s.url \in {"none", "remote", "local"}
      /\ "none" \notin Refs
  BY RefStates DEF Sources
<1>1. \A x : ~Outcome(FALSE, x).ok /\ Outcome(TRUE, x).state = x
  BY OutcomeFields
<1>2. ASSUME NEW x, x \notin Gitless \cup {"dirty", "foreign"}, s.ref = "none" \/ x = s.ref,
             s.kind = "asset" => s.url = "remote"
      PROVE  Fine(s, x)
  BY <1>2 DEF Fine, environmentRestoreValidateCheckout, Gitless
<1>3. s.ref = "none" \/ s.ref \notin Gitless \cup {"dirty", "foreign"}
  BY <1>0, RefStates
<1>4. CASE s.kind = "package" /\ remoteOnly
  BY <1>4 DEF Fine
<1>5. CASE ~(s.kind = "package" /\ remoteOnly)
  <2>1. /\ s.kind = "asset" => s.url = "remote"
        /\ outcome \in environmentRestoreRepo(s, state, run.options.execute, run.options.pull)
    BY <1>1, <1>5 DEF SourceOutcomes
  <2>2. CASE state = "missing" \/ (state = "empty" /\ s.url # "none")
    <3>1. outcome \in environmentRestoreMissingRepo(s, state, run.options.execute)
      BY <2>1, <2>2 DEF environmentRestoreRepo
    <3>2. outcome \in environmentRestoreCloneIntoCheckout(s, state)
      BY <1>1, <3>1 DEF environmentRestoreMissingRepo
    <3>3. \/ s.ref = "none" /\ outcome = Outcome(TRUE, "branch")
          \/ s.ref # "none" /\ outcome = Outcome(TRUE, s.ref)
      BY <1>1, <3>2 DEF environmentRestoreCloneIntoCheckout
    <3>4. \/ s.ref = "none" /\ outcome.state = "branch"
          \/ s.ref # "none" /\ outcome.state = s.ref
      BY <1>1, <3>3
    <3> QED
      BY <1>2, <1>3, <2>1, <3>4 DEF Gitless
  <2>3. CASE ~(state = "missing" \/ (state = "empty" /\ s.url # "none"))
    <3>1. outcome \in environmentRestoreExistingRepo(s, state, run.options.execute, run.options.pull)
      BY <2>1, <2>3 DEF environmentRestoreRepo
    <3>2. CASE s.url = "none" /\ s.ref = "none"
      <4>1. outcome = Outcome(TRUE, state)
        BY <3>1, <3>2 DEF environmentRestoreExistingRepo
      <4>2. outcome.state = state
        BY <1>1, <4>1
      <4> QED
        BY <2>1, <2>3, <3>2, <4>2 DEF Fine
    <3>3. CASE ~(s.url = "none" /\ s.ref = "none")
      <4>1. environmentRestoreValidateCheckout(s, state)
        BY <1>1, <3>1, <3>3 DEF environmentRestoreExistingRepo
      <4>2. CASE s.ref # "none"
        <5>1. outcome \in environmentRestoreExistingRef(s, state, run.options.execute)
          BY <3>1, <3>3, <4>1, <4>2 DEF environmentRestoreExistingRepo
        <5>2. outcome.state = s.ref
          BY <1>1, <5>1 DEF environmentRestoreExistingRef
        <5> QED
          BY <1>2, <1>3, <2>1, <4>2, <5>2
      <4>3. CASE s.ref = "none"
        <5>1. \/ outcome \in environmentRestorePullExisting(state)
              \/ outcome = Outcome(TRUE, state)
          BY <3>1, <3>3, <4>1, <4>3 DEF environmentRestoreExistingRepo
        <5>2. outcome.state = state
          BY <1>1, <5>1 DEF environmentRestorePullExisting
        <5> QED
          BY <2>1, <2>3, <4>1, <4>3, <5>2 DEF Fine
      <4> QED
        BY <4>2, <4>3
    <3> QED
      BY <3>2, <3>3
  <2> QED
    BY <2>2, <2>3
<1> QED
  BY <1>4, <1>5

\* Preparing a fine source without a pull.
LEMMA FineIsOk ==
    ASSUME ~run.options.pull, NEW s, NEW state, Fine(s, state),
           NEW outcome \in SourceOutcomes(s, state)
    PROVE  outcome.ok = TRUE /\ outcome.state = state
<1>1. SourceOutcomes(s, state) = {Outcome(TRUE, state)}
  <2>1. CASE s.kind = "package" /\ remoteOnly
    BY <2>1 DEF SourceOutcomes
  <2>2. CASE ~(s.kind = "package" /\ remoteOnly)
    <3>1. SourceOutcomes(s, state) =
             environmentRestoreExistingRepo(s, state, run.options.execute, run.options.pull)
      BY <2>2 DEF Fine, SourceOutcomes, environmentRestoreRepo
    <3>2. \/ s.url = "none" /\ s.ref = "none"
          \/ environmentRestoreValidateCheckout(s, state) /\ (s.ref = "none" \/ state = s.ref)
      BY <2>2 DEF Fine
    <3> QED
      BY <3>1, <3>2 DEF environmentRestoreExistingRepo, environmentRestoreExistingRef
  <2> QED
    BY <2>1, <2>2
<1> QED
  BY <1>1, OutcomeFields

LEMMA OutcomeTypes ==
    ASSUME NEW s \in Sources, NEW state \in Checkouts, NEW outcome \in SourceOutcomes(s, state)
    PROVE  outcome.ok \in BOOLEAN /\ outcome.state \in Checkouts
<1>1. PICK T : /\ \A ok \in BOOLEAN, x \in Checkouts : Outcome(ok, x) \in T
               /\ \A o \in T : o.ok \in BOOLEAN /\ o.state \in Checkouts
  <2>1. \A ok \in BOOLEAN, x \in Checkouts :
           Outcome(ok, x) \in {o \in [ok : BOOLEAN, state : Checkouts] : TRUE}
    BY DEF Outcome
  <2>2. \A o \in {o \in [ok : BOOLEAN, state : Checkouts] : TRUE} :
           o.ok \in BOOLEAN /\ o.state \in Checkouts
    OBVIOUS
  <2> QED
    BY <2>1, <2>2
<1>2. /\ "branch" \in Checkouts /\ (s.ref # "none" => s.ref \in Checkouts)
      /\ TRUE \in BOOLEAN /\ FALSE \in BOOLEAN
  BY DEF Checkouts, Sources
<1>3. environmentRestoreCloneIntoCheckout(s, state) \subseteq T
  BY <1>1, <1>2 DEF environmentRestoreCloneIntoCheckout
<1>4. \A execute : environmentRestoreMissingRepo(s, state, execute) \subseteq T
  BY <1>1, <1>2, <1>3 DEF environmentRestoreMissingRepo
<1>5. \A execute : s.ref # "none" => environmentRestoreExistingRef(s, state, execute) \subseteq T
  BY <1>1, <1>2 DEF environmentRestoreExistingRef
<1>6. environmentRestorePullExisting(state) \subseteq T
  BY <1>1, <1>2 DEF environmentRestorePullExisting
<1>7. \A execute, pull : environmentRestoreExistingRepo(s, state, execute, pull) \subseteq T
  BY <1>1, <1>2, <1>5, <1>6 DEF environmentRestoreExistingRepo
<1>8. outcome \in T
  BY <1>1, <1>2, <1>4, <1>7 DEF SourceOutcomes, environmentRestoreRepo
<1> QED
  BY <1>1, <1>8

-----------------------------------------------------------------------------
\* Checkouts that are only written into.
Written ==
    /\ checkouts' \in [Paths -> Checkouts]
    /\ \A p \in Paths : checkouts'[p] \in {checkouts[p], Soiled(p, checkouts[p])}

LEMMA SoiledType ==
    ASSUME NEW path, NEW state \in Checkouts
    PROVE  Soiled(path, state) \in Checkouts
BY DEF Soiled, Checkouts, Gitless

LEMMA WrittenIsFine ==
    ASSUME env \in Environments, env.writes = {}, Written, UNCHANGED <<env, remoteOnly>>,
           NEW i \in DOMAIN env.sources, FineAt(i)
    PROVE  FineAt(i)'
<1> DEFINE s == env.sources[i]
<1>1. s.path \in Paths
  BY SourceFields
<1>2. checkouts'[s.path] \in {checkouts[s.path], Soiled(s.path, checkouts[s.path])}
  BY <1>1 DEF Written
<1>3. Fine(s, checkouts'[s.path])
  BY <1>2, SoiledIsFine DEF FineAt
<1>4. \A x, y : Fine(x, y)' <=> Fine(x, y)
  BY DEF Fine, environmentRestoreValidateCheckout
<1> QED
  BY <1>3, <1>4 DEF FineAt, Fine, environmentRestoreValidateCheckout

LEMMA QuietStays ==
    ASSUME UNCHANGED <<env, remoteOnly>>
    PROVE  /\ Quiet' = Quiet /\ StartupFileSourced' = StartupFileSourced
           /\ environmentRestoreSourcePolicyReport' = environmentRestoreSourcePolicyReport
           /\ tools' = tools => (Usable' <=> Usable)
<1>1. Quiet' = Quiet
  BY DEF Quiet, Shared
<1>2. StartupFileSourced' = StartupFileSourced
  BY DEF StartupFileSourced
<1>3. environmentRestoreSourcePolicyReport' = environmentRestoreSourcePolicyReport
  BY DEF environmentRestoreSourcePolicyReport
<1>4. tools' = tools => (Usable' <=> Usable)
  BY <1>3 DEF Usable, ToolsOK, environmentRestorePreflightRequiresGit
<1> QED
  BY <1>1, <1>2, <1>3, <1>4

\* A restore that is past its sources goes on, or ends.
GoesOn ==
    /\ UNCHANGED <<env, remoteOnly, tools>> /\ Written
    /\ run'.options = run.options
    /\ run.pc \notin {"idle", "end"} /\ run'.pc \notin {"idle", "sources"}
    /\ run.pc = "sources" => SourcesDone
    /\ run'.ok => run.ok
    /\ proven' => proven \/ (run'.ok /\ run.options.execute /\ run'.pc = "end")

LEMMA GoingOnRepeats ==
    ASSUME Done, Repeatable, GoesOn
    PROVE  Repeatable'
<1>0. env \in Environments /\ UNCHANGED <<env, remoteOnly, tools>>
  BY DEF Done, GoesOn
<1>1. checkouts' \in [Paths -> Checkouts]
  BY DEF GoesOn, Written
<1>2. Quiet' = Quiet /\ (Usable' <=> Usable)
  BY <1>0, QuietStays
<1>3. ~proven
  BY DEF Repeatable, GoesOn
<1>4. run'.ok => Usable'
  BY <1>2 DEF Repeatable, GoesOn
<1>5. ASSUME run'.ok, run.options.execute, Quiet, NEW i \in DOMAIN env.sources
      PROVE  FineAt(i)'
  <2>1. i \in Nat /\ i <= Len(env.sources) /\ Len(env.sources) \in Nat
    <3>1. env.sources \in Seq(Sources)
      BY <1>0, RestoreConstants
    <3> QED
      BY <3>1
  <2>2. run.next \in Nat
    BY DEF Done
  <2>3. run.pc = "sources" => i < run.next
    BY <2>1, <2>2 DEF GoesOn, SourcesDone
  <2>4. FineAt(i)
    BY <1>5, <2>3 DEF Repeatable, GoesOn
  <2> QED
    BY <1>0, <1>5, <2>4, WrittenIsFine DEF GoesOn, Quiet
<1>6. run'.pc # "sources" /\ run'.pc # "idle" /\ run'.options = run.options
  BY DEF GoesOn
<1>7. proven' => run'.ok /\ run.options.execute /\ run'.pc = "end"
  BY <1>3 DEF GoesOn
<1> QED
  BY <1>0, <1>1, <1>2, <1>4, <1>5, <1>6, <1>7 DEF Repeatable, Repeats

LEMMA FilesAreWritten ==
    ASSUME checkouts \in [Paths -> Checkouts], WriteGeneratedFiles \/ UNCHANGED checkouts
    PROVE  Written
<1>1. CASE UNCHANGED checkouts
  BY <1>1 DEF Written
<1>2. CASE WriteGeneratedFiles
  <2>1. CASE GeneratedFiles
    <3>1. checkouts' = [p \in Paths |-> IF p \in env.writes \cup {"workspace"}
                                        THEN Soiled(p, checkouts[p]) ELSE checkouts[p]]
      BY <1>2, <2>1 DEF WriteGeneratedFiles
    <3>2. \A p \in Paths : Soiled(p, checkouts[p]) \in Checkouts /\ checkouts[p] \in Checkouts
      BY SoiledType
    <3> HIDE DEF Checkouts
    <3> QED
      BY <3>1, <3>2 DEF Written
  <2>2. CASE ~GeneratedFiles
    BY <1>2, <2>2 DEF WriteGeneratedFiles, Written
  <2> QED
    BY <2>1, <2>2
<1> QED
  BY <1>1, <1>2

\* The end of Docker, as far as it concerns the later steps.
LEMMA DockerEndFields ==
    ASSUME Done, NEW ok, DockerEnds(ok)
    PROVE  run'.options = run.options /\ run'.pc = "workflow" /\ (run'.ok => run.ok)
BY ReportFields DEF Done, DockerEnds, Report

LEMMA PlansGoOn ==
    ASSUME Done, Repeatable,
           \/ environmentRestoreSkippedDockerReport \/ environmentRestorePrepareReposOnlyDockerReport
           \/ environmentRestoreUseExistingContainers \/ environmentRestoreDockerStops
           \/ environmentRestorePrepareDockerExecution
    PROVE  GoesOn
<1>1. /\ UNCHANGED <<env, remoteOnly, tools, proven>> /\ SourcesDone /\ run.pc = "sources"
      /\ WriteGeneratedFiles \/ UNCHANGED checkouts
  BY DEF environmentRestoreSkippedDockerReport, environmentRestorePrepareReposOnlyDockerReport,
     environmentRestoreUseExistingContainers, environmentRestoreDockerStops,
     environmentRestorePrepareDockerExecution, SourcesDone, At, hostVars
<1>2. Written
  BY <1>1, FilesAreWritten DEF Repeatable
<1>3. run'.options = run.options /\ run'.pc \notin {"idle", "sources"} /\ (run'.ok => run.ok)
  <2>1. CASE environmentRestoreSkippedDockerReport \/ environmentRestorePrepareReposOnlyDockerReport
    BY <2>1, DockerEndFields
    DEF environmentRestoreSkippedDockerReport, environmentRestorePrepareReposOnlyDockerReport
  <2>2. CASE environmentRestoreUseExistingContainers
    <3>1. CASE run' = [run EXCEPT !.pc = "edges", !.next = 1]
      BY <3>1, ReportFields DEF Done, Report
    <3>2. CASE DockerEnds(~env.outside)
      BY <3>2, DockerEndFields
    <3> QED
      BY <2>2, <3>1, <3>2 DEF environmentRestoreUseExistingContainers
  <2>3. CASE environmentRestoreDockerStops
    <3>1. PICK ok, planned : run' = [run EXCEPT !.pc = "workflow", !.docker = ok, !.ok = ok,
                                                !.planned = planned]
      BY <2>3 DEF environmentRestoreDockerStops
    <3>2. run.ok
      BY <2>3 DEF environmentRestoreDockerStops
    <3> QED
      BY <3>1, <3>2, ReportFields DEF Done, Report
  <2>4. CASE environmentRestorePrepareDockerExecution
    <3>1. PICK planned : planned = [run EXCEPT !.next = 1, !.planned = run.options.cleanup,
                                               !.commands = environmentRestoreDockerPlan]
      OBVIOUS
    <3>2. PICK pc : pc = (IF run.options.cleanup THEN "backup" ELSE "commands")
      OBVIOUS
    <3>3. \/ run' = [planned EXCEPT !.pc = "workflow", !.docker = FALSE, !.ok = FALSE]
          \/ run' = [planned EXCEPT !.pc = pc]
      BY <2>4, <3>1, <3>2 DEF environmentRestorePrepareDockerExecution
    <3>4. run.ok /\ pc \notin {"idle", "sources"}
      BY <2>4, <3>2 DEF environmentRestorePrepareDockerExecution
    <3>5. DOMAIN planned = Report /\ planned.options = run.options
      BY <3>1, ReportFields DEF Done, Report
    <3> QED
      BY <3>3, <3>4, <3>5 DEF Report
  <2> QED
    BY <2>1, <2>2, <2>3, <2>4
<1> QED
  BY <1>1, <1>2, <1>3 DEF GoesOn

LEMMA DockerGoesOn ==
    ASSUME Done, Repeatable, environmentRestoreRunCleanup \/ environmentRestoreRunCommands
    PROVE  GoesOn
<1>1. /\ UNCHANGED <<env, remoteOnly, tools, proven, checkouts>> /\ run.pc \in TouchesDocker
  BY DEF environmentRestoreRunCleanup, environmentRestoreRunCommands, At, TouchesDocker
<1>2. Written
  BY <1>1, FilesAreWritten DEF Repeatable
<1>3. run'.options = run.options /\ run'.pc \notin {"idle", "sources"} /\ (run'.ok => run.ok)
  <2>1. CASE DockerEnds(FALSE)
    BY <2>1, DockerEndFields
  <2>2. CASE run' = [run EXCEPT !.pc = "down", !.backedUp = TRUE]
    BY <2>2, ReportFields DEF Done, Report
  <2>3. CASE run' = [run EXCEPT !.pc = "commands"]
    BY <2>3, ReportFields DEF Done, Report
  <2>4. CASE \E started, next, pc : /\ run' = [run EXCEPT !.started = started, !.next = next, !.pc = pc]
                                    /\ pc \in {"edges", "commands"}
    BY <2>4, ReportFields DEF Done, Report
  <2>5. environmentRestoreRunCommands =>
          \/ \E started, next, pc : /\ run' = [run EXCEPT !.started = started, !.next = next, !.pc = pc]
                                    /\ pc \in {"edges", "commands"}
          \/ DockerEnds(FALSE)
    <3>1. PICK pc \in {"edges", "commands"} :
             pc = (IF run.next = Len(run.commands) THEN "edges" ELSE "commands")
      OBVIOUS
    <3>2. PICK next : next = (IF run.next = Len(run.commands) THEN 1 ELSE run.next + 1)
      OBVIOUS
    <3>3. PICK started : started = (run.started \/ run.commands[run.next] \in {"up", "start"})
      OBVIOUS
    <3>4. environmentRestoreRunCommands =>
            \/ run' = [run EXCEPT !.started = started, !.next = next, !.pc = pc]
            \/ DockerEnds(FALSE)
      BY <3>1, <3>2, <3>3 DEF environmentRestoreRunCommands
    <3> QED
      BY <3>4
  <2> QED
    BY <2>1, <2>2, <2>3, <2>4, <2>5 DEF environmentRestoreRunCleanup
<1> QED
  BY <1>1, <1>2, <1>3 DEF GoesOn, TouchesDocker

LEMMA LaterGoOn ==
    ASSUME Done, Repeatable,
           \/ environmentRestoreApplyEdgeAssets \/ waitEnvironmentRestoreHealthChecks
           \/ environmentRestoreMaybeRunWorkflow \/ environmentRestoreMaybePersist
    PROVE  GoesOn
<1>1. /\ UNCHANGED <<env, remoteOnly, tools, checkouts>>
      /\ run.pc \in {"edges", "health", "workflow", "persist"}
  BY DEF ApplyNext, environmentRestoreApplyEdgeAssets, waitEnvironmentRestoreHealthChecks,
     environmentRestoreMaybeRunWorkflow, environmentRestoreMaybePersist, At, hostVars
<1>2. Written
  BY <1>1, FilesAreWritten DEF Repeatable
<1> DEFINE After == /\ run'.options = run.options /\ run'.pc \notin {"idle", "sources"}
                    /\ run'.ok => run.ok
                    /\ proven' => proven \/ (run'.ok /\ run.options.execute /\ run'.pc = "end")
<1> SUFFICES After
  BY <1>1, <1>2 DEF GoesOn
<1>3. ASSUME NEW ok, DockerEnds(ok), UNCHANGED proven PROVE After
  BY <1>3, DockerEndFields
<1>4. CASE environmentRestoreApplyEdgeAssets
  <2>1. UNCHANGED proven /\ run.pc = "edges"
    BY <1>4 DEF ApplyNext, environmentRestoreApplyEdgeAssets, At
  <2>2. \/ \E ok : DockerEnds(ok)
        \/ run' = [run EXCEPT !.pc = "health", !.next = 1]
        \/ \E next, applied : run' = [run EXCEPT !.next = next, !.applied = applied]
    BY <1>4 DEF ApplyNext, environmentRestoreApplyEdgeAssets
  <2> QED
    BY <1>3, <2>1, <2>2, ReportFields DEF Done, Report
<1>5. CASE waitEnvironmentRestoreHealthChecks
  <2>1. UNCHANGED proven /\ run.pc = "health"
    BY <1>5 DEF waitEnvironmentRestoreHealthChecks, At
  <2>2. PICK next : next = [run EXCEPT !.next = run.next + 1]
    OBVIOUS
  <2>3. PICK failed : failed = [next EXCEPT !.docker = FALSE, !.ok = FALSE, !.unhealthy = TRUE]
    OBVIOUS
  <2>4. DOMAIN next = Report /\ next.options = run.options /\ next.pc = run.pc /\ next.ok = run.ok
    BY <2>2, ReportFields DEF Done, Report
  <2>5. /\ DOMAIN failed = Report /\ failed.options = run.options /\ failed.pc = run.pc
        /\ failed.ok = FALSE
    BY <2>3, <2>4 DEF Report
  <2>6. \/ \E ok : DockerEnds(ok)
        \/ \E answered : run' = [next EXCEPT !.answered = answered]
        \/ run' = next
        \/ run' = failed
        \/ run' = [failed EXCEPT !.late = TRUE]
    BY <1>5, <2>2, <2>3 DEF waitEnvironmentRestoreHealthChecks
  <2>7. CASE \E ok : DockerEnds(ok)
    BY <1>3, <2>1, <2>7
  <2>8. CASE run' = next \/ \E answered : run' = [next EXCEPT !.answered = answered]
    BY <2>1, <2>4, <2>8 DEF Report
  <2>9. CASE run' = failed \/ run' = [failed EXCEPT !.late = TRUE]
    BY <2>1, <2>5, <2>9 DEF Report
  <2> QED
    BY <2>6, <2>7, <2>8, <2>9
<1>6. CASE environmentRestoreMaybeRunWorkflow
  <2>1. UNCHANGED proven
    BY <1>6 DEF environmentRestoreMaybeRunWorkflow
  <2>2. \/ run' = [run EXCEPT !.pc = "persist"]
        \/ run.ok /\ \E ok, workflow : run' = [run EXCEPT !.pc = "persist", !.ok = ok,
                                                          !.workflow = workflow]
    BY <1>6 DEF environmentRestoreMaybeRunWorkflow
  <2>3. CASE run' = [run EXCEPT !.pc = "persist"]
    BY <2>1, <2>3, ReportFields DEF Done, Report
  <2>4. CASE run.ok /\ \E ok, workflow : run' = [run EXCEPT !.pc = "persist", !.ok = ok,
                                                            !.workflow = workflow]
    BY <2>1, <2>4, ReportFields DEF Done, Report
  <2> QED
    BY <2>2, <2>3, <2>4
<1>7. CASE environmentRestoreMaybePersist
  <2>1. PICK ok : ok = (run.ok /\ environmentRestoreReadinessReport)
    OBVIOUS
  <2>2. \/ /\ run' = [run EXCEPT !.pc = "end", !.ok = ok]
           /\ proven' = (ok /\ run.options.execute /\ ~run.options.prepare)
        \/ /\ run' = [run EXCEPT !.pc = "end", !.ok = FALSE]
           /\ proven' = proven
    BY <1>7, <2>1 DEF environmentRestoreMaybePersist
  <2>3. CASE run' = [run EXCEPT !.pc = "end", !.ok = FALSE] /\ proven' = proven
    BY <2>3, ReportFields DEF Done, Report
  <2>4. CASE /\ run' = [run EXCEPT !.pc = "end", !.ok = ok]
             /\ proven' = (ok /\ run.options.execute /\ ~run.options.prepare)
    <3>1. run'.options = run.options /\ run'.pc = "end" /\ run'.ok = ok
      BY <2>4, ReportFields DEF Done, Report
    <3> QED
      BY <2>1, <2>4, <3>1
  <2> QED
    BY <2>2, <2>3, <2>4
<1> QED
  BY <1>4, <1>5, <1>6, <1>7

-----------------------------------------------------------------------------
\* Preparing one source leaves every other checkout, or writes into it.
LEMMA OneIsPrepared ==
    ASSUME checkouts \in [Paths -> Checkouts], NEW s \in Sources, NEW outcome,
           outcome.state \in Checkouts
    PROVE  /\ Prepared(s, outcome) \in [Paths -> Checkouts]
           /\ \A p \in Paths : p # s.path =>
                 Prepared(s, outcome)[p] \in {checkouts[p], Soiled(p, checkouts[p])}
           /\ Prepared(s, outcome)[s.path] \in {outcome.state, Soiled(s.path, outcome.state)}
<1> DEFINE placed == [checkouts EXCEPT ![s.path] = outcome.state]
           soiled == [placed EXCEPT !["workspace"] = Soiled("workspace", placed["workspace"])]
<1>1. s.path \in Paths /\ "workspace" \in Paths
  BY RestoreConstants DEF Sources
<1>2. /\ placed \in [Paths -> Checkouts] /\ placed[s.path] = outcome.state
      /\ \A p \in Paths : p # s.path => placed[p] = checkouts[p]
  BY <1>1
<1>3. Prepared(s, outcome) \in {placed, soiled}
  BY DEF Prepared
<1> HIDE DEF placed
<1>4. Soiled("workspace", placed["workspace"]) \in Checkouts
  BY <1>1, <1>2, SoiledType
<1>5. /\ soiled \in [Paths -> Checkouts]
      /\ \A p \in Paths : soiled[p] \in {placed[p], Soiled(p, placed[p])}
  BY <1>1, <1>2, <1>4
<1> HIDE DEF soiled
<1> QED
  BY <1>1, <1>2, <1>3, <1>5

LEMMA SourcesRepeat ==
    ASSUME Done, Repeatable, environmentRestoreAddSourceReports
    PROVE  Repeatable'
<1> DEFINE s == env.sources[run.next]
<1>1. PICK outcome \in SourceOutcomes(s, checkouts[s.path]) :
          /\ checkouts' = Prepared(s, outcome)
          /\ run' = [run EXCEPT !.next = @ + 1, !.ok = @ /\ outcome.ok,
                        !.package = IF s.kind = "package" THEN outcome.ok ELSE @,
                        !.repos = IF s.kind = "repo" THEN @ /\ outcome.ok ELSE @]
  BY DEF environmentRestoreAddSourceReports
<1>2. /\ run.pc = "sources" /\ UNCHANGED <<env, remoteOnly, tools, proven>>
      /\ env \in Environments
  BY DEF environmentRestoreAddSourceReports, At, Done
<1>3. run.next \in DOMAIN env.sources /\ run.next \in Nat
  <2>1. env.sources \in Seq(Sources) /\ run.next \in Nat \ {0} /\ run.next <= Len(env.sources)
    BY <1>2, RestoreConstants DEF Done, environmentRestoreAddSourceReports
  <2> QED
    BY <2>1
<1>4. s \in Sources /\ s.path \in Paths
  BY <1>2, <1>3, SourceFields
<1>5. checkouts \in [Paths -> Checkouts] /\ checkouts[s.path] \in Checkouts
  BY <1>4 DEF Repeatable
<1> HIDE DEF s
<1>6. outcome.ok \in BOOLEAN /\ outcome.state \in Checkouts
  BY <1>1, <1>4, <1>5, OutcomeTypes
<1>7. /\ checkouts' \in [Paths -> Checkouts]
      /\ \A p \in Paths : p # s.path => checkouts'[p] \in {checkouts[p], Soiled(p, checkouts[p])}
      /\ checkouts'[s.path] \in {outcome.state, Soiled(s.path, outcome.state)}
  BY <1>1, <1>4, <1>5, <1>6, OneIsPrepared
<1>8. /\ run'.pc = "sources" /\ run'.next = run.next + 1 /\ run'.options = run.options
      /\ run'.again = run.again /\ run'.ok = (run.ok /\ outcome.ok)
  BY <1>1, <1>2, ReportFields DEF Done, Report
<1>9. /\ Quiet' = Quiet /\ (Usable' <=> Usable) /\ ~proven
      /\ StartupFileSourced' = StartupFileSourced /\ (Undisturbed' <=> Undisturbed)
  <2>1. Quiet' = Quiet /\ (Usable' <=> Usable) /\ StartupFileSourced' = StartupFileSourced
    BY <1>2, QuietStays
  <2> QED
    BY <1>2, <1>8, <2>1 DEF Repeatable, Undisturbed
<1>10. \A x, y : Fine(x, y)' <=> Fine(x, y)
  BY <1>2 DEF Fine, environmentRestoreValidateCheckout
<1>11. ASSUME Quiet, NEW i \in DOMAIN env.sources, i # run.next, FineAt(i)
       PROVE  FineAt(i)'
  <2> DEFINE path == env.sources[i].path
  <2>1. path \in Paths /\ path # s.path
    BY <1>2, <1>3, <1>11, SourceFields DEF Quiet, Shared, s
  <2>2. checkouts'[path] \in {checkouts[path], Soiled(path, checkouts[path])}
    BY <1>7, <2>1
  <2>3. Fine(env.sources[i], checkouts'[path])
    BY <1>11, <2>2, SoiledIsFine DEF FineAt, Quiet
  <2>4. FineAt(i)' <=> Fine(env.sources[i], checkouts'[path])
    BY <1>2 DEF FineAt, Fine, environmentRestoreValidateCheckout
  <2> QED
    BY <2>3, <2>4
<1>12. ASSUME Quiet, NEW n, n = run.next, Fine(s, outcome.state)
       PROVE  FineAt(n)'
  <2>1. Fine(s, checkouts'[s.path])
    BY <1>7, <1>12, SoiledIsFine DEF Quiet
  <2>2. FineAt(n)' <=> Fine(env.sources[n], checkouts'[env.sources[n].path])
    BY <1>2 DEF FineAt, Fine, environmentRestoreValidateCheckout
  <2> QED
    BY <1>12, <2>1, <2>2 DEF s
<1>13. ASSUME run'.ok, run.options.execute, Quiet, NEW i \in DOMAIN env.sources, i < run.next + 1
       PROVE  FineAt(i)'
  <2>1. run.ok /\ outcome.ok
    BY <1>8, <1>13
  <2>2. CASE i = run.next
    <3>1. Fine(s, outcome.state)
      BY <1>1, <1>4, <1>5, <1>13, <2>1, OkIsFine
    <3> QED
      BY <1>12, <1>13, <2>2, <3>1
  <2>3. CASE i # run.next
    <3>1. i < run.next
      BY <1>2, <1>3, <1>13, <2>3, SourceFields
    <3>2. FineAt(i)
      BY <1>2, <1>13, <2>1, <3>1 DEF Repeatable
    <3> QED
      BY <1>11, <1>13, <2>3, <3>2
  <2> QED
    BY <2>2, <2>3
<1>14. ASSUME Repeats
       PROVE  /\ outcome.ok
              /\ \A i \in DOMAIN env.sources : FineAt(i)'
  <2>1. Quiet /\ ~run.options.pull /\ \A i \in DOMAIN env.sources : FineAt(i)
    BY <1>14 DEF Repeats, Repeatable
  <2>2. Fine(s, checkouts[s.path])
    BY <1>3, <2>1 DEF FineAt, s
  <2>3. outcome.ok = TRUE /\ outcome.state = checkouts[s.path]
    <3>1. PICK source, state : source = s /\ state = checkouts[s.path]
      OBVIOUS
    <3>2. outcome \in SourceOutcomes(source, state) /\ Fine(source, state) /\ ~run.options.pull
      BY <1>1, <2>1, <2>2, <3>1
    <3>3. outcome.ok = TRUE /\ outcome.state = state
      BY ONLY <3>2, FineIsOk
    <3> QED
      BY <3>1, <3>3
  <2>4. ASSUME NEW i \in DOMAIN env.sources
        PROVE  FineAt(i)'
    BY <1>11, <1>12, <2>1, <2>2, <2>3
  <2> QED
    BY <2>3, <2>4
<1>15. Repeats' <=> Repeats
  BY <1>2, <1>8, <1>9 DEF Repeats
<1>16. run'.ok => Usable'
  BY <1>2, <1>8, <1>9 DEF Repeatable
<1>17. Repeats' /\ Undisturbed' => run'.ok
  BY <1>8, <1>9, <1>14, <1>15 DEF Repeatable
<1>18. DOMAIN env.sources' = DOMAIN env.sources /\ ~proven' /\ run'.next = run.next + 1
  BY <1>2, <1>8, <1>9
<1>19. run'.ok /\ run'.options.execute /\ Quiet' =>
          \A i \in DOMAIN env.sources' : i < run'.next => FineAt(i)'
  BY <1>8, <1>9, <1>13, <1>18
<1>20. Repeats' => \A i \in DOMAIN env.sources' : FineAt(i)'
  BY <1>14, <1>15, <1>18
<1> QED
  BY <1>7, <1>8, <1>16, <1>17, <1>18, <1>19, <1>20 DEF Repeatable

\* The first step of a restore that repeats an ok one finds everything in order.
LEMMA NewRepeats ==
    ASSUME Done, Repeatable, newEnvironmentRestoreReport
    PROVE  Repeatable'
<1>1. PICK o \in Options, seen \in BOOLEAN :
         LET new == [NoRestore EXCEPT
                        !.pc = "sources", !.options = o,
                        !.tooling = ToolsOK,
                        !.conflicts = seen /\ environmentRestoreCheckContainerConflicts(o),
                        !.assets = environmentRestoreCheckStartupAssets(o),
                        !.policy = environmentRestoreSourcePolicyReport,
                        !.again = proven]
         IN  run' = [new EXCEPT !.ok = PreflightOK(new) /\ new.policy /\ env.graph # "bad"]
  BY DEF newEnvironmentRestoreReport
<1> DEFINE new == [NoRestore EXCEPT
                        !.pc = "sources", !.options = o,
                        !.tooling = ToolsOK,
                        !.conflicts = seen /\ environmentRestoreCheckContainerConflicts(o),
                        !.assets = environmentRestoreCheckStartupAssets(o),
                        !.policy = environmentRestoreSourcePolicyReport,
                        !.again = proven]
<1>2. /\ DOMAIN new = Report /\ new.pc = "sources" /\ new.next = 1 /\ new.options = o
      /\ new.tooling = ToolsOK
      /\ new.conflicts = (seen /\ environmentRestoreCheckContainerConflicts(o))
      /\ new.assets = environmentRestoreCheckStartupAssets(o)
      /\ new.policy = environmentRestoreSourcePolicyReport /\ new.again = proven
  BY DEF NoRestore, Report
<1>3. run' = [new EXCEPT !.ok = PreflightOK(new) /\ new.policy /\ env.graph # "bad"]
  BY <1>1
<1> HIDE DEF new
<1>4. /\ run'.pc = "sources" /\ run'.next = 1 /\ run'.options = o /\ run'.again = proven
      /\ run'.ok = (PreflightOK(new) /\ new.policy /\ env.graph # "bad")
  BY <1>2, <1>3 DEF Report
<1>5. /\ UNCHANGED <<env, remoteOnly, tools, checkouts>> /\ ~proven' /\ env \in Environments
  BY DEF newEnvironmentRestoreReport, hostVars, Done
<1>6. /\ Quiet' = Quiet /\ (Usable' <=> Usable) /\ StartupFileSourced' = StartupFileSourced
  BY <1>5, QuietStays
<1>7. run'.ok => Usable'
  BY <1>2, <1>4, <1>6 DEF PreflightOK, Usable
<1>8. \A i : FineAt(i)' <=> FineAt(i)
  BY <1>5 DEF FineAt, Fine, environmentRestoreValidateCheckout
<1>9. \A i \in DOMAIN env.sources : ~(i < 1)
  BY <1>5, SourceFields
<1>10. Repeats' => proven /\ Quiet /\ Usable /\ \A i \in DOMAIN env.sources : FineAt(i)
  BY <1>4, <1>6 DEF Repeats, Repeatable
<1>11. ASSUME Repeats', Undisturbed'
       PROVE  run'.ok
  <2>1. /\ StartupFileSourced /\ (o.adopt \/ o.cleanup \/ ~env.named)
        /\ Usable /\ \A i \in DOMAIN env.sources : FineAt(i)
    BY <1>4, <1>5, <1>6, <1>10, <1>11 DEF Undisturbed
  <2>2. ~environmentRestoreCheckContainerConflicts(o)
    BY <2>1 DEF environmentRestoreCheckContainerConflicts, environmentRestoreContainerNameConflicts
  <2>3. environmentRestoreStartupAssetAvailable
    <3>1. SUFFICES ASSUME env.asset \in Paths PROVE Cloned(env.asset)
      BY DEF environmentRestoreStartupAssetAvailable
    <3>2. PICK i \in DOMAIN env.sources :
             /\ env.sources[i].path = env.asset /\ env.sources[i].url # "none"
             /\ ~(env.sources[i].kind = "package" /\ remoteOnly)
      BY <2>1, <3>1 DEF StartupFileSourced
    <3>3. Fine(env.sources[i], checkouts[env.asset])
      BY <2>1, <3>2 DEF FineAt
    <3> QED
      BY <3>2, <3>3 DEF Fine, environmentRestoreValidateCheckout, Cloned
  <2>4. environmentRestoreCheckStartupAssets(o)
    BY <2>3 DEF environmentRestoreCheckStartupAssets
  <2> QED
    BY <1>2, <1>4, <2>1, <2>2, <2>4 DEF PreflightOK, Usable
<1>12. \A i \in DOMAIN env.sources' : ~(i < run'.next)
  BY <1>4, <1>5, <1>9
<1>13. Repeats' => \A i \in DOMAIN env.sources' : FineAt(i)'
  BY <1>5, <1>8, <1>10
<1>14. checkouts' \in [Paths -> Checkouts]
  BY <1>5 DEF Repeatable
<1> QED
  BY <1>4, <1>5, <1>7, <1>11, <1>12, <1>13, <1>14 DEF Repeatable

\* Where no restore runs, and nothing is claimed of an earlier one.
LEMMA NothingRepeats ==
    ASSUME checkouts' \in [Paths -> Checkouts], ~proven', run'.pc = "idle"
    PROVE  Repeatable'
BY DEF Repeatable, Repeats

LEMMA OthersRepeat ==
    ASSUME Done, Repeatable,
           \/ FinishRestore \/ KillRestore \/ OutsideEvent \/ ContainersAppear \/ UNCHANGED restoreVars
    PROVE  Repeatable'
<1>1. CASE FinishRestore
  <2>1. run' = NoRestore /\ UNCHANGED <<env, remoteOnly, tools, checkouts, proven>>
    BY <1>1 DEF FinishRestore, hostVars
  <2>2. run'.pc = "idle"
    BY <2>1 DEF NoRestore
  <2>3. Quiet' = Quiet /\ (Usable' <=> Usable)
    BY <2>1, QuietStays
  <2>4. \A i : FineAt(i)' <=> FineAt(i)
    BY <2>1 DEF FineAt, Fine, environmentRestoreValidateCheckout
  <2> QED
    BY <2>1, <2>2, <2>3, <2>4 DEF Repeatable, Repeats
<1>2. CASE KillRestore
  <2>1. run'.pc = "idle" /\ ~proven'
    BY <1>2 DEF KillRestore, NoRestore, Repeatable
  <2>2. checkouts' \in [Paths -> Checkouts]
    <3>1. \A p \in Paths : Soiled(p, checkouts[p]) \in Checkouts /\ checkouts[p] \in Checkouts
      BY SoiledType DEF Repeatable
    <3> HIDE DEF Checkouts
    <3> QED
      BY <1>2, <3>1 DEF KillRestore, Repeatable
  <2> QED
    BY <2>1, <2>2, NothingRepeats
<1>3. CASE OutsideEvent
  <2>1. run'.pc = "idle" /\ ~proven'
    BY <1>3 DEF OutsideEvent, At
  <2>2. {"dirty", "foreign", "branch", "empty", "missing"} \subseteq Checkouts
    BY DEF Checkouts, Gitless
  <2>3. checkouts' \in [Paths -> Checkouts]
    BY <1>3, <2>2 DEF OutsideEvent, Repeatable
  <2> QED
    BY <2>1, <2>3, NothingRepeats
<1>4. CASE ContainersAppear \/ UNCHANGED restoreVars
  <2>1. UNCHANGED <<env, remoteOnly, tools, checkouts, run, proven>>
    BY <1>4 DEF ContainersAppear, restoreVars, hostVars
  <2>2. /\ Quiet' = Quiet /\ (Usable' <=> Usable) /\ StartupFileSourced' = StartupFileSourced
    BY <2>1, QuietStays
  <2>3. \A i : FineAt(i)' <=> FineAt(i)
    BY <2>1 DEF FineAt, Fine, environmentRestoreValidateCheckout
  <2>4. (Repeats' <=> Repeats) /\ (Undisturbed' <=> Undisturbed)
    BY <2>1, <2>2 DEF Repeats, Undisturbed
  <2> QED
    BY <2>1, <2>2, <2>3, <2>4 DEF Repeatable
<1> QED
  BY <1>1, <1>2, <1>3, <1>4

LEMMA RepeatableInit ==
    ASSUME RestoreInit
    PROVE  Repeatable
<1>1. checkouts = [p \in Paths |-> "missing"] /\ proven = FALSE /\ run = NoRestore
  BY DEF RestoreInit
<1>2. "missing" \in Checkouts
  BY DEF Checkouts, Gitless
<1> QED
  BY <1>1, <1>2 DEF Repeatable, Repeats, NoRestore

LEMMA RepeatableStep ==
    ASSUME Done, Repeatable, [RestoreNext]_restoreVars
    PROVE  Repeatable'
BY SourcesRepeat, NewRepeats, OthersRepeat, PlansGoOn, DockerGoesOn, LaterGoOn, GoingOnRepeats
   DEF RestoreNext, RestoreStep, environmentRestoreDocker

\* A restore can be repeated: for every environment, number of sources and combination of
\* options, the next one after an ok one finds its tools, startup files and sources in order,
\* under the conditions of RepeatsPrepared.
THEOREM OkRestoresRepeat == RestoreSpec => []RepeatsPrepared
<1>1. RestoreInit => Done /\ Repeatable
  BY DoneInit, RepeatableInit
<1>2. Done /\ Repeatable /\ [RestoreNext]_restoreVars => (Done /\ Repeatable)'
  BY DoneStep, RepeatableStep
<1>3. Repeatable => RepeatsPrepared
  BY DEF Repeatable, Repeats, Undisturbed, Quiet, RepeatsPrepared, SourcesDone, At
<1> QED
  BY <1>1, <1>2, <1>3, PTL DEF RestoreSpec

-----------------------------------------------------------------------------
(* Types.                                                                  *)

Steps == {"idle", "sources", "backup", "down", "commands", "edges", "health", "workflow", "persist",
          "end"}
Workflows == {"not-requested", "passed", "failed"}

HostTyped ==
    /\ remoteOnly \in BOOLEAN /\ tools \subseteq {"git", "docker"}
    /\ written \in BOOLEAN /\ containers \in {"none", "ours", "others"}
    /\ lastRestore.ok \in BOOLEAN /\ proven \in BOOLEAN
    /\ restores \in 0 .. MaxRestores /\ events \in 0 .. MaxEvents

ReportTyped == run.pc \in Steps /\ run.options \in Options /\ run.workflow \in Workflows

LEMMA NewReportTyped == NoRestore.pc \in Steps /\ NoRestore.options \in Options
                            /\ NoRestore.workflow \in Workflows
BY DEF NoRestore, NoOptions, Options, Steps, Workflows

\* A report that another step writes.
LEMMA StepTyped ==
    ASSUME Done, ReportTyped, NEW pc \in Steps, NEW r, DOMAIN r = Report, r.options = run.options,
           r.workflow = run.workflow, run' = [r EXCEPT !.pc = pc]
    PROVE  ReportTyped'
BY DEF ReportTyped, Report

LEMMA DockerEndTyped ==
    ASSUME Done, ReportTyped, NEW ok, DockerEnds(ok)
    PROVE  ReportTyped'
BY ReportFields DEF Done, ReportTyped, DockerEnds, Report, Steps

LEMMA StartsTyped ==
    ASSUME Done, ReportTyped, newEnvironmentRestoreReport \/ environmentRestoreAddSourceReports
    PROVE  ReportTyped'
<1>1. CASE newEnvironmentRestoreReport
  <2>1. PICK o \in Options, seen \in BOOLEAN :
           LET new == [NoRestore EXCEPT
                          !.pc = "sources", !.options = o,
                          !.tooling = ToolsOK,
                          !.conflicts = seen /\ environmentRestoreCheckContainerConflicts(o),
                          !.assets = environmentRestoreCheckStartupAssets(o),
                          !.policy = environmentRestoreSourcePolicyReport,
                          !.again = proven]
           IN  run' = [new EXCEPT !.ok = PreflightOK(new) /\ new.policy /\ env.graph # "bad"]
    BY <1>1 DEF newEnvironmentRestoreReport
  <2> DEFINE new == [NoRestore EXCEPT
                          !.pc = "sources", !.options = o,
                          !.tooling = ToolsOK,
                          !.conflicts = seen /\ environmentRestoreCheckContainerConflicts(o),
                          !.assets = environmentRestoreCheckStartupAssets(o),
                          !.policy = environmentRestoreSourcePolicyReport,
                          !.again = proven]
  <2>2. /\ DOMAIN new = Report /\ new.pc = "sources" /\ new.options = o
        /\ new.workflow = NoRestore.workflow
    BY DEF NoRestore, Report
  <2>3. run' = [new EXCEPT !.ok = PreflightOK(new) /\ new.policy /\ env.graph # "bad"]
    BY <2>1
  <2> HIDE DEF new
  <2>4. run'.pc = "sources" /\ run'.options = o /\ run'.workflow = NoRestore.workflow
    BY <2>2, <2>3 DEF Report
  <2> QED
    BY <2>4, NewReportTyped DEF ReportTyped, Steps
<1>2. CASE environmentRestoreAddSourceReports
  <2> DEFINE s == env.sources[run.next]
  <2>1. PICK outcome \in SourceOutcomes(s, checkouts[s.path]) :
            run' = [run EXCEPT !.next = @ + 1, !.ok = @ /\ outcome.ok,
                        !.package = IF s.kind = "package" THEN outcome.ok ELSE @,
                        !.repos = IF s.kind = "repo" THEN @ /\ outcome.ok ELSE @]
    BY <1>2 DEF environmentRestoreAddSourceReports
  <2>2. run'.pc = run.pc /\ run'.options = run.options /\ run'.workflow = run.workflow
    BY <2>1, ReportFields DEF Done, Report
  <2> QED
    BY <2>2 DEF ReportTyped
<1> QED
  BY <1>1, <1>2

LEMMA PlansTyped ==
    ASSUME Done, ReportTyped,
           \/ environmentRestoreSkippedDockerReport \/ environmentRestorePrepareReposOnlyDockerReport
           \/ environmentRestoreUseExistingContainers \/ environmentRestoreDockerStops
           \/ environmentRestorePrepareDockerExecution
    PROVE  ReportTyped'
<1>1. CASE environmentRestoreSkippedDockerReport \/ environmentRestorePrepareReposOnlyDockerReport
  BY <1>1, DockerEndTyped
  DEF environmentRestoreSkippedDockerReport, environmentRestorePrepareReposOnlyDockerReport
<1>2. CASE environmentRestoreUseExistingContainers
  <2>1. CASE run' = [run EXCEPT !.pc = "edges", !.next = 1]
    BY <2>1, ReportFields DEF Done, ReportTyped, Report, Steps
  <2>2. CASE DockerEnds(~env.outside)
    BY <2>2, DockerEndTyped
  <2> QED
    BY <1>2, <2>1, <2>2 DEF environmentRestoreUseExistingContainers
<1>3. CASE environmentRestoreDockerStops
  <2>1. PICK ok, planned : run' = [run EXCEPT !.pc = "workflow", !.docker = ok, !.ok = ok,
                                              !.planned = planned]
    BY <1>3 DEF environmentRestoreDockerStops
  <2> QED
    BY <2>1, ReportFields DEF Done, ReportTyped, Report, Steps
<1>4. CASE environmentRestorePrepareDockerExecution
  <2>1. PICK planned : planned = [run EXCEPT !.next = 1, !.planned = run.options.cleanup,
                                             !.commands = environmentRestoreDockerPlan]
    OBVIOUS
  <2>2. PICK pc \in Steps : pc = (IF run.options.cleanup THEN "backup" ELSE "commands")
    BY DEF Steps
  <2>3. \/ run' = [planned EXCEPT !.pc = "workflow", !.docker = FALSE, !.ok = FALSE]
        \/ run' = [planned EXCEPT !.pc = pc]
    BY <1>4, <2>1, <2>2 DEF environmentRestorePrepareDockerExecution
  <2>4. DOMAIN planned = Report /\ planned.options = run.options /\ planned.workflow = run.workflow
    BY <2>1, ReportFields DEF Done, Report
  <2> QED
    BY <2>2, <2>3, <2>4 DEF ReportTyped, Report, Steps
<1> QED
  BY <1>1, <1>2, <1>3, <1>4

LEMMA DockerTyped ==
    ASSUME Done, ReportTyped, environmentRestoreRunCleanup \/ environmentRestoreRunCommands
    PROVE  ReportTyped'
<1>1. CASE DockerEnds(FALSE)
  BY <1>1, DockerEndTyped
<1>2. CASE run' = [run EXCEPT !.pc = "down", !.backedUp = TRUE]
  BY <1>2, ReportFields DEF Done, ReportTyped, Report, Steps
<1>3. CASE run' = [run EXCEPT !.pc = "commands"]
  BY <1>3, ReportFields DEF Done, ReportTyped, Report, Steps
<1>4. PICK pc \in Steps : pc = (IF run.next = Len(run.commands) THEN "edges" ELSE "commands")
  BY DEF Steps
<1>5. PICK next : next = (IF run.next = Len(run.commands) THEN 1 ELSE run.next + 1)
  OBVIOUS
<1>6. PICK started : started = (run.started \/ run.commands[run.next] \in {"up", "start"})
  OBVIOUS
<1>7. CASE run' = [run EXCEPT !.started = started, !.next = next, !.pc = pc]
  BY <1>7, ReportFields DEF Done, ReportTyped, Report
<1>8. environmentRestoreRunCommands =>
          \/ run' = [run EXCEPT !.started = started, !.next = next, !.pc = pc]
          \/ DockerEnds(FALSE)
  BY <1>4, <1>5, <1>6 DEF environmentRestoreRunCommands
<1> QED
  BY <1>1, <1>2, <1>3, <1>7, <1>8 DEF environmentRestoreRunCleanup

LEMMA LaterTyped ==
    ASSUME Done, ReportTyped,
           \/ environmentRestoreApplyEdgeAssets \/ waitEnvironmentRestoreHealthChecks
           \/ environmentRestoreMaybeRunWorkflow \/ environmentRestoreMaybePersist
    PROVE  ReportTyped'
<1>1. CASE environmentRestoreApplyEdgeAssets
  <2>1. \/ \E ok : DockerEnds(ok)
        \/ run' = [run EXCEPT !.pc = "health", !.next = 1]
        \/ \E next, applied : run' = [run EXCEPT !.next = next, !.applied = applied]
    BY <1>1 DEF ApplyNext, environmentRestoreApplyEdgeAssets
  <2>2. CASE \E ok : DockerEnds(ok)
    BY <2>2, DockerEndTyped
  <2>3. CASE run' = [run EXCEPT !.pc = "health", !.next = 1]
    BY <2>3, ReportFields DEF Done, ReportTyped, Report, Steps
  <2>4. CASE \E next, applied : run' = [run EXCEPT !.next = next, !.applied = applied]
    BY <2>4, ReportFields DEF Done, ReportTyped, Report
  <2> QED
    BY <2>1, <2>2, <2>3, <2>4
<1>2. CASE waitEnvironmentRestoreHealthChecks
  <2>1. PICK next : next = [run EXCEPT !.next = run.next + 1]
    OBVIOUS
  <2>2. PICK failed : failed = [next EXCEPT !.docker = FALSE, !.ok = FALSE, !.unhealthy = TRUE]
    OBVIOUS
  <2>3. /\ DOMAIN next = Report /\ next.options = run.options /\ next.pc = run.pc
        /\ next.workflow = run.workflow
    BY <2>1, ReportFields DEF Done, Report
  <2>4. /\ DOMAIN failed = Report /\ failed.options = run.options /\ failed.pc = run.pc
        /\ failed.workflow = run.workflow
    BY <2>2, <2>3 DEF Report
  <2>5. \/ \E ok : DockerEnds(ok)
        \/ \E answered : run' = [next EXCEPT !.answered = answered]
        \/ run' = next
        \/ run' = failed
        \/ run' = [failed EXCEPT !.late = TRUE]
    BY <1>2, <2>1, <2>2 DEF waitEnvironmentRestoreHealthChecks
  <2>6. CASE \E ok : DockerEnds(ok)
    BY <2>6, DockerEndTyped
  <2>7. CASE run' = next \/ \E answered : run' = [next EXCEPT !.answered = answered]
    BY <2>3, <2>7 DEF ReportTyped, Report
  <2>8. CASE run' = failed \/ run' = [failed EXCEPT !.late = TRUE]
    BY <2>4, <2>8 DEF ReportTyped, Report
  <2> QED
    BY <2>5, <2>6, <2>7, <2>8
<1>3. CASE environmentRestoreMaybeRunWorkflow
  <2>1. \/ run' = [run EXCEPT !.pc = "persist"]
        \/ \E ok, workflow : /\ run' = [run EXCEPT !.pc = "persist", !.ok = ok, !.workflow = workflow]
                             /\ workflow \in Workflows
    BY <1>3 DEF environmentRestoreMaybeRunWorkflow, Workflows
  <2>2. CASE run' = [run EXCEPT !.pc = "persist"]
    BY <2>2, ReportFields DEF Done, ReportTyped, Report, Steps
  <2>3. ASSUME NEW ok, NEW workflow \in Workflows,
               run' = [run EXCEPT !.pc = "persist", !.ok = ok, !.workflow = workflow]
        PROVE  ReportTyped'
    BY <2>3, ReportFields DEF Done, ReportTyped, Report, Steps
  <2> QED
    BY <2>1, <2>2, <2>3
<1>4. CASE environmentRestoreMaybePersist
  <2>1. \E ok : run' = [run EXCEPT !.pc = "end", !.ok = ok]
    BY <1>4 DEF environmentRestoreMaybePersist
  <2> QED
    BY <2>1, ReportFields DEF Done, ReportTyped, Report, Steps
<1> QED
  BY <1>1, <1>2, <1>3, <1>4

LEMMA ReportTypedStep ==
    ASSUME Done, ReportTyped, [RestoreNext]_restoreVars
    PROVE  ReportTyped'
<1>1. CASE FinishRestore \/ KillRestore
  BY <1>1, NewReportTyped DEF FinishRestore, KillRestore, ReportTyped
<1>2. CASE OutsideEvent \/ ContainersAppear \/ UNCHANGED restoreVars
  BY <1>2 DEF OutsideEvent, ContainersAppear, restoreVars, ReportTyped
<1> QED
  BY <1>1, <1>2, StartsTyped, PlansTyped, DockerTyped, LaterTyped
  DEF RestoreNext, RestoreStep, environmentRestoreDocker

\* The Store and the containers, and what was counted.
LEMMA HostTypedStep ==
    ASSUME HostTyped, [RestoreNext]_restoreVars
    PROVE  HostTyped'
<1>0. MaxRestores \in Nat /\ MaxEvents \in Nat
  BY RestoreConstants
<1>1. CASE newEnvironmentRestoreReport
  <2>1. UNCHANGED <<remoteOnly, tools, written, containers, lastRestore, events>> /\ proven' = FALSE
    BY <1>1 DEF newEnvironmentRestoreReport, hostVars
  <2>2. restores < MaxRestores /\ restores' = restores + 1
    BY <1>1 DEF newEnvironmentRestoreReport
  <2>3. restores' \in 0 .. MaxRestores
    BY <1>0, <2>2 DEF HostTyped
  <2> QED
    BY <2>1, <2>3 DEF HostTyped
<1>2. CASE environmentRestoreAddSourceReports \/ environmentRestoreSkippedDockerReport
           \/ environmentRestoreDockerStops
           \/ environmentRestoreApplyEdgeAssets
           \/ environmentRestoreMaybeRunWorkflow \/ FinishRestore
           \/ UNCHANGED restoreVars
  <2>1. UNCHANGED <<remoteOnly, tools, written, containers, lastRestore, proven, restores, events>>
    BY <1>2 DEF environmentRestoreAddSourceReports, environmentRestoreSkippedDockerReport,
       environmentRestoreDockerStops, environmentRestoreApplyEdgeAssets,
       environmentRestoreMaybeRunWorkflow, FinishRestore, restoreVars, hostVars
  <2> QED
    BY <2>1 DEF HostTyped
<1>3. CASE waitEnvironmentRestoreHealthChecks
  <2>1. UNCHANGED <<remoteOnly, tools, written, containers, lastRestore, proven, restores, events>>
    BY <1>3 DEF waitEnvironmentRestoreHealthChecks, hostVars
  <2> QED
    BY <2>1 DEF HostTyped
<1>4. CASE environmentRestorePrepareReposOnlyDockerReport \/ environmentRestoreUseExistingContainers
           \/ environmentRestorePrepareDockerExecution
  <2>1. UNCHANGED <<remoteOnly, tools, containers, lastRestore, proven, restores, events>>
    BY <1>4 DEF environmentRestorePrepareReposOnlyDockerReport,
       environmentRestoreUseExistingContainers, environmentRestorePrepareDockerExecution
  <2>2. written' \in BOOLEAN
    BY <1>4 DEF environmentRestorePrepareReposOnlyDockerReport, HostTyped,
       environmentRestoreUseExistingContainers, environmentRestorePrepareDockerExecution,
       WriteGeneratedFiles
  <2> QED
    BY <2>1, <2>2 DEF HostTyped
<1>5. CASE environmentRestoreRunCleanup \/ environmentRestoreRunCommands
  <2>1. UNCHANGED <<remoteOnly, tools, written, lastRestore, proven, restores, events>>
    BY <1>5 DEF environmentRestoreRunCleanup, environmentRestoreRunCommands
  <2>2. containers' \in {containers, "none", "ours"}
    BY <1>5 DEF environmentRestoreRunCleanup, environmentRestoreRunCommands, PartlyDone
  <2> QED
    BY <2>1, <2>2 DEF HostTyped
<1>6. CASE environmentRestoreMaybePersist
  <2>1. PICK ok \in BOOLEAN : ok = (run.ok /\ environmentRestoreReadinessReport)
    OBVIOUS
  <2>2. PICK full \in BOOLEAN : full = (ok /\ run.options.execute /\ ~run.options.prepare)
    OBVIOUS
  <2>3. \/ lastRestore' = SavedAttempt(ok) /\ proven' = full
        \/ UNCHANGED <<lastRestore, proven>>
    BY <1>6, <2>1, <2>2 DEF environmentRestoreMaybePersist
  <2>4. SavedAttempt(ok).ok = ok
    BY DEF SavedAttempt
  <2>5. UNCHANGED <<remoteOnly, tools, written, containers, restores, events>>
    BY <1>6 DEF environmentRestoreMaybePersist, hostVars
  <2> QED
    BY <2>3, <2>4, <2>5 DEF HostTyped
<1>7. CASE KillRestore
  <2>1. UNCHANGED <<remoteOnly, tools, written, lastRestore, proven, restores, events>>
    BY <1>7 DEF KillRestore
  <2>2. containers' \in {containers, "none", "ours"}
    BY <1>7 DEF KillRestore, PartlyDone
  <2> QED
    BY <2>1, <2>2 DEF HostTyped
<1>8. CASE OutsideEvent
  <2>1. UNCHANGED <<remoteOnly, lastRestore, restores>> /\ proven' = FALSE
        /\ events < MaxEvents /\ events' = events + 1
    BY <1>8 DEF OutsideEvent
  <2>2. tools' \subseteq tools /\ written' \in {written, FALSE}
        /\ containers' \in {containers, "none", "others"}
    BY <1>8 DEF OutsideEvent
  <2>3. events' \in 0 .. MaxEvents
    BY <1>0, <2>1 DEF HostTyped
  <2> QED
    BY <2>1, <2>2, <2>3 DEF HostTyped
<1>9. CASE ContainersAppear
  BY <1>0, <1>9 DEF ContainersAppear, HostTyped
<1> QED
  BY <1>1, <1>2, <1>3, <1>4, <1>5, <1>6, <1>7, <1>8, <1>9
  DEF RestoreNext, RestoreStep, environmentRestoreDocker

\* A checkout is always in a state that git can leave it in, and a report at a step of a
\* restore (RestoreTypeOK), for every environment and number of restores and outside events.
THEOREM RestoresKeepTypes == RestoreSpec => []RestoreTypeOK
<1>1. RestoreInit => Done /\ Repeatable /\ HostTyped /\ ReportTyped
  <2> SUFFICES ASSUME RestoreInit PROVE Done /\ Repeatable /\ HostTyped /\ ReportTyped
    OBVIOUS
  <2>1. HostTyped
    <3>1. 0 \in 0 .. MaxRestores /\ 0 \in 0 .. MaxEvents
      BY RestoreConstants
    <3>2. NoAttempt.ok \in BOOLEAN
      BY DEF NoAttempt
    <3> QED
      BY <3>1, <3>2 DEF RestoreInit, HostTyped
  <2>2. ReportTyped
    BY NewReportTyped DEF RestoreInit, ReportTyped
  <2> QED
    BY <2>1, <2>2, DoneInit, RepeatableInit
<1>2. Done /\ Repeatable /\ HostTyped /\ ReportTyped /\ [RestoreNext]_restoreVars
          => (Done /\ Repeatable /\ HostTyped /\ ReportTyped)'
  BY DoneStep, RepeatableStep, HostTypedStep, ReportTypedStep
<1>3. Done /\ Repeatable /\ HostTyped /\ ReportTyped => RestoreTypeOK
  BY DEF Done, Repeatable, HostTyped, ReportTyped, RestoreTypeOK, Steps, Workflows
<1> QED
  BY <1>1, <1>2, <1>3, PTL DEF RestoreSpec
=============================================================================
