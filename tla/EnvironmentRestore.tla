------------------------- MODULE EnvironmentRestore -------------------------
(***************************************************************************)
(* "environment restore": preflight, sources, Docker, edge assets, health  *)
(* checks, verification workflow, readiness and the record of the attempt. *)
(*                                                                         *)
(* One restore runs at a time, on a host that earlier restores, its user   *)
(* and other programs leave in any state; a restore may be killed between  *)
(* two of its steps and is then started again.  git, docker and the control *)
(* plane are external: a command succeeds or fails.                         *)
(*                                                                         *)
(* Abstractions: a checkout is its git state (a ref stands for "clean and   *)
(* detached at that ref"); containers are one group; a health check is its  *)
(* form and the service it names.                                           *)
(***************************************************************************)
EXTENDS Naturals, Sequences, SequencesExt, FiniteSets

CONSTANTS Environments,  \* what the Store may record of the environment
          Paths,         \* checkout directories; "workspace" contains the others
          Refs,          \* refs a source may be pinned to
          Services,      \* compose services
          MaxRestores,   \* bound: restores started
          MaxEvents      \* bound: what users and other programs do to the host

Sources == [kind : {"package", "repo", "asset"}, path : Paths,
            url : {"none", "remote", "local"}, ref : Refs \cup {"none"}]

\* "typed" checks have a type but no kind; "blank" ones lack the target of their kind.
Checks == [form : {"probe", "typed", "blank", "unsupported"}, service : Services \cup {"none"}]

\* SQL or a migration, applied to a compose service; and a file that is generated.
AssetNames == {"sql", "generated"}

Gitless == {"missing", "empty", "plain"}
Checkouts == Gitless \cup {"foreign", "dirty", "branch"} \cup Refs

ASSUME RestoreConstants ==
    /\ "workspace" \in Paths
    /\ Refs \cap (Gitless \cup {"foreign", "dirty", "branch", "none"}) = {}
    /\ MaxRestores \in Nat /\ MaxEvents \in Nat /\ IsFiniteSet(Services)
    /\ \A e \in Environments :
          /\ e.sources \in Seq(Sources)          \* package, repositories, remote assets
          /\ e.compose \in Paths \cup {"generated", "none"}  \* where its compose file comes from
          /\ e.asset \in Paths \cup {"generated", "none"}    \* a file the compose file mounts
          /\ e.start \in BOOLEAN                 \* a start command is recorded
          /\ e.outside \in BOOLEAN               \* a generated file lies outside the workspace
          /\ e.writes \subseteq Paths            \* checkouts that see what a restore writes
          /\ e.named \in BOOLEAN                 \* containers have fixed names
          /\ e.skips \subseteq {"pull", "build"}
          /\ e.selected \cup e.defined \cup e.required \cup e.builds \subseteq Services
          /\ e.checks \in Seq(Checks)            \* recorded health checks
          /\ e.gates \in Seq(Services)           \* services with a component health check
          /\ e.graph \in {"none", "ok", "bad"}
          /\ e.assets \subseteq AssetNames      \* config assets of the graph
          /\ e.edges \in Seq(AssetNames)        \* assets that its edges name
          /\ e.graph = "none" => e.assets = {} /\ e.edges = << >>

VARIABLES env,         \* the environment
          remoteOnly,  \* the Store is MySQL or PostgreSQL
          tools,       \* git and docker, as far as they are installed
          checkouts,   \* per path: its git state
          written,     \* generated files are in the workspace
          containers,  \* "none", "ours" or "others"
          run,         \* the restore
          lastRestore, \* what the Store keeps of the last attempt
          proven,      \* the last restore was ok, and nothing happened since
          restores, events

hostVars == <<tools, checkouts, written, containers>>
restoreVars == <<env, remoteOnly, hostVars, run, lastRestore, proven, restores, events>>

Options == [execute : BOOLEAN, pull : BOOLEAN, prepare : BOOLEAN, workflow : BOOLEAN,
            adopt : BOOLEAN, cleanup : BOOLEAN, allowed : BOOLEAN, assumeClean : BOOLEAN]

validateEnvironmentRestoreCommandFlags(o) ==
    /\ o.workflow \/ o.prepare => o.execute
    /\ ~(o.prepare /\ o.workflow)
    /\ ~(o.adopt /\ o.cleanup)
    /\ o.assumeClean => ~o.execute /\ ~o.adopt /\ ~o.cleanup

NoOptions == [execute |-> FALSE, pull |-> FALSE, prepare |-> FALSE, workflow |-> FALSE,
              adopt |-> FALSE, cleanup |-> FALSE, allowed |-> FALSE, assumeClean |-> FALSE]

\* A new report; preflight, policy and graph are filled in by the first step.
NoRestore == [pc |-> "idle", options |-> NoOptions, next |-> 1, commands |-> << >>, ok |-> TRUE,
              tooling |-> TRUE, conflicts |-> FALSE, assets |-> TRUE, policy |-> TRUE,
              package |-> TRUE, repos |-> TRUE, docker |-> TRUE, planned |-> FALSE,
              backedUp |-> FALSE, started |-> FALSE, applied |-> {}, late |-> FALSE,
              unhealthy |-> FALSE, answered |-> {}, workflow |-> "not-requested", again |-> FALSE]

NoAttempt == [ok |-> FALSE, phase |-> "none"]

RestoreInit ==
    /\ env \in Environments
    /\ remoteOnly \in BOOLEAN
    /\ tools = {"git", "docker"}
    /\ checkouts = [p \in Paths |-> "missing"]
    /\ written = FALSE
    /\ containers = "none"
    /\ run = NoRestore
    /\ lastRestore = NoAttempt
    /\ proven = FALSE
    /\ restores = 0
    /\ events = 0

At(pc) == run.pc = pc

-----------------------------------------------------------------------------
(* Preflight and policy.                                                   *)

Cloned(path) == checkouts[path] \notin Gitless

\* The text of the compose file can be read: from the Store or from the workspace.
Inspected == env.compose = "generated" \/ (env.compose \in Paths /\ Cloned(env.compose))

environmentRestorePreflightRequiresGit ==
    \E i \in DOMAIN env.sources : env.sources[i].kind # "asset"
        /\ (env.sources[i].url # "none" \/ env.sources[i].ref # "none")

ToolsOK ==
    /\ environmentRestorePreflightRequiresGit => "git" \in tools
    /\ env.compose # "none" => "docker" \in tools

\* Fixed container names that exist already.
environmentRestoreContainerNameConflicts == env.named /\ Inspected /\ containers # "none"

\* Mutant: adopted and removed containers count as conflicts.
AnyContainerConflicts(o) == env.compose # "none" /\ environmentRestoreContainerNameConflicts

environmentRestoreCheckContainerConflicts(o) ==
    /\ env.compose # "none"
    /\ ~(o.cleanup \/ o.assumeClean \/ o.prepare \/ o.adopt)
    /\ environmentRestoreContainerNameConflicts

environmentRestoreStartupAssetAvailable ==
    env.asset \in Paths /\ Inspected => Cloned(env.asset)

environmentRestoreCheckStartupAssets(o) ==
    env.compose # "none" /\ ~o.prepare /\ ~o.adopt => environmentRestoreStartupAssetAvailable

environmentRestoreSourcePolicyReport ==
    remoteOnly => \A i \in DOMAIN env.sources :
                      env.sources[i].kind = "repo" => env.sources[i].url # "local"

PreflightOK(r) == r.tooling /\ ~r.conflicts /\ r.assets

\* "docker ps" may fail or time out: then there are no conflicts.
newEnvironmentRestoreReport ==
    /\ At("idle")
    /\ restores < MaxRestores
    /\ \E o \in Options, seen \in BOOLEAN :
          /\ validateEnvironmentRestoreCommandFlags(o)
          /\ LET new == [NoRestore EXCEPT
                            !.pc = "sources", !.options = o,
                            !.tooling = ToolsOK,
                            !.conflicts = seen /\ environmentRestoreCheckContainerConflicts(o),
                            !.assets = environmentRestoreCheckStartupAssets(o),
                            !.policy = environmentRestoreSourcePolicyReport,
                            !.again = proven]
             IN  run' = [new EXCEPT !.ok = PreflightOK(new) /\ new.policy /\ env.graph # "bad"]
    /\ restores' = restores + 1
    /\ proven' = FALSE
    /\ UNCHANGED <<env, remoteOnly, hostVars, lastRestore, events>>

-----------------------------------------------------------------------------
(* Sources: git clone, checkout, fetch and pull of one checkout.           *)

\* An outcome is whether the source is ok and the state it leaves.
Outcome(ok, state) == [ok |-> ok, state |-> state]

environmentRestoreCloneIntoCheckout(s, state) ==
    {Outcome(FALSE, state)} \cup
    IF s.ref = "none" THEN {Outcome(TRUE, "branch")}
    ELSE {Outcome(TRUE, s.ref), Outcome(FALSE, "branch")}

environmentRestoreMissingRepo(s, state, execute) ==
    IF s.url = "none" THEN {Outcome(FALSE, state)}
    ELSE IF execute THEN environmentRestoreCloneIntoCheckout(s, state)
    ELSE {Outcome(TRUE, state)}

environmentRestoreValidateCheckout(s, state) ==
    state \notin Gitless \cup {"dirty"} /\ (s.url # "none" => state # "foreign")

\* Mutant: a checkout is left at the ref it is at.
KeepRef(s, state, execute) == {Outcome(TRUE, state)}

environmentRestoreExistingRef(s, state, execute) ==
    IF state = s.ref \/ ~execute THEN {Outcome(TRUE, state)}
    ELSE {Outcome(TRUE, s.ref), Outcome(FALSE, state)}

\* "pull --ff-only" needs a branch.
environmentRestorePullExisting(state) ==
    {Outcome(FALSE, state)} \cup IF state = "branch" THEN {Outcome(TRUE, state)} ELSE {}

environmentRestoreExistingRepo(s, state, execute, pull) ==
    IF s.url = "none" /\ s.ref = "none" THEN {Outcome(TRUE, state)}
    ELSE IF ~environmentRestoreValidateCheckout(s, state) THEN {Outcome(FALSE, state)}
    ELSE IF s.ref # "none" THEN environmentRestoreExistingRef(s, state, execute)
    ELSE IF execute /\ pull THEN environmentRestorePullExisting(state)
    ELSE {Outcome(TRUE, state)}

environmentRestoreRepo(s, state, execute, pull) ==
    IF state = "missing" \/ (state = "empty" /\ s.url # "none")
    THEN environmentRestoreMissingRepo(s, state, execute)
    ELSE environmentRestoreExistingRepo(s, state, execute, pull)

\* MySQL and PostgreSQL restores ignore the package; a remote asset needs a remote URL.
SourceOutcomes(s, state) ==
    IF s.kind = "package" /\ remoteOnly THEN {Outcome(TRUE, state)}
    ELSE IF s.kind = "asset" /\ s.url # "remote" THEN {Outcome(FALSE, state)}
    ELSE environmentRestoreRepo(s, state, run.options.execute, run.options.pull)

\* Mutant: a state that is none.
Unknown(path, state) == "unknown"

\* What a checkout becomes when a restore writes a file into it.
Soiled(path, state) ==
    IF state \in {"missing", "empty"} THEN "plain"
    ELSE IF path \in env.writes /\ state \notin Gitless \cup {"foreign"} THEN "dirty"
    ELSE state

\* A clone inside the workspace, or the copy of an asset, is a change of the workspace.
Prepared(s, outcome) ==
    LET placed == [checkouts EXCEPT ![s.path] = outcome.state]
        changes == outcome.state # checkouts[s.path]
                       \/ (s.kind = "asset" /\ outcome.ok /\ run.options.execute)
    IN  IF changes /\ ~(s.path = "workspace" /\ s.kind # "asset")
        THEN [placed EXCEPT !["workspace"] = Soiled("workspace", placed["workspace"])]
        ELSE placed

\* All sources are prepared, also after a failed preflight or a failed source.
environmentRestoreAddSourceReports ==
    /\ At("sources")
    /\ run.next <= Len(env.sources)
    /\ LET s == env.sources[run.next]
       IN  \E outcome \in SourceOutcomes(s, checkouts[s.path]) :
              /\ checkouts' = Prepared(s, outcome)
              /\ run' = [run EXCEPT !.next = @ + 1, !.ok = @ /\ outcome.ok,
                            !.package = IF s.kind = "package" THEN outcome.ok ELSE @,
                            !.repos = IF s.kind = "repo" THEN @ /\ outcome.ok ELSE @]
    /\ UNCHANGED <<env, remoteOnly, tools, written, containers, lastRestore, proven, restores,
                   events>>

-----------------------------------------------------------------------------
(* Docker.                                                                 *)

GeneratedFiles == env.compose = "generated" \/ env.asset = "generated"

\* prepareEnvironmentRestoreGeneratedFiles and the env file, with execute.
WriteGeneratedFiles ==
    /\ written' = (written \/ GeneratedFiles)
    /\ checkouts' = IF GeneratedFiles
                    THEN [p \in Paths |-> IF p \in env.writes \cup {"workspace"}
                                          THEN Soiled(p, checkouts[p]) ELSE checkouts[p]]
                    ELSE checkouts

\* Docker is done; the report goes on with the workflow.
DockerEnds(ok) == run' = [run EXCEPT !.pc = "workflow", !.docker = ok, !.ok = @ /\ ok]

SourcesDone == At("sources") /\ run.next > Len(env.sources)

environmentRestoreSkippedDockerReport ==
    /\ SourcesDone /\ ~run.ok
    /\ DockerEnds(FALSE)
    /\ UNCHANGED <<env, remoteOnly, hostVars, lastRestore, proven, restores, events>>

environmentRestorePrepareReposOnlyDockerReport ==
    /\ SourcesDone /\ run.ok /\ run.options.prepare
    /\ WriteGeneratedFiles
    /\ DockerEnds(~env.outside)
    /\ UNCHANGED <<env, remoteOnly, tools, containers, lastRestore, proven, restores, events>>

environmentRestoreUseExistingContainers ==
    /\ SourcesDone /\ run.ok /\ ~run.options.prepare /\ run.options.adopt
    /\ IF run.options.execute THEN WriteGeneratedFiles ELSE UNCHANGED <<written, checkouts>>
    /\ IF env.outside \/ ~run.options.execute THEN DockerEnds(~env.outside)
       ELSE run' = [run EXCEPT !.pc = "edges", !.next = 1]
    /\ UNCHANGED <<env, remoteOnly, tools, containers, lastRestore, proven, restores, events>>

\* Images are pulled and built for the allow-list, or for what the compose file defines.
environmentRestoreComposeCommandServices ==
    LET services == IF env.selected # {} THEN env.selected
                    ELSE IF Inspected THEN env.defined ELSE {}
        builds == IF Inspected THEN services \cap env.builds ELSE {}
    IN  [pull |-> services \ builds, build |-> builds]

environmentRestorePlanComposeCommands ==
    LET services == environmentRestoreComposeCommandServices
        When(name) == IF name \in env.skips \/ services[name] = {} THEN << >> ELSE <<name>>
    IN  When("pull") \o When("build") \o <<"up">>

HasDockerPlan == env.compose # "none" \/ (env.start /\ ~run.options.cleanup)

environmentRestoreDockerPlan ==
    IF env.compose # "none" THEN environmentRestorePlanComposeCommands ELSE <<"start">>

\* Stops before execution: no plan, a dry run, or a generated file outside the workspace.
environmentRestoreDockerStops ==
    /\ SourcesDone /\ run.ok /\ ~run.options.prepare /\ ~run.options.adopt
    /\ ~HasDockerPlan \/ ~run.options.execute
    /\ run' = [run EXCEPT !.pc = "workflow",
                          !.docker = HasDockerPlan /\ ~env.outside,
                          !.ok = HasDockerPlan /\ ~env.outside,
                          !.planned = env.compose # "none" /\ run.options.cleanup]
    /\ UNCHANGED <<env, remoteOnly, hostVars, lastRestore, proven, restores, events>>

\* Files are written, the compose file must be there, and a cleanup must be allowed.
environmentRestorePrepareDockerExecution ==
    /\ SourcesDone /\ run.ok /\ ~run.options.prepare /\ ~run.options.adopt
    /\ HasDockerPlan /\ run.options.execute
    /\ WriteGeneratedFiles
    /\ LET cleanup == run.options.cleanup
           planned == [run EXCEPT !.next = 1, !.planned = cleanup,
                                  !.commands = environmentRestoreDockerPlan]
           fails == [planned EXCEPT !.pc = "workflow", !.docker = FALSE, !.ok = FALSE]
       IN  run' = IF \/ env.outside
                     \/ env.compose \in Paths /\ ~Cloned(env.compose)
                     \/ cleanup /\ ~run.options.allowed
                  THEN fails
                  ELSE [planned EXCEPT !.pc = IF cleanup THEN "backup" ELSE "commands"]
    /\ UNCHANGED <<env, remoteOnly, tools, containers, lastRestore, proven, restores, events>>

\* Mutant: containers are removed without the review commands.
CleanupAtOnce ==
    /\ At("backup")
    /\ run' = [run EXCEPT !.pc = "commands"]
    /\ containers' = IF containers = "ours" THEN "none" ELSE containers
    /\ UNCHANGED <<env, remoteOnly, tools, checkouts, written, lastRestore, proven, restores,
                   events>>

\* The review commands come first; "down" removes the containers of the project.
environmentRestoreRunCleanup ==
    /\ \/ At("backup") /\ run' = [run EXCEPT !.pc = "down", !.backedUp = TRUE]
                       /\ UNCHANGED containers
       \/ At("down") /\ run' = [run EXCEPT !.pc = "commands"]
                     /\ containers' = IF containers = "ours" THEN "none" ELSE containers
       \/ run.pc \in {"backup", "down"} /\ DockerEnds(FALSE) /\ UNCHANGED containers
    /\ UNCHANGED <<env, remoteOnly, tools, checkouts, written, lastRestore, proven, restores,
                   events>>

\* What a command that failed or was killed may have done to the containers.
PartlyDone ==
    {containers} \cup
    IF At("commands") /\ run.commands[run.next] \in {"up", "start"} /\ containers = "none"
    THEN {"ours"}
    ELSE IF At("down") /\ containers = "ours" THEN {"none"} ELSE {}

\* A name that others hold makes "up" fail.
environmentRestoreRunCommands ==
    /\ At("commands")
    /\ LET command == run.commands[run.next]
           starts == command \in {"up", "start"}
           last == run.next = Len(run.commands)
       IN  \/ /\ starts => ~(env.named /\ containers = "others")
              /\ containers' = IF starts THEN "ours" ELSE containers
              /\ run' = [run EXCEPT !.started = @ \/ starts,
                                    !.next = IF last THEN 1 ELSE @ + 1,
                                    !.pc = IF last THEN "edges" ELSE "commands"]
           \/ DockerEnds(FALSE) /\ containers' \in PartlyDone
    /\ UNCHANGED <<env, remoteOnly, tools, checkouts, written, lastRestore, proven, restores,
                   events>>

-----------------------------------------------------------------------------
(* Edge assets and health checks.                                          *)

\* A graph without config assets has nothing to apply, whatever its edges name.
EdgeAssets == IF env.assets = {} THEN << >> ELSE env.edges

\* An asset the graph lacks fails; a generated file is only looked for.
environmentRestoreApplyEdgeAsset(name) ==
    CASE name \notin env.assets -> {FALSE}
      [] name \in env.assets /\ name = "generated" -> {GeneratedFiles /\ written}
      [] name \in env.assets /\ name = "sql" -> IF env.compose = "none" THEN {FALSE} ELSE BOOLEAN

\* The next asset is applied or fails.
ApplyNext ==
    \E ok \in environmentRestoreApplyEdgeAsset(EdgeAssets[run.next]) :
        run' = [run EXCEPT !.next = @ + 1,
                           !.applied = @ \cup {i \in {run.next} : ok}]

\* Mutant: failed assets are reported and forgotten.
IgnoreFailedAssets ==
    /\ At("edges")
    /\ IF run.next <= Len(EdgeAssets) THEN ApplyNext
       ELSE run' = [run EXCEPT !.pc = "health", !.next = 1]
    /\ UNCHANGED <<env, remoteOnly, hostVars, lastRestore, proven, restores, events>>

\* All are tried; then a failure ends Docker.
environmentRestoreApplyEdgeAssets ==
    /\ At("edges")
    /\ IF run.next <= Len(EdgeAssets) THEN ApplyNext
       ELSE IF DOMAIN EdgeAssets \subseteq run.applied
       THEN run' = [run EXCEPT !.pc = "health", !.next = 1]
       ELSE DockerEnds(FALSE)
    /\ UNCHANGED <<env, remoteOnly, hostVars, lastRestore, proven, restores, events>>

Probe(service) == [form |-> "probe", service |-> service]

\* The entries of a list at the given places, in their order.
Picked(list, places) ==
    [n \in 1 .. Cardinality(places) |->
        list[CHOOSE i \in places : Cardinality({j \in places : j < i}) = n - 1]]

\* Recorded checks and component checks of started services; and a check of its own for
\* every service of the allow-list that none of them covers.
RecordedHealthChecks ==
    LET started == {i \in DOMAIN env.gates : env.selected = {} \/ env.gates[i] \in env.selected}
        gates == Picked(env.gates, started)
    IN  env.checks \o [i \in DOMAIN gates |-> Probe(gates[i])]

environmentRestoreEffectiveHealthChecks ==
    LET named == RecordedHealthChecks
        covered == {named[i].service : i \in {j \in DOMAIN named : named[j].form # "unsupported"}}
        defaults == SetToSeq(env.selected \ covered)
    IN  named \o [i \in DOMAIN defaults |-> Probe(defaults[i])]

\* A probe (url, tcp, command, compose service or container) answers in time.
Answers(form) == form = "probe" /\ ~run.late

\* Time is spent by probes only.
DeadlineMayPass(checks) == \E i \in 1 .. run.next : checks[i].form = "probe"

\* One check, in the time that the earlier ones left: a check without a target of a known
\* kind is skipped, an unsupported one fails, and all that follow the deadline fail.
waitEnvironmentRestoreHealthChecks ==
    LET checks == environmentRestoreEffectiveHealthChecks
        form == checks[run.next].form
        next == [run EXCEPT !.next = @ + 1]
        failed == [next EXCEPT !.docker = FALSE, !.ok = FALSE, !.unhealthy = TRUE]
    IN  /\ At("health")
        /\ IF run.next > Len(checks) THEN DockerEnds(run.docker)
           ELSE \/ Answers(form)
                      /\ run' = [next EXCEPT !.answered = @ \cup {run.next}]
                \/ form \in {"typed", "blank"} /\ ~run.late /\ run' = next
                \/ form = "unsupported" /\ run' = failed
                \/ DeadlineMayPass(checks) /\ run' = [failed EXCEPT !.late = TRUE]
        /\ UNCHANGED <<env, remoteOnly, hostVars, lastRestore, proven, restores, events>>

-----------------------------------------------------------------------------
(* Workflow, readiness and the record.                                     *)

\* The verification workflow is started on the control plane and its acceptance awaited:
\* it passes, fails, or is not there in time.
environmentRestoreRunWorkflow == BOOLEAN

environmentRestoreMaybeRunWorkflow ==
    /\ At("workflow")
    /\ IF run.ok /\ run.options.workflow
       THEN \E passed \in environmentRestoreRunWorkflow :
                run' = [run EXCEPT !.pc = "persist", !.ok = passed,
                                   !.workflow = IF passed THEN "passed" ELSE "failed"]
       ELSE run' = [run EXCEPT !.pc = "persist"]
    /\ UNCHANGED <<env, remoteOnly, hostVars, lastRestore, proven, restores, events>>

environmentRestoreComponentReadiness == IF remoteOnly THEN env.graph = "ok" ELSE env.graph # "bad"

environmentRestoreStoreStartupFilesReady ==
    env.compose = "generated" \/ (env.compose = "none" /\ env.start)

environmentRestoreComposeServiceReadiness ==
    env.compose # "none" /\ env.graph = "ok" =>
        /\ env.selected # {} => env.required \subseteq env.selected
        /\ Inspected => env.required \subseteq env.defined

environmentRestoreCleanupReadiness ==
    run.options.cleanup => run.planned /\ (run.options.execute => run.options.allowed)

environmentRestoreSourceReadiness ==
    /\ remoteOnly => run.policy /\ environmentRestoreStoreStartupFilesReady
    /\ run.package /\ run.repos

environmentRestoreReadinessReport ==
    /\ environmentRestoreComponentReadiness
    /\ ~run.conflicts /\ run.assets
    /\ environmentRestoreSourceReadiness
    /\ run.docker
    /\ environmentRestoreComposeServiceReadiness
    /\ environmentRestoreEffectiveHealthChecks # << >>
    /\ environmentRestoreCleanupReadiness
    /\ run.workflow # "failed"

environmentRestorePhase(ok) ==
    LET checks == environmentRestoreEffectiveHealthChecks
    IN  CASE ok -> "completed"
          [] ~ok /\ ~PreflightOK(run) -> "preflight"
          [] ~ok /\ PreflightOK(run) /\ ~run.package -> "package"
          [] ~ok /\ PreflightOK(run) /\ run.package /\ ~run.repos -> "repository"
          [] OTHER -> IF ~run.docker THEN IF run.unhealthy THEN "health-check" ELSE "docker"
                      ELSE IF ~environmentRestoreReadinessReport THEN "readiness"
                      ELSE "completed"

SavedAttempt(ok) == [ok |-> ok, phase |-> environmentRestorePhase(ok)]

\* The whole row is written; a Store error leaves the old record and fails the restore.
environmentRestoreMaybePersist ==
    /\ At("persist")
    /\ LET ok == run.ok /\ environmentRestoreReadinessReport
       IN  \/ /\ lastRestore' = SavedAttempt(ok)
              /\ run' = [run EXCEPT !.pc = "end", !.ok = ok]
              /\ proven' = (ok /\ run.options.execute /\ ~run.options.prepare)
           \/ /\ run' = [run EXCEPT !.pc = "end", !.ok = FALSE]
              /\ UNCHANGED <<lastRestore, proven>>
    /\ UNCHANGED <<env, remoteOnly, hostVars, restores, events>>

FinishRestore ==
    /\ At("end")
    /\ run' = NoRestore
    /\ UNCHANGED <<env, remoteOnly, hostVars, lastRestore, proven, restores, events>>

-----------------------------------------------------------------------------
(* Faults and the world outside.                                           *)

\* A killed clone leaves its directory without a usable repository; Docker may finish what
\* a killed command began.
KillRestore ==
    /\ run.pc \notin {"idle", "end"}
    /\ run' = NoRestore
    /\ \/ UNCHANGED checkouts
       \/ /\ At("sources") /\ run.next <= Len(env.sources) /\ run.options.execute
          /\ LET path == env.sources[run.next].path
             IN  /\ checkouts[path] \in {"missing", "empty"}
                 /\ checkouts' = [p \in Paths |->
                        IF p \in {path, "workspace"} THEN Soiled(p, checkouts[p]) ELSE checkouts[p]]
    /\ containers' \in PartlyDone
    /\ UNCHANGED <<env, remoteOnly, tools, written, lastRestore, proven, restores, events>>

\* Someone edits or replaces a checkout, empties the workspace, removes a tool, removes
\* the containers or starts others of the same names.
OutsideEvent ==
    /\ At("idle")
    /\ events < MaxEvents
    /\ events' = events + 1
    /\ proven' = FALSE
    /\ \/ \E p \in Paths : /\ checkouts[p] \notin Gitless
                           /\ \E s \in {"dirty", "foreign", "branch"} :
                                  checkouts' = [checkouts EXCEPT ![p] = s]
                           /\ UNCHANGED <<tools, written, containers>>
       \/ /\ checkouts' = [p \in Paths |-> IF p = "workspace" THEN "empty" ELSE "missing"]
          /\ written' = FALSE
          /\ UNCHANGED <<tools, containers>>
       \/ \E t \in tools : tools' = tools \ {t} /\ UNCHANGED <<checkouts, written, containers>>
       \/ \E c \in {"none", "others"} : containers' = c /\ UNCHANGED <<tools, checkouts, written>>
    /\ UNCHANGED <<env, remoteOnly, run, lastRestore, restores>>

\* Other containers take the names while a restore runs, after it looked for them.
ContainersAppear ==
    /\ run.pc \notin {"idle", "end"}
    /\ containers = "none"
    /\ events < MaxEvents
    /\ events' = events + 1
    /\ containers' = "others"
    /\ UNCHANGED <<env, remoteOnly, tools, checkouts, written, run, lastRestore, proven, restores>>

environmentRestoreDocker ==
    \/ environmentRestoreDockerStops \/ environmentRestorePrepareDockerExecution
    \/ environmentRestoreRunCleanup \/ environmentRestoreRunCommands

RestoreStep ==
    \/ newEnvironmentRestoreReport
    \/ environmentRestoreAddSourceReports
    \/ environmentRestoreSkippedDockerReport
    \/ environmentRestorePrepareReposOnlyDockerReport
    \/ environmentRestoreUseExistingContainers
    \/ environmentRestoreDocker
    \/ environmentRestoreApplyEdgeAssets
    \/ waitEnvironmentRestoreHealthChecks
    \/ environmentRestoreMaybeRunWorkflow
    \/ environmentRestoreMaybePersist
    \/ FinishRestore

RestoreNext == RestoreStep \/ KillRestore \/ OutsideEvent \/ ContainersAppear

RestoreSpec == RestoreInit /\ [][RestoreNext]_restoreVars

-----------------------------------------------------------------------------
(* Properties.                                                             *)

\* Type correctness.
RestoreTypeOK ==
    /\ env \in Environments /\ remoteOnly \in BOOLEAN
    /\ tools \subseteq {"git", "docker"}
    /\ checkouts \in [Paths -> Checkouts]
    /\ written \in BOOLEAN /\ containers \in {"none", "ours", "others"}
    /\ run.pc \in {"idle", "sources", "backup", "down", "commands", "edges", "health",
                   "workflow", "persist", "end"}
    /\ run.options \in Options /\ run.next \in Nat \ {0} /\ run.ok \in BOOLEAN
    /\ run.workflow \in {"not-requested", "passed", "failed"}
    /\ lastRestore.ok \in BOOLEAN /\ proven \in BOOLEAN
    /\ restores \in 0 .. MaxRestores /\ events \in 0 .. MaxEvents

\* A checkout that two sources use holds the one prepared last.
Shared(i) ==
    \E j \in DOMAIN env.sources : j # i /\ env.sources[j].path = env.sources[i].path

\* Docker is touched only when the preflight, the graph and every source of this very
\* restore passed, each repository is at its recorded ref, the compose file is there,
\* and it was not a dry run or a preparation.
DockerStartsPrepared ==
    run.pc \in {"backup", "down", "commands"} =>
        /\ run.options.execute /\ ~run.options.prepare /\ ~run.options.adopt
        /\ PreflightOK(run) /\ run.policy /\ run.package /\ run.repos /\ env.graph # "bad"
        /\ env.compose \in Paths => Cloned(env.compose)
        /\ env.compose = "generated" => written
        /\ \A i \in DOMAIN env.sources :
              LET s == env.sources[i]
              IN  s.kind = "repo" /\ s.ref # "none" /\ ~Shared(i) =>
                      \/ checkouts[s.path] = s.ref
                      \/ checkouts[s.path] = "dirty" /\ s.path \in env.writes

\* A restore removes containers only with an allowed cleanup, after its review commands
\* ran; and it starts, stops or rewrites anything only with --execute.
NoRestoreWithoutConsent ==
    [][run.pc \notin {"idle"} /\ events' = events =>
          /\ containers # "none" /\ containers' = "none" =>
                run.options.cleanup /\ run.options.allowed /\ run.backedUp
          /\ hostVars' # hostVars => run.options.execute
          /\ containers' # containers => ~run.options.prepare /\ ~run.options.adopt]_restoreVars

\* A full restore that ends ok applied every asset that an edge names, unless the graph has
\* no config assets at all: then what the edges name is passed over.  It had an answer to
\* every check it can probe after its containers were up, and an accepted workflow if one was
\* asked for; the record in the Store says "completed" exactly when it says ok.
Answered(i) == environmentRestoreEffectiveHealthChecks[i].form = "probe" => i \in run.answered

OkMeansRestored ==
    /\ At("end") /\ run.ok /\ run.options.execute /\ ~run.options.prepare =>
          /\ run.started \/ run.options.adopt
          /\ \/ env.assets = {}
             \/ \A i \in DOMAIN env.edges : i \in run.applied /\ env.edges[i] \in env.assets
          /\ \A i \in DOMAIN environmentRestoreEffectiveHealthChecks : Answered(i)
          /\ run.options.workflow => run.workflow = "passed"
    /\ lastRestore.ok <=> lastRestore.phase = "completed"

\* Every service of the allow-list is probed by a restore that ends ok, unless a
\* recorded check names it in a form that is skipped.
SelectedServicesAnswer ==
    At("end") /\ run.ok /\ run.options.execute /\ ~run.options.prepare =>
        \A s \in env.selected :
            LET checks == environmentRestoreEffectiveHealthChecks
            IN  \/ \E i \in run.answered : checks[i].service = s
                \/ \E i \in DOMAIN checks : checks[i].service = s /\ checks[i].form \in {"typed", "blank"}

\* The startup file that a checkout must hold is in that of a source with a URL.
StartupFileSourced ==
    env.asset \in Paths => \E i \in DOMAIN env.sources :
        /\ env.sources[i].path = env.asset /\ env.sources[i].url # "none"
        /\ ~(env.sources[i].kind = "package" /\ remoteOnly)

\* A restore can be repeated: after an ok one, with nothing in between, the next finds
\* its tools, startup files and sources in order, if it adopts or cleans up the containers,
\* does not pull, and the first one wrote nothing into a checkout.  (A startup file that no
\* source brings is missed by the second restore only: the first reads the compose file
\* after it has looked for the files that the compose file names.)
RepeatsPrepared ==
    run.again /\ SourcesDone /\ env.writes = {} /\ ~run.options.pull
        /\ (\A i \in DOMAIN env.sources : ~Shared(i)) /\ StartupFileSourced
        /\ (run.options.adopt \/ run.options.cleanup \/ ~env.named) => run.ok

\* docs/quickstart.md:315-319: a component whose compose service is missing from the
\* allow-list or the compose file stops a restore before Docker starts.
MissingServicesStopDocker ==
    At("commands") => environmentRestoreComposeServiceReadiness
=============================================================================
