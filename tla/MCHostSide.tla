------------------------------ MODULE MCHostSide ------------------------------
(* Small instances of what commands do to a host: restores of an environment, *)
(* the migrations of one of its edges, runs of cases with their evidence      *)
(* files, and reports about suites of cases.  A behaviour exercises one part. *)
EXTENDS EnvironmentMigration, EnvironmentRestore, CaseRun, CaseSuites, TLC

CONSTANTS o1, o2, x1, x2

VARIABLE part

Symmetric == Permutations({o1, o2}) \cup Permutations({x1, x2})

Src(kind, path, url, ref) == [kind |-> kind, path |-> path, url |-> url, ref |-> ref]
Chk(form, service) == [form |-> form, service |-> service]

\* One compose service started, one known; generated compose file, no sources.
Base ==
  [sources |-> << >>, compose |-> "generated", asset |-> "none", start |-> FALSE,
   outside |-> FALSE, writes |-> {}, named |-> TRUE, skips |-> {}, selected |-> {"s"},
   defined |-> {"s", "t"}, required |-> {"s"}, builds |-> {"s"},
   checks |-> <<Chk("probe", "none"), Chk("typed", "none")>>, gates |-> <<"t">>,
   graph |-> "ok", assets |-> {"sql"}, edges |-> <<"sql">>]

\* A pinned repository and a remote asset, with generated files an edge refers to.
Pinned ==
  [Base EXCEPT !.sources = <<Src("repo", "a", "remote", "r"), Src("asset", "b", "remote", "none")>>,
               !.assets = {"generated", "sql"}, !.edges = <<"generated", "sql">>]

\* The package is the workspace, and holds the compose file and a local repository.
Packaged ==
  [Base EXCEPT !.sources = <<Src("package", "workspace", "remote", "r"),
                             Src("repo", "a", "local", "none")>>,
               !.compose = "workspace", !.asset = "a", !.writes = {"workspace"},
               !.graph = "none", !.assets = {}, !.edges = << >>, !.named = FALSE, !.selected = {},
               !.checks = <<Chk("unsupported", "none")>>]

\* The same with a remote repository, and nothing written into either.
Mounted ==
  [Packaged EXCEPT !.sources = <<@[1], Src("repo", "a", "remote", "none")>>, !.writes = {},
                   !.checks = << >>]

\* Two sources in one checkout; a required service is not selected, and an edge names an
\* asset that is missing.
SharedCheckout ==
  [Base EXCEPT !.sources = <<Src("repo", "a", "remote", "r"), Src("repo", "a", "remote", "none")>>,
               !.selected = {"t"}, !.edges = <<"sql", "generated">>, !.named = FALSE]

\* All that the edges name is missing, as the graph has no config assets.
Unprovided == [Base EXCEPT !.assets = {}, !.named = FALSE]

\* A start command, and a repository without a URL.
Started ==
  [Base EXCEPT !.compose = "none", !.start = TRUE, !.graph = "none", !.gates = << >>,
               !.assets = {}, !.edges = << >>, !.selected = {},
               !.sources = <<Src("repo", "a", "none", "none")>>]

Rejected == [Base EXCEPT !.graph = "bad", !.outside = TRUE, !.checks = << >>, !.gates = << >>]
Outside ==
  [Base EXCEPT !.graph = "none", !.outside = TRUE, !.skips = {"pull"}, !.assets = {}, !.edges = << >>]

Unchecked ==
  [Base EXCEPT !.checks = << >>, !.gates = << >>, !.selected = {}, !.edges = << >>,
               !.sources = <<Src("repo", "a", "remote", "none")>>]

\* A check without its target covers a service that is then never probed.
Blank == [Base EXCEPT !.checks = <<Chk("blank", "s")>>, !.skips = {"build"}, !.edges = << >>]

RecordedEnvironments ==
  {Pinned, Packaged, Mounted, SharedCheckout, Unprovided, Started, Rejected, Outside, Unchecked, Blank}

\* Component t is required, and only s is on the allow-list.
MissingService == {[Base EXCEPT !.required = {"s", "t"}]}

\* A legacy case run whose id is also used here.
Legacy == <<[run |-> "i1", case |-> TRUE, evidence |-> TRUE]>>

\* A case with a file, and one of its node with nothing that could run it, which the signal
\* matches; the workflow runs the first at its node and binds none at the node that changed.
Case(node, file) ==
  [node |-> node, file |-> file, external |-> "none", config |-> "none", renders |-> FALSE,
   active |-> TRUE, described |-> TRUE, weight |-> 0]
Suite == <<Case(1, TRUE), [Case(1, FALSE) EXCEPT !.external = "unusable"]>>
Bindings == <<[workflow |-> "w", node |-> 1, case |-> 1], [workflow |-> "w", node |-> 2, case |-> Unbound]>>
ChangedNode == {[nodes |-> {2}, workflows |-> {}, cases |-> {2}]}

-----------------------------------------------------------------------------
Init ==
  /\ part \in {"migration", "restore", "cases", "suites"}
  /\ MigrationInit
  /\ RestoreInit /\ (part # "restore" => remoteOnly /\ env = CHOOSE e \in Environments : TRUE)
  /\ CaseRunInit
  /\ CaseSuitesInit

MigrationPart == part = "migration" /\ MigrationNext /\ UNCHANGED <<part, restoreVars, caseRunVars, suiteVars>>
RestorePart == part = "restore" /\ RestoreNext /\ UNCHANGED <<part, migrationVars, caseRunVars, suiteVars>>
CasePart == part = "cases" /\ CaseRunNext /\ UNCHANGED <<part, migrationVars, restoreVars, suiteVars>>
SuitePart == part = "suites" /\ CaseSuitesNext /\ UNCHANGED <<part, migrationVars, restoreVars, caseRunVars>>

Next == MigrationPart \/ RestorePart \/ CasePart \/ SuitePart

vars == <<part, migrationVars, restoreVars, caseRunVars, suiteVars>>

Spec == Init /\ [][Next]_vars

\* Type correctness of every part.
HostTypeOK == MigrationTypeOK /\ RestoreTypeOK /\ CaseRunTypeOK /\ CaseSuitesTypeOK
=============================================================================
