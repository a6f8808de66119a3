--------------------------- MODULE ProfileCatalog ---------------------------
(***************************************************************************)
(* The profile catalog of a Store and the commands that write it.          *)
(*                                                                         *)
(* A catalog is loaded whole, changed and written back whole: by sandbox   *)
(* registration (sandbox_state.go) and by workflow registration            *)
(* (workflow_upsert_commands.go).  Publication (publish.go), the daily      *)
(* reports and store copy overwrite it without looking.  Publication is a  *)
(* chain of upserts without a transaction: index, catalog, active config   *)
(* version (a reset and an insert), read models; "verify" then reads them  *)
(* back one by one.                                                        *)
(*                                                                         *)
(* The backends differ: MySQL and PostgreSQL keep one JSON row per profile *)
(* and read the newest; SQLite keeps one catalog in tables, replaces it in *)
(* one transaction and reads it table by table.                            *)
(*                                                                         *)
(* Abstractions: a catalog is its services, interface nodes (one per       *)
(* service), workflows and workflow bindings (one per workflow); a config  *)
(* version id is its publication time; digests are the bundles themselves. *)
(***************************************************************************)
EXTENDS Naturals, FiniteSets

CONSTANTS Actors,          \* command-line processes and control-plane requests
          Profiles,        \* profile ids
          Services,        \* service ids
          Workflows,       \* workflow ids
          Bundles,         \* the catalogs profile bundles convert to
          SourceCatalog,   \* the catalog of the Store that "store copy" reads
          DefaultProfile,  \* the profile id a registration creates
          ModelKeys,       \* number of read models a publication writes
          MaxCommands      \* bound: commands started

Catalogs == [profile : Profiles, services : SUBSET Services, nodes : SUBSET Services,
             workflows : SUBSET Workflows, bindings : SUBSET Workflows]

ASSUME CatalogConstants ==
    /\ ModelKeys \in Nat \ {0}
    /\ MaxCommands \in Nat
    /\ DefaultProfile \in Profiles
    /\ SourceCatalog \in Catalogs
    /\ Bundles \subseteq Catalogs

VARIABLES backend,      \* "sql" (MySQL, PostgreSQL) or "sqlite"
          rows,         \* per profile: the stored catalog and its indexed_at
          profileIndex, \* profile index rows: the bundle last published per profile
          configs,      \* config version rows
          models,       \* read models: per profile and key, the config version id
          ops,          \* per actor: the command it runs
          clock,        \* the time of the next command or write
          started,      \* commands started so far
          writes,       \* catalogs written so far
          unaudited,    \* a catalog that fails the audit was written
          interrupted   \* an activation stopped between its two statements

catalogVars == <<backend, rows, profileIndex, configs, models, ops, clock, started,
                 writes, unaudited, interrupted>>

EmptyCatalog(p) ==
    [profile |-> p, services |-> {}, nodes |-> {}, workflows |-> {}, bindings |-> {}]

\* Times start at 2; a copied row has time 1, a row that is not there time 0.
NoRow == [at |-> 0, cat |-> EmptyCatalog(DefaultProfile)]
CopiedAt == 1
NoModel == 0

Idle == [pc |-> "idle", kind |-> "none", arg |-> "none", cat |-> EmptyCatalog(DefaultProfile),
         at |-> 0, seen |-> 0, key |-> 1, good |-> TRUE, report |-> "none", alone |-> FALSE]

Stored == {p \in Profiles : rows[p].at # 0}

\* order by indexed_at desc: the profile whose catalog readers get.
Newest == CHOOSE p \in Stored : \A q \in Stored : rows[q].at <= rows[p].at

CurrentCatalog == rows[Newest].cat

\* The references a bundle audit follows, as far as a catalog has them here: it
\* checks the workflow of a binding and never the service of an interface node.
AuditOK(cat) == cat.bindings \subseteq cat.workflows

CatalogInit ==
    /\ backend \in {"sql", "sqlite"}
    /\ rows = [p \in Profiles |-> NoRow]
    /\ profileIndex = {}
    /\ configs = {}
    /\ models = [p \in Profiles |-> [k \in 1 .. ModelKeys |-> NoModel]]
    /\ ops = [a \in Actors |-> Idle]
    /\ clock = 2
    /\ started = 0
    /\ writes = 0
    /\ unaudited = FALSE
    /\ interrupted = FALSE

-----------------------------------------------------------------------------
(* Bookkeeping shared by the actions.  "alone" is a history variable: no    *)
(* step of another command since this one started.                         *)

Becomes(a, op) ==
    ops' = [x \in Actors |-> IF x = a THEN op ELSE [ops[x] EXCEPT !.alone = FALSE]]

Ends(a) == Becomes(a, Idle)

At(a, pc) == ops[a].pc = pc

Goes(a, pc) == Becomes(a, [ops[a] EXCEPT !.pc = pc])

Begin(a, kind, pc, arg, cat, at) ==
    /\ At(a, "idle")
    /\ started < MaxCommands
    /\ started' = started + 1
    /\ Becomes(a, [pc |-> pc, kind |-> kind, arg |-> arg, cat |-> cat, at |-> at,
                   seen |-> writes, key |-> 1, good |-> TRUE, report |-> "none",
                   alone |-> \A x \in Actors : At(x, "idle")])
    /\ UNCHANGED <<backend, rows, profileIndex, configs, models, writes, unaudited, interrupted>>

\* Mutant: the row is written under another profile.
MisplaceRow(cat, at) == [p \in Profiles |-> [at |-> at, cat |-> cat]]

\* ReplaceProfileCatalog of the SQL backends: the row of the catalog's profile.
ReplaceRow(cat, at) ==
    [rows EXCEPT ![cat.profile] = [at |-> at, cat |-> cat]]

\* ReplaceProfileCatalog of SQLite: every table is emptied, then filled again.
ReplaceTables(cat, at) ==
    [p \in Profiles |-> IF p = cat.profile THEN [at |-> at, cat |-> cat] ELSE NoRow]

Replace(cat, at) ==
    /\ rows' = IF backend = "sql" THEN ReplaceRow(cat, at) ELSE ReplaceTables(cat, at)
    /\ writes' = writes + 1

ReplaceByBundle(cat, at) ==
    /\ Replace(cat, at)
    /\ unaudited' = (unaudited \/ ~AuditOK(cat))

-----------------------------------------------------------------------------
(* Loading.                                                                *)

\* GetProfileCatalog: MySQL and PostgreSQL read one JSON row in one statement; SQLite
\* reads the index, then each table with a query of its own; an empty Store gives a
\* new catalog.
FirstRead ==
    IF Stored = {} THEN [pc |-> "write", cat |-> EmptyCatalog(DefaultProfile)]
    ELSE IF backend = "sql" THEN [pc |-> "write", cat |-> CurrentCatalog]
    ELSE [pc |-> "services", cat |-> EmptyCatalog(Newest)]

NextTable == [services |-> "workflows", workflows |-> "nodes", nodes |-> "bindings",
              bindings |-> "write"]

\* Mutant: the bindings are not loaded.
ForgetBindings(a) ==
    /\ ops[a].pc \in DOMAIN NextTable
    /\ Becomes(a, [ops[a] EXCEPT !.pc = NextTable[ops[a].pc],
                     !.cat[ops[a].pc] = IF ops[a].pc = "bindings" THEN {}
                                        ELSE CurrentCatalog[ops[a].pc]])
    /\ UNCHANGED <<backend, rows, profileIndex, configs, models, clock, started, writes,
                   unaudited, interrupted>>

LoadTable(a) ==
    /\ ops[a].pc \in DOMAIN NextTable
    /\ Becomes(a, [ops[a] EXCEPT !.pc = NextTable[ops[a].pc],
                     !.cat[ops[a].pc] = CurrentCatalog[ops[a].pc]])
    /\ UNCHANGED <<backend, rows, profileIndex, configs, models, clock, started, writes,
                   unaudited, interrupted>>

-----------------------------------------------------------------------------
(* Commands that change the catalog they loaded.                           *)

BeginRegistration(a) ==
    /\ \/ \E s \in Services, kind \in {"service", "node"} :
             Begin(a, kind, FirstRead.pc, s, FirstRead.cat, 0)
       \/ \E w \in Workflows, kind \in {"workflow", "binding"} :
             Begin(a, kind, FirstRead.pc, w, FirstRead.cat, 0)
    /\ UNCHANGED clock

AddService(cat, s) == [cat EXCEPT !.services = @ \cup {s}]
AddNode(cat, s) == [cat EXCEPT !.nodes = @ \cup {s}]
AddWorkflow(cat, w) == [cat EXCEPT !.workflows = @ \cup {w}]
AddBinding(cat, w) == [cat EXCEPT !.bindings = @ \cup {w}]

\* The registration writes back the catalog it loaded with its own entry, stamped now.
WriteBack(a, kind, cat) ==
    /\ At(a, "write")
    /\ ops[a].kind = kind
    /\ Replace(cat, clock)
    /\ clock' = clock + 1
    /\ Ends(a)
    /\ UNCHANGED <<backend, profileIndex, configs, models, started, unaudited, interrupted>>

RegisterSandboxService(a) == WriteBack(a, "service", AddService(ops[a].cat, ops[a].arg))

\* An interface needs a registered entry service.
RegisterSandboxInterface(a) ==
    /\ At(a, "write") /\ ops[a].arg \in ops[a].cat.services
    /\ WriteBack(a, "node", AddNode(ops[a].cat, ops[a].arg))

WorkflowUpsert(a) == WriteBack(a, "workflow", AddWorkflow(ops[a].cat, ops[a].arg))

\* Mutant: a binding is written without its workflow.
BindingOnly(a) == WriteBack(a, "binding", AddBinding(ops[a].cat, ops[a].arg))

\* A binding needs its workflow, and nothing else.
BindingUpsert(a) ==
    /\ At(a, "write") /\ ops[a].arg \in ops[a].cat.workflows
    /\ WriteBack(a, "binding", AddBinding(ops[a].cat, ops[a].arg))

\* The loaded catalog lacks the service or workflow, or is of another profile than
\* --profile names: the command ends without a write.
Reject(a) ==
    /\ At(a, "write")
    /\ \/ ops[a].kind = "node" /\ ops[a].arg \notin ops[a].cat.services
       \/ ops[a].kind = "binding" /\ ops[a].arg \notin ops[a].cat.workflows
       \/ ops[a].kind \in {"workflow", "binding"} /\ ops[a].cat.profile # DefaultProfile
    /\ Ends(a)
    /\ UNCHANGED <<backend, rows, profileIndex, configs, models, clock, started, writes,
                   unaudited, interrupted>>

-----------------------------------------------------------------------------
(* Commands that overwrite the catalog.                                    *)

\* A daily report replaces the catalog of the Store by its bundle, before it runs.
ReportBundle(a) ==
    /\ At(a, "idle")
    /\ started < MaxCommands
    /\ \E b \in Bundles : ReplaceByBundle(b, clock)
    /\ started' = started + 1
    /\ clock' = clock + 1
    /\ Ends(a)
    /\ UNCHANGED <<backend, profileIndex, configs, models, interrupted>>

\* "publish" may skip the audit; "verify" audits first and checks afterwards.
BeginPublish(a) ==
    /\ \E b \in Bundles :
          \/ Begin(a, "publish", "index", "none", b, clock)
          \/ AuditOK(b) /\ Begin(a, "verify", "index", "none", b, clock)
    /\ clock' = clock + 1

\* store copy: the catalog keeps its indexed_at (the copy is older than all that is here).
BeginCopy(a) ==
    /\ Begin(a, "copy", "replace", "none", SourceCatalog, CopiedAt)
    /\ UNCHANGED clock

PublishIndex(a) ==
    /\ At(a, "index")
    /\ profileIndex' = {b \in profileIndex : b.profile # ops[a].cat.profile} \cup {ops[a].cat}
    /\ Goes(a, IF ops[a].kind = "copy" THEN "reset" ELSE "replace")
    /\ UNCHANGED <<backend, rows, configs, models, clock, started, writes, unaudited, interrupted>>

PublishCatalog(a) ==
    /\ At(a, "replace")
    /\ ReplaceByBundle(ops[a].cat, ops[a].at)
    /\ Goes(a, IF ops[a].kind = "copy" THEN "index" ELSE "reset")
    /\ UNCHANGED <<backend, profileIndex, configs, models, clock, started, interrupted>>

\* UpsertConfigVersion, first statement: no version is active.
ResetActive(a) ==
    /\ At(a, "reset")
    /\ configs' = {[c EXCEPT !.active = FALSE] : c \in configs}
    /\ Goes(a, "activate")
    /\ UNCHANGED <<backend, rows, profileIndex, models, clock, started, writes, unaudited,
                   interrupted>>

\* Mutant: the version is inserted and not activated.
InsertVersion(a) ==
    /\ At(a, "activate")
    /\ configs' = {c \in configs : c.id # ops[a].at}
                    \cup {[id |-> ops[a].at, bundle |-> ops[a].cat, active |-> FALSE]}
    /\ Goes(a, "models")
    /\ UNCHANGED <<backend, rows, profileIndex, models, clock, started, writes, unaudited,
                   interrupted>>

\* UpsertConfigVersion, second statement: insert the active version (or take its row over).
ActivateVersion(a) ==
    /\ At(a, "activate")
    /\ configs' = {c \in configs : c.id # ops[a].at}
                    \cup {[id |-> ops[a].at, bundle |-> ops[a].cat, active |-> TRUE]}
    /\ Goes(a, "models")
    /\ UNCHANGED <<backend, rows, profileIndex, models, clock, started, writes, unaudited,
                   interrupted>>

\* Mutant: a read model that is there is kept.
KeepReadModel(a) ==
    LET k == ops[a].key
    IN  /\ At(a, "models")
        /\ models' = [models EXCEPT ![ops[a].cat.profile][k] = IF @ = NoModel THEN ops[a].at ELSE @]
        /\ Becomes(a, IF k < ModelKeys THEN [ops[a] EXCEPT !.key = k + 1]
                      ELSE IF ops[a].kind = "verify"
                      THEN [ops[a] EXCEPT !.pc = "checkIndex", !.key = 1]
                      ELSE Idle)
        /\ UNCHANGED <<backend, rows, profileIndex, configs, clock, started, writes, unaudited,
                       interrupted>>

UpsertReadModel(a) ==
    LET k == ops[a].key
    IN  /\ At(a, "models")
        /\ models' = [models EXCEPT ![ops[a].cat.profile][k] = ops[a].at]
        /\ Becomes(a, IF k < ModelKeys THEN [ops[a] EXCEPT !.key = k + 1]
                      ELSE IF ops[a].kind = "verify"
                      THEN [ops[a] EXCEPT !.pc = "checkIndex", !.key = 1]
                      ELSE Idle)
        /\ UNCHANGED <<backend, rows, profileIndex, configs, clock, started, writes, unaudited,
                       interrupted>>

-----------------------------------------------------------------------------
(* The checks of "verify", each a read of its own.                         *)

Checks(a, pc, ok, next) ==
    /\ At(a, pc)
    /\ Becomes(a, [ops[a] EXCEPT !.pc = next, !.good = @ /\ ok])
    /\ UNCHANGED <<backend, rows, profileIndex, configs, models, clock, started, writes,
                   unaudited, interrupted>>

\* Without an index row the checks stop there.
CheckIndex(a) ==
    At(a, "checkIndex") /\
    Checks(a, "checkIndex", ops[a].cat \in profileIndex,
           IF \E b \in profileIndex : b.profile = ops[a].cat.profile
           THEN "checkCatalog" ELSE "report")

CheckCatalog(a) ==
    At(a, "checkCatalog") /\
    Checks(a, "checkCatalog", Stored # {} /\ Newest = ops[a].cat.profile, "checkConfig")

Active == {c \in configs : c.active}

\* order by published_at desc: the version readers take for active.
ActiveVersion == CHOOSE c \in Active : \A d \in Active : d.id <= c.id

CheckConfig(a) ==
    At(a, "checkConfig") /\
    Checks(a, "checkConfig",
           Active # {} /\ ActiveVersion.id = ops[a].at /\ ActiveVersion.bundle = ops[a].cat,
           "checkModels")

CheckModels(a) ==
    /\ At(a, "checkModels")
    /\ LET k == ops[a].key
           ok == models[ops[a].cat.profile][k] = ops[a].at
       IN  Becomes(a, [ops[a] EXCEPT !.good = @ /\ ok, !.key = IF k < ModelKeys THEN k + 1 ELSE k,
                         !.pc = IF k < ModelKeys THEN "checkModels" ELSE "report"])
    /\ UNCHANGED <<backend, rows, profileIndex, configs, models, clock, started, writes,
                   unaudited, interrupted>>

\* ok only when every check passed.
Report(a) ==
    /\ At(a, "report")
    /\ Becomes(a, [ops[a] EXCEPT !.pc = "end", !.report = IF ops[a].good THEN "ok" ELSE "failed"])
    /\ UNCHANGED <<backend, rows, profileIndex, configs, models, clock, started, writes,
                   unaudited, interrupted>>

Finish(a) ==
    /\ At(a, "end")
    /\ Ends(a)
    /\ UNCHANGED <<backend, rows, profileIndex, configs, models, clock, started, writes,
                   unaudited, interrupted>>

\* A Store error or a crash in a chain of writes: what was written stays.  (A command
\* that stops before its first write leaves nothing, as if it had not run.)
Fail(a) ==
    /\ ops[a].pc \in {"index", "replace", "reset", "activate", "models"}
    /\ interrupted' = (interrupted \/ ops[a].pc = "activate")
    /\ Ends(a)
    /\ UNCHANGED <<backend, rows, profileIndex, configs, models, clock, started, writes, unaudited>>

Register(a) ==
    \/ RegisterSandboxService(a) \/ RegisterSandboxInterface(a)
    \/ WorkflowUpsert(a) \/ BindingUpsert(a) \/ Reject(a)

Publish(a) ==
    \/ PublishIndex(a) \/ PublishCatalog(a) \/ ResetActive(a) \/ ActivateVersion(a)
    \/ UpsertReadModel(a)

Verify(a) ==
    \/ CheckIndex(a) \/ CheckCatalog(a) \/ CheckConfig(a) \/ CheckModels(a) \/ Report(a)

CatalogNext ==
    \E a \in Actors :
        \/ BeginRegistration(a) \/ BeginPublish(a) \/ BeginCopy(a) \/ ReportBundle(a)
        \/ LoadTable(a) \/ Register(a) \/ Publish(a) \/ Verify(a) \/ Finish(a) \/ Fail(a)

CatalogSpec == CatalogInit /\ [][CatalogNext]_catalogVars

-----------------------------------------------------------------------------
(* Properties.                                                             *)

OpKinds == {"service", "node", "workflow", "binding", "publish", "verify", "copy", "none"}
OpPlaces == {"write", "index", "replace", "reset", "activate", "models", "checkIndex",
             "checkCatalog", "checkConfig", "checkModels", "report", "end", "idle"} \cup DOMAIN NextTable

\* Type invariant of the profile catalog, the publication rows and the commands.
CatalogTypeOK ==
    /\ backend \in {"sql", "sqlite"}
    /\ rows \in [Profiles -> [at : Nat, cat : Catalogs]]
    /\ \A p \in Stored : rows[p].cat.profile = p
    /\ profileIndex \subseteq Catalogs
    /\ configs \subseteq [id : Nat, bundle : Catalogs, active : BOOLEAN]
    /\ models \in [Profiles -> [1 .. ModelKeys -> Nat]]
    /\ ops \in [Actors -> [pc : OpPlaces, kind : OpKinds, arg : Services \cup Workflows \cup {"none"},
                            cat : Catalogs, at : Nat, seen : Nat, key : 1 .. ModelKeys,
                            good : BOOLEAN, report : {"none", "ok", "failed"}, alone : BOOLEAN]]
    /\ clock \in Nat /\ started \in Nat /\ writes \in Nat
    /\ unaudited \in BOOLEAN /\ interrupted \in BOOLEAN

\* With MySQL or PostgreSQL, whatever commands interleave, a binding of a stored
\* catalog has its workflow in that catalog, unless a bundle that fails the audit
\* was published without it (requireCleanAudit, upsertWorkflowCatalogBinding).
BindingsHaveWorkflows ==
    backend = "sql" /\ ~unaudited =>
        \A p \in Stored : rows[p].cat.bindings \subseteq rows[p].cat.workflows

\* A registration drops an entry from the catalog of its profile only when another
\* command wrote a catalog after this one began to load: a registration alone
\* never loses what was registered before it.
Loses(p) ==
    /\ p \in Stored /\ rows'[p].at # 0
    /\ \E f \in {"services", "nodes", "workflows", "bindings"} :
          ~(rows[p].cat[f] \subseteq rows'[p].cat[f])

LossNeedsOverlap ==
    [][\A a \in Actors : \A p \in Profiles :
          (At(a, "write") /\ ops'[a].pc = "idle" /\ Loses(p))
              => writes # ops[a].seen]_catalogVars

\* Once a version was published, readers find an active one, unless an activation is
\* between its two statements or died there (UpsertConfigVersion).
ActiveUnlessInterrupted ==
    configs # {} /\ Active = {} => interrupted \/ \E a \in Actors : At(a, "activate")

\* A verification that no other command overlaps reports ok, whatever failed, torn or
\* interrupted publications it finds: publishing again repairs the Store.
LoneVerifyReportsOk ==
    \A a \in Actors : ops[a].kind = "verify" /\ ops[a].alone
                          => ops[a].report # "failed"
=============================================================================
