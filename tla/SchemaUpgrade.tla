---------------------------- MODULE SchemaUpgrade ----------------------------
(***************************************************************************)
(* Schema upgrades of a Store.  Every process that opens a Store upgrades  *)
(* its schema first, so several upgrades may run at once, and each may     *)
(* stop between two statements.                                            *)
(*                                                                         *)
(* MySQL and PostgreSQL (sqlstore/migration.go) run one list of statements *)
(* without a transaction and record the version last.  SQLite              *)
(* (sqlite/store.go) sends each change as one transaction that inserts its *)
(* version row, to a sqlite3 process that stops at the first error.        *)
(*                                                                         *)
(* A schema is the set of its tables and of the parts added to them later: *)
(* columns, wider types, comments.  Indexes are one part per statement     *)
(* group.  What a database does with a statement is external.              *)
(***************************************************************************)
EXTENDS Naturals, FiniteSets, Sequences

CONSTANTS Upgraders,   \* processes that open the Store
          SqlFrom,     \* versions a MySQL or PostgreSQL Store may have at first
          SqliteFrom,  \* versions a SQLite Store may have at first
          MaxRetries   \* bound: attempts of each process after its first

CurrentSchemaVersion == 11
CurrentVersion == 18   \* of the SQLite schema

ASSUME SchemaConstants ==
    /\ SqlFrom \subseteq 0 .. CurrentSchemaVersion
    /\ SqliteFrom \subseteq 0 .. CurrentVersion
    /\ MaxRetries \in Nat

VARIABLES dialect,   \* "mysql", "postgres" or "sqlite"
          from,      \* the version recorded at first
          schema,    \* tables and parts that exist
          recorded,  \* versions in schema_versions
          procs,     \* per process: where its upgrade is
          killed     \* an upgrade was stopped between two statements

schemaVars == <<dialect, from, schema, recorded, procs, killed>>

Highest(versions) == CHOOSE v \in versions \cup {0} : \A w \in versions : w <= v

-----------------------------------------------------------------------------
(* The statements of the MySQL and PostgreSQL schema.                      *)

\* "create" and "index" skip what exists, "column" fails on it; "modify" and
\* "comment" may be repeated; "drop" removes.
Statement(kind, parts) == [kind |-> kind, parts |-> parts]

coreRunSchemaSQL ==
    << Statement("create", {"schema_versions"}),
       Statement("create", {"runs", "runs.environment_id"}),
       Statement("create", {"api_case_runs", "evidence_records"}),
       Statement("index", {"runs.indexes"}) >>

coreObservabilitySchemaSQL ==
    << Statement("create", {"trace_topologies", "post_process_tasks", "baseline_gates"}),
       Statement("index", {"observability.indexes"}) >>

coreProfileConfigSchemaSQL ==
    << Statement("create", {"profile_indexes", "config_versions", "config_read_model",
                            "profile_catalogs"}),
       Statement("index", {"config.indexes"}) >>

coreEnvironmentCatalogSchemaSQL ==
    << Statement("create", {"environments", "environment_components",
                            "component_dependencies", "component_config_assets"}),
       Statement("index", {"environments.indexes"}) >>

CoreSchemaSQL == coreRunSchemaSQL \o coreObservabilitySchemaSQL
                 \o coreProfileConfigSchemaSQL \o coreEnvironmentCatalogSchemaSQL

When(condition, statements) == IF condition THEN statements ELSE << >>

mysqlMediumTextMigrationSQL == << Statement("modify", {"medium text"}) >>

\* Mutants: the column is forgotten; the old tables are dropped with the new ones.
UpgradeWithoutColumn(current) ==
    When(dialect = "mysql" /\ current < 7, mysqlMediumTextMigrationSQL)

DropsComponentTables(current) ==
    When(current # 0 /\ current < 6,
         << Statement("column", {"runs.environment_id"}),
            Statement("drop", {"service_config_assets", "component_config_assets"}) >>)

incrementalSchemaSQL(current) ==
    When(current # 0 /\ current < CurrentSchemaVersion,
         When(dialect = "mysql" /\ current < 5, << Statement("modify", {"run ids"}) >>)
         \o When(current < 6,
                 << Statement("column", {"runs.environment_id"}),
                    Statement("drop", {"service_config_assets", "service_dependencies"}) >>)
         \o When(dialect = "mysql" /\ current < 7, mysqlMediumTextMigrationSQL)
         \o When(dialect = "mysql" /\ current < 8, << Statement("modify", {"config ids"}) >>)
         \o When(dialect = "mysql" /\ current < 9, << Statement("modify", {"profile ids"}) >>))

schemaCommentSQL == << Statement("comment", {"comments"}) >>

UpgradeStatements(current) ==
    CoreSchemaSQL \o incrementalSchemaSQL(current) \o schemaCommentSQL

Parts(statements) == UNION {statements[i].parts : i \in DOMAIN statements}

\* What the queries of the SQL Store refer to.
NeededSql == Parts(CoreSchemaSQL)

-----------------------------------------------------------------------------
(* The SQLite schema: 18 changes, some of which add columns.               *)

RuntimeStoreTables ==
    {"runs", "api_case_runs", "evidence_records", "baseline_gates", "profile_indexes"}

TemplateTables ==
    {"kv", "template", "template_config", "node_config", "workflow", "workflow_node"}

InterfaceNodeTables ==
    {"interface_node", "interface_node_field", "interface_node_request_template",
     "interface_node_case", "workflow_interface_node"}

FixtureTables ==
    {"fixture_profile", "fixture_table_binding", "interface_node_case_dependency"}

TraceTables == {"trace_topologies"}
PostProcessTables == {"post_process_tasks"}
CaseRunIndex == {"api_case_runs.index"}
ConfigVersionTables == {"config_versions"}
ReadModelTables == {"config_read_model"}
EnvironmentTables == {"environments"}

ServiceGraphTables ==
    {"environment_components", "service_dependencies", "service_config_assets"}

ComponentGraphTables == {"component_dependencies", "component_config_assets"}

\* Columns the changes add with "alter table"; a second run of one fails.
BudgetColumns == {"workflow.base_step_timeout_ms", "interface_node.timeout_ms"}
SourcePathColumns == {"node_config.source_path"}
CaseExecutionColumns == {"interface_node_case.case_path", "interface_node_case.timeout_seconds"}
CaseMaintenanceColumns == {"interface_node_case.tags_json", "interface_node_case.owner"}
EvidenceColumns == {"evidence_records.category", "evidence_records.labels_json"}
CaseSourceColumns == {"interface_node_case.executor_id"}
EvidenceStepColumns == {"evidence_records.step_id"}
RunColumns == {"runs.environment_id"}

changes ==
    << RuntimeStoreTables, TemplateTables \cup InterfaceNodeTables \cup FixtureTables,
       TraceTables, BudgetColumns, PostProcessTables, CaseRunIndex, SourcePathColumns,
       ConfigVersionTables, ReadModelTables, CaseExecutionColumns, CaseMaintenanceColumns,
       EvidenceColumns, CaseSourceColumns, EvidenceStepColumns, EnvironmentTables,
       ServiceGraphTables, ComponentGraphTables, RunColumns >>

AddsColumns(v) == v \in {4, 7, 18} \cup 10 .. 14

NeededSqlite(version) == UNION {changes[v] : v \in 1 .. version}

Needed == IF dialect = "sqlite" THEN NeededSqlite(CurrentVersion) ELSE NeededSql

Target == IF dialect = "sqlite" THEN CurrentVersion ELSE CurrentSchemaVersion

-----------------------------------------------------------------------------
(* Stores as earlier versions of the program left them.                    *)

OldSql(v) ==
    IF v = 0 THEN {}
    ELSE (NeededSql \ IF v < 6 THEN {"runs.environment_id"} \cup ComponentGraphTables ELSE {})
         \cup IF v < 6 THEN {"service_config_assets", "service_dependencies"} ELSE {}

NewProc == [pc |-> "idle", current |-> 0, next |-> 1, tries |-> 0, raced |-> FALSE,
            afterKill |-> FALSE]

SchemaInit ==
    /\ dialect \in {"mysql", "postgres", "sqlite"}
    /\ from \in IF dialect = "sqlite" THEN SqliteFrom ELSE SqlFrom
    /\ schema = IF dialect = "sqlite" THEN NeededSqlite(from) ELSE OldSql(from)
    /\ recorded = IF dialect = "sqlite" THEN 1 .. from ELSE {from} \ {0}
    /\ procs = [u \in Upgraders |-> NewProc]
    /\ killed = FALSE

-----------------------------------------------------------------------------
(* One process.  "raced" and "afterKill" are history variables: another    *)
(* process took a step during this attempt; an attempt was killed before.  *)

Running(u) == procs[u].pc \in {"statements", "change", "record"}

Steps(u, p) ==
    procs' = [x \in Upgraders |->
                IF x = u THEN p
                ELSE IF Running(x) THEN [procs[x] EXCEPT !.raced = TRUE] ELSE procs[x]]

Leaves(u, result) == Steps(u, [procs[u] EXCEPT !.pc = result])

\* Open: read the recorded version; nothing to do at the target version or beyond.
\* A process that failed or was stopped may try again.
ReadVersion(u) ==
    /\ \/ procs[u].pc = "idle"
       \/ procs[u].pc \in {"failed", "stopped"} /\ procs[u].tries < MaxRetries
    /\ LET version == Highest(recorded)
       IN  Steps(u, [pc |-> IF version >= Target THEN "open"
                            ELSE IF dialect = "sqlite" THEN "change" ELSE "statements",
                     current |-> version,
                     next |-> IF dialect = "sqlite" THEN version + 1 ELSE 1,
                     tries |-> IF procs[u].pc = "idle" THEN 0 ELSE procs[u].tries + 1,
                     raced |-> \E x \in Upgraders \ {u} : Running(x),
                     afterKill |-> killed])
    /\ UNCHANGED <<dialect, from, schema, recorded, killed>>

\* What the database does with a statement.  MySQL has no "create index if not
\* exists": its duplicate key name error is the one UpgradeSchema ignores.  A
\* PostgreSQL "create table if not exists" that races another may fail.
Fails(u, s) ==
    \/ s.kind = "column" /\ s.parts \subseteq schema
    \/ s.kind = "index" /\ s.parts \subseteq schema /\ dialect = "mysql"

MayFail(u, s) ==
    s.kind = "create" /\ dialect = "postgres" /\ procs[u].raced /\ ~(s.parts \subseteq schema)

\* Mutant: an index that exists stops an upgrade.
NoReplayError(s) == FALSE

isIdempotentSchemaReplayError(s) == s.kind = "index" /\ dialect = "mysql"

\* A created table that exists keeps the columns it has.
Effect(s) ==
    CASE s.kind = "drop" -> schema \ s.parts
      [] s.kind = "create" /\ "runs" \in s.parts /\ "runs" \in schema -> schema
      [] OTHER -> schema \cup s.parts

Statements(u) == UpgradeStatements(procs[u].current)

ExecStatement(u) ==
    /\ procs[u].pc = "statements"
    /\ LET s == Statements(u)[procs[u].next]
           last == procs[u].next = Len(Statements(u))
           following == [procs[u] EXCEPT !.pc = IF last THEN "record" ELSE "statements",
                                         !.next = procs[u].next + 1]
       IN  \/ /\ ~Fails(u, s)
              /\ schema' = Effect(s)
              /\ Steps(u, following)
           \/ /\ Fails(u, s)
              /\ schema' = schema
              /\ IF isIdempotentSchemaReplayError(s) THEN Steps(u, following)
                 ELSE Leaves(u, "failed")
           \/ /\ MayFail(u, s)
              /\ schema' = schema
              /\ Leaves(u, "failed")
    /\ UNCHANGED <<dialect, from, recorded, killed>>

\* The version row is upserted after the last statement.
RecordVersion(u) ==
    /\ procs[u].pc = "record"
    /\ recorded' = recorded \cup {CurrentSchemaVersion}
    /\ Leaves(u, "open")
    /\ UNCHANGED <<dialect, from, schema, killed>>

\* One change of SQLite: begin, its statements, its version row, commit.  The row's
\* version is the primary key, so a change another process made fails as a whole;
\* so does one whose snapshot another process outdated.
ApplyChange(u) ==
    /\ procs[u].pc = "change"
    /\ LET v == procs[u].next
           exists == v \in recorded \/ (AddsColumns(v) /\ changes[v] \subseteq schema)
       IN  \/ /\ ~exists
              /\ schema' = schema \cup changes[v]
              /\ recorded' = recorded \cup {v}
              /\ Steps(u, [procs[u] EXCEPT !.next = v + 1,
                                           !.pc = IF v = CurrentVersion THEN "open" ELSE "change"])
           \/ /\ exists \/ procs[u].raced
              /\ Leaves(u, "failed")
              /\ UNCHANGED <<schema, recorded>>
    /\ UNCHANGED <<dialect, from, killed>>

\* The process is stopped, or loses its connection, between two statements.
StopUpgrade(u) ==
    /\ Running(u)
    /\ killed' = TRUE
    /\ Leaves(u, "stopped")
    /\ UNCHANGED <<dialect, from, schema, recorded>>

UpgradeStep(u) == ReadVersion(u) \/ ExecStatement(u) \/ RecordVersion(u) \/ ApplyChange(u)

SchemaNext == \E u \in Upgraders : UpgradeStep(u) \/ StopUpgrade(u)

SchemaSpec == SchemaInit /\ [][SchemaNext]_schemaVars

-----------------------------------------------------------------------------
(* Properties.                                                             *)

\* Type correctness.
SchemaTypeOK ==
    /\ dialect \in {"mysql", "postgres", "sqlite"}
    /\ from \in 0 .. CurrentVersion
    /\ recorded \subseteq 1 .. CurrentVersion
    /\ procs \in [Upgraders -> [pc : {"idle", "statements", "change", "record", "open",
                                      "failed", "stopped"},
                                current : 0 .. CurrentVersion, next : Nat,
                                tries : 0 .. MaxRetries, raced : BOOLEAN, afterKill : BOOLEAN]]
    /\ killed \in BOOLEAN

\* A recorded version is never ahead of the schema: whatever upgrades race or stop
\* half way, a Store that says it is at the target version has everything the queries
\* of this version use, a SQLite Store has every change it lists, and a process whose
\* Open succeeded finds a complete schema, also when the row it read is another's work.
RecordedMeansApplied ==
    /\ \A u \in Upgraders : procs[u].pc = "open" => Needed \subseteq schema
    /\ Target \in recorded => Needed \subseteq schema
    /\ dialect = "sqlite" => \A v \in recorded : changes[v] \subseteq schema

\* An attempt that no other process overlaps succeeds, after any number of stopped
\* attempts, except from versions 1 to 5 of MySQL and PostgreSQL: there an attempt that
\* stops after "add column" and before the version row makes each later one fail.
RetriesSucceed ==
    \A u \in Upgraders :
        procs[u].pc = "failed" =>
            \/ procs[u].raced
            \/ procs[u].afterKill /\ dialect # "sqlite" /\ from \in 1 .. 5

\* An upgrade never takes away a version or anything the program uses.
UpgradesOnlyAdd ==
    [][recorded \subseteq recorded' /\ (schema \cap Needed) \subseteq schema']_schemaVars
=============================================================================
