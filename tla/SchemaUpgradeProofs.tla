-------------------------- MODULE SchemaUpgradeProofs --------------------------
(***************************************************************************)
(* What holds of schema upgrades for every number of processes and every   *)
(* version a Store starts at: a version that is recorded has been applied,  *)
(* and nothing the program uses is taken away.  A SQL upgrade is followed   *)
(* through its statements: what the ones before the next one make is there, *)
(* except the column that an old table of runs still lacks.                 *)
(***************************************************************************)
EXTENDS SchemaUpgrade, SequenceTheorems, TLAPS

OldTables == {"service_config_assets", "service_dependencies"}
RunsTable == {"runs", "runs.environment_id"}

PartNames ==
    {"schema_versions", "runs", "runs.environment_id", "api_case_runs", "evidence_records",
     "runs.indexes", "trace_topologies", "post_process_tasks", "baseline_gates",
     "observability.indexes", "profile_indexes", "config_versions", "config_read_model",
     "profile_catalogs", "config.indexes", "environments", "environment_components",
     "component_dependencies", "component_config_assets", "environments.indexes", "medium text",
     "run ids", "config ids", "profile ids", "comments"} \cup OldTables

AddColumn == Statement("column", {"runs.environment_id"})

\* The statements of an upgrade: one creates the table of runs, one adds a column to it, and
\* only the tables of the old component graph are dropped.
Allowed ==
    {s \in [kind : {"create", "index", "column", "modify", "comment", "drop"}, parts : SUBSET PartNames] :
        /\ "runs" \in s.parts => s = Statement("create", RunsTable)
        /\ "runs.environment_id" \in s.parts => s \in {Statement("create", RunsTable), AddColumn}
        /\ s.kind = "column" => s = AddColumn
        /\ s.kind = "drop" => s.parts \subseteq OldTables}

\* Those of a fresh schema.
CoreAllowed == {s \in Allowed : s.parts \cap OldTables = {}}

Includes(statements, s) == \E i \in 1 .. Len(statements) : statements[i] = s

-----------------------------------------------------------------------------
LEMMA StatementAllowed ==
    ASSUME NEW kind \in {"create", "index", "modify", "comment"}, NEW parts \in SUBSET PartNames,
           "runs" \notin parts, "runs.environment_id" \notin parts
    PROVE  /\ Statement(kind, parts) \in Allowed
           /\ parts \cap OldTables = {} => Statement(kind, parts) \in CoreAllowed
BY DEF Statement, CoreAllowed, Allowed

LEMMA RunsStatementAllowed == Statement("create", RunsTable) \in CoreAllowed
BY DEF Statement, CoreAllowed, Allowed, RunsTable, OldTables, PartNames

LEMMA ColumnAllowed == AddColumn \in Allowed
BY DEF Statement, AddColumn, Allowed, OldTables, PartNames

LEMMA CoreParts ==
    /\ coreRunSchemaSQL \in Seq(CoreAllowed) /\ coreObservabilitySchemaSQL \in Seq(CoreAllowed)
    /\ coreProfileConfigSchemaSQL \in Seq(CoreAllowed)
    /\ coreEnvironmentCatalogSchemaSQL \in Seq(CoreAllowed)
<1> DEFINE S == CoreAllowed
<1>1. coreRunSchemaSQL \in Seq(S)
  <2>1. Statement("create", {"schema_versions"}) \in S
    BY StatementAllowed DEF OldTables, PartNames
  <2>2. Statement("create", {"api_case_runs", "evidence_records"}) \in S
    BY StatementAllowed DEF OldTables, PartNames
  <2>3. Statement("index", {"runs.indexes"}) \in S
    BY StatementAllowed DEF OldTables, PartNames
  <2>4. Statement("create", {"runs", "runs.environment_id"}) \in S
    BY RunsStatementAllowed DEF RunsTable
  <2> HIDE DEF S
  <2> QED
    BY <2>1, <2>2, <2>3, <2>4 DEF coreRunSchemaSQL
<1>2. coreObservabilitySchemaSQL \in Seq(S)
  <2>1. Statement("create", {"trace_topologies", "post_process_tasks", "baseline_gates"}) \in S
    BY StatementAllowed DEF OldTables, PartNames
  <2>2. Statement("index", {"observability.indexes"}) \in S
    BY StatementAllowed DEF OldTables, PartNames
  <2> HIDE DEF S
  <2> QED
    BY <2>1, <2>2 DEF coreObservabilitySchemaSQL
<1>3. coreProfileConfigSchemaSQL \in Seq(S)
  <2>1. Statement("create", {"profile_indexes", "config_versions", "config_read_model",
                             "profile_catalogs"}) \in S
    BY StatementAllowed DEF OldTables, PartNames
  <2>2. Statement("index", {"config.indexes"}) \in S
    BY StatementAllowed DEF OldTables, PartNames
  <2> HIDE DEF S
  <2> QED
    BY <2>1, <2>2 DEF coreProfileConfigSchemaSQL
<1>4. coreEnvironmentCatalogSchemaSQL \in Seq(S)
  <2>1. Statement("create", {"environments", "environment_components",
                             "component_dependencies", "component_config_assets"}) \in S
    BY StatementAllowed DEF OldTables, PartNames
  <2>2. Statement("index", {"environments.indexes"}) \in S
    BY StatementAllowed DEF OldTables, PartNames
  <2> HIDE DEF S
  <2> QED
    BY <2>1, <2>2 DEF coreEnvironmentCatalogSchemaSQL
<1> QED
  BY <1>1, <1>2, <1>3, <1>4

LEMMA CoreSeq == CoreSchemaSQL \in Seq(CoreAllowed)
<1>1. coreRunSchemaSQL \o coreObservabilitySchemaSQL \in Seq(CoreAllowed)
  BY CoreParts, ConcatProperties
<1>2. (coreRunSchemaSQL \o coreObservabilitySchemaSQL) \o coreProfileConfigSchemaSQL
          \in Seq(CoreAllowed)
  BY <1>1, CoreParts, ConcatProperties
<1>3. ((coreRunSchemaSQL \o coreObservabilitySchemaSQL) \o coreProfileConfigSchemaSQL)
          \o coreEnvironmentCatalogSchemaSQL \in Seq(CoreAllowed)
  BY <1>2, CoreParts, ConcatProperties
<1> QED
  BY <1>3 DEF CoreSchemaSQL

LEMMA ConcatLonger ==
    ASSUME NEW S, NEW a \in Seq(S), NEW b \in Seq(S)
    PROVE  Len(a \o b) \in Nat /\ Len(a \o b) >= Len(a)
<1>1. Len(a \o b) = Len(a) + Len(b) /\ Len(a) \in Nat /\ Len(b) \in Nat
  BY ConcatProperties
<1> QED
  BY <1>1

LEMMA CoreLength == 1 \in 1 .. Len(CoreSchemaSQL)
<1>1. coreRunSchemaSQL \in Seq(CoreAllowed) /\ Len(coreRunSchemaSQL) = 4
  BY CoreParts DEF coreRunSchemaSQL
<1> DEFINE a == coreRunSchemaSQL \o coreObservabilitySchemaSQL
           b == a \o coreProfileConfigSchemaSQL
<1>2. a \in Seq(CoreAllowed)
  BY <1>1, CoreParts, ConcatProperties
<1>3. Len(a) \in Nat /\ Len(a) >= Len(coreRunSchemaSQL)
  BY CoreParts, ConcatLonger
<1> HIDE DEF a
<1>4. b \in Seq(CoreAllowed) /\ Len(b) \in Nat /\ Len(b) >= Len(a)
  BY <1>2, CoreParts, ConcatLonger, ConcatProperties
<1> HIDE DEF b
<1>5. Len(b \o coreEnvironmentCatalogSchemaSQL) \in Nat
      /\ Len(b \o coreEnvironmentCatalogSchemaSQL) >= Len(b)
  BY <1>4, CoreParts, ConcatLonger
<1>6. Len(b \o coreEnvironmentCatalogSchemaSQL) >= 4
  BY <1>1, <1>3, <1>4, <1>5
<1> QED
  BY <1>5, <1>6 DEF CoreSchemaSQL, a, b

LEMMA WhenSeq ==
    ASSUME NEW S, NEW condition \in BOOLEAN, NEW statements \in Seq(S)
    PROVE  When(condition, statements) \in Seq(S)
BY DEF When

LEMMA WhenOf ==
    ASSUME NEW statements PROVE When(TRUE, statements) = statements
BY DEF When

\* Concatenations contain what their parts contain.
LEMMA ConcatContains ==
    ASSUME NEW S, NEW a \in Seq(S), NEW b \in Seq(S), NEW s,
           Includes(a, s) \/ Includes(b, s)
    PROVE  Includes(a \o b, s)
<1>1. /\ Len(a \o b) = Len(a) + Len(b) /\ Len(a) \in Nat /\ Len(b) \in Nat
      /\ \A i \in 1 .. Len(a) + Len(b) : (a \o b)[i] = IF i <= Len(a) THEN a[i] ELSE b[i - Len(a)]
  BY ConcatProperties
<1>2. CASE Includes(a, s)
  <2>1. PICK i \in 1 .. Len(a) : a[i] = s
    BY <1>2 DEF Includes
  <2>2. i \in 1 .. Len(a \o b) /\ (a \o b)[i] = s
    BY <1>1, <2>1
  <2> QED
    BY <2>2 DEF Includes
<1>3. CASE Includes(b, s)
  <2>1. PICK i \in 1 .. Len(b) : b[i] = s
    BY <1>3 DEF Includes
  <2>2. i + Len(a) \in 1 .. Len(a \o b) /\ (a \o b)[i + Len(a)] = s
    BY <1>1, <2>1
  <2> QED
    BY <2>2 DEF Includes
<1> QED
  BY <1>2, <1>3

\* The changes an older schema needs.
ModifyRunIds == << Statement("modify", {"run ids"}) >>
RunsColumn == << Statement("column", {"runs.environment_id"}),
                 Statement("drop", {"service_config_assets", "service_dependencies"}) >>
ModifyConfigIds == << Statement("modify", {"config ids"}) >>
ModifyProfileIds == << Statement("modify", {"profile ids"}) >>

\* Sequences of one and of two statements.
LEMMA ShortSeqs ==
    ASSUME NEW S, NEW s \in S, NEW t \in S
    PROVE  << s >> \in Seq(S) /\ << s, t >> \in Seq(S)
OBVIOUS

LEMMA ChangeSeqs ==
    /\ ModifyRunIds \in Seq(Allowed) /\ RunsColumn \in Seq(Allowed)
    /\ mysqlMediumTextMigrationSQL \in Seq(Allowed)
    /\ ModifyConfigIds \in Seq(Allowed) /\ ModifyProfileIds \in Seq(Allowed)
    /\ schemaCommentSQL \in Seq(Allowed)
<1>1. /\ Statement("modify", {"run ids"}) \in Allowed
      /\ Statement("modify", {"medium text"}) \in Allowed
      /\ Statement("modify", {"config ids"}) \in Allowed
      /\ Statement("modify", {"profile ids"}) \in Allowed
      /\ Statement("comment", {"comments"}) \in Allowed
      /\ Statement("column", {"runs.environment_id"}) \in Allowed
  BY StatementAllowed, ColumnAllowed DEF PartNames, AddColumn
<1>2. Statement("drop", {"service_config_assets", "service_dependencies"}) \in Allowed
  BY DEF Statement, Allowed, OldTables, PartNames
<1>3. << Statement("column", {"runs.environment_id"}),
         Statement("drop", {"service_config_assets", "service_dependencies"}) >> \in Seq(Allowed)
  BY <1>1, <1>2, ShortSeqs
<1>4. \A s \in Allowed : << s >> \in Seq(Allowed)
  BY ShortSeqs
<1> QED
  BY <1>1, <1>3, <1>4 DEF ModifyRunIds, RunsColumn, mysqlMediumTextMigrationSQL, ModifyConfigIds,
                    ModifyProfileIds, schemaCommentSQL

LEMMA IncrementalSeq ==
    ASSUME NEW c \in Nat
    PROVE  /\ incrementalSchemaSQL(c) \in Seq(Allowed)
           /\ c \in 1 .. 5 => Includes(incrementalSchemaSQL(c), AddColumn)
<1> DEFINE a == When(dialect = "mysql" /\ c < 5, ModifyRunIds)
           b == When(c < 6, RunsColumn)
           d == When(dialect = "mysql" /\ c < 7, mysqlMediumTextMigrationSQL)
           e == When(dialect = "mysql" /\ c < 8, ModifyConfigIds)
           f == When(dialect = "mysql" /\ c < 9, ModifyProfileIds)
           all == a \o b \o d \o e \o f
<1>0. incrementalSchemaSQL(c) = When(c # 0 /\ c < CurrentSchemaVersion, all)
  BY DEF incrementalSchemaSQL, ModifyRunIds, RunsColumn, ModifyConfigIds, ModifyProfileIds
<1>1. a \in Seq(Allowed) /\ b \in Seq(Allowed) /\ d \in Seq(Allowed) /\ e \in Seq(Allowed)
      /\ f \in Seq(Allowed)
  <2>1. (dialect = "mysql" /\ c < 5) \in BOOLEAN /\ (c < 6) \in BOOLEAN
        /\ (dialect = "mysql" /\ c < 7) \in BOOLEAN /\ (dialect = "mysql" /\ c < 8) \in BOOLEAN
        /\ (dialect = "mysql" /\ c < 9) \in BOOLEAN
    OBVIOUS
  <2>2. a \in Seq(Allowed) /\ b \in Seq(Allowed)
    BY <2>1, ChangeSeqs DEF When
  <2>3. d \in Seq(Allowed) /\ e \in Seq(Allowed)
    BY <2>1, ChangeSeqs DEF When
  <2>4. f \in Seq(Allowed)
    BY <2>1, ChangeSeqs DEF When
  <2> QED
    BY <2>2, <2>3, <2>4
<1>2. c \in 1 .. 5 => b = RunsColumn
  BY DEF When
<1>3. Includes(RunsColumn, AddColumn)
  BY DEF Includes, RunsColumn, AddColumn
<1> HIDE DEF a, b, d, e, f
<1>4. a \o b \in Seq(Allowed) /\ (c \in 1 .. 5 => Includes(a \o b, AddColumn))
  BY <1>1, <1>2, <1>3, ConcatProperties, ConcatContains
<1>5. a \o b \o d \in Seq(Allowed) /\ (c \in 1 .. 5 => Includes(a \o b \o d, AddColumn))
  BY <1>1, <1>4, ConcatProperties, ConcatContains
<1>6. a \o b \o d \o e \in Seq(Allowed) /\ (c \in 1 .. 5 => Includes(a \o b \o d \o e, AddColumn))
  BY <1>1, <1>5, ConcatProperties, ConcatContains
<1>7. all \in Seq(Allowed) /\ (c \in 1 .. 5 => Includes(all, AddColumn))
  BY <1>1, <1>6, ConcatProperties, ConcatContains
<1> HIDE DEF all
<1>8. When(c # 0 /\ c < CurrentSchemaVersion, all) \in Seq(Allowed)
  BY <1>7, WhenSeq
<1>9. c \in 1 .. 5 => When(c # 0 /\ c < CurrentSchemaVersion, all) = all
  BY DEF When, CurrentSchemaVersion
<1> QED
  BY <1>0, <1>7, <1>8, <1>9

\* The statements of an upgrade are allowed ones; they contain a fresh schema, and for the
\* versions that lack the column of runs, the one that adds it.
LEMMA UpgradeSeq ==
    ASSUME NEW c \in Nat
    PROVE  /\ UpgradeStatements(c) \in Seq(Allowed)
           /\ \A i \in 1 .. Len(CoreSchemaSQL) : Includes(UpgradeStatements(c), CoreSchemaSQL[i])
           /\ c \in 1 .. 5 => Includes(UpgradeStatements(c), AddColumn)
<1>1. CoreSchemaSQL \in Seq(Allowed)
  BY CoreSeq DEF CoreAllowed
<1>2. \A i \in 1 .. Len(CoreSchemaSQL) : Includes(CoreSchemaSQL, CoreSchemaSQL[i])
  BY DEF Includes
<1> DEFINE a == CoreSchemaSQL \o incrementalSchemaSQL(c)
<1>3. /\ a \in Seq(Allowed)
      /\ \A i \in 1 .. Len(CoreSchemaSQL) : Includes(a, CoreSchemaSQL[i])
      /\ c \in 1 .. 5 => Includes(a, AddColumn)
  BY <1>1, <1>2, IncrementalSeq, ConcatProperties, ConcatContains
<1> HIDE DEF a
<1>4. a \o schemaCommentSQL \in Seq(Allowed)
  BY <1>3, ChangeSeqs, ConcatProperties
<1>5. \A s : Includes(a, s) => Includes(a \o schemaCommentSQL, s)
  BY <1>3, ChangeSeqs, ConcatContains
<1> QED
  BY <1>3, <1>4, <1>5 DEF UpgradeStatements, a

-----------------------------------------------------------------------------
(* Steps of processes.                                                     *)

ProcRecord == [pc : {"idle", "statements", "change", "record", "open", "failed", "stopped"},
               current : Nat, next : Nat, tries : Nat, raced : BOOLEAN, afterKill : BOOLEAN]

Procs == procs \in [Upgraders -> ProcRecord]

\* A step of one process leaves the others where they are.
LEMMA StepsOthers ==
    ASSUME Procs, NEW u \in Upgraders, NEW p \in ProcRecord, Steps(u, p)
    PROVE  /\ Procs' /\ procs'[u] = p
           /\ \A x \in Upgraders \ {u} : /\ procs'[x].pc = procs[x].pc
                                         /\ procs'[x].current = procs[x].current
                                         /\ procs'[x].next = procs[x].next
BY DEF Procs, ProcRecord, Steps

LEMMA LeavesRecord ==
    ASSUME Procs, NEW u \in Upgraders, NEW result \in {"failed", "stopped", "open"}
    PROVE  /\ [procs[u] EXCEPT !.pc = result] \in ProcRecord
           /\ [procs[u] EXCEPT !.pc = result].pc = result
BY DEF Procs, ProcRecord

-----------------------------------------------------------------------------
(* MySQL and PostgreSQL.                                                   *)

FirstRecorded == {from} \ {0}

\* The column an old table of runs lacks until it is added.
Lacking(s) == IF s.kind = "create" /\ from \in 1 .. 5 THEN {"runs.environment_id"} ELSE {}

Made(s) == s.kind # "drop" => s.parts \cap NeededSql \subseteq schema \cup Lacking(s)

Done(n) == \A i \in 1 .. n : Made(UpgradeStatements(from)[i])

SqlProc(u) ==
    /\ procs[u].pc # "change"
    /\ procs[u].pc = "statements" =>
          /\ procs[u].current = from /\ from < CurrentSchemaVersion
          /\ procs[u].next \in 1 .. Len(UpgradeStatements(from))
          /\ Done(procs[u].next - 1)
    /\ procs[u].pc = "record" => NeededSql \subseteq schema
    /\ procs[u].pc = "open" => CurrentSchemaVersion \in recorded

SqlStore ==
    /\ from \in 0 .. CurrentSchemaVersion
    /\ recorded \in {FirstRecorded, FirstRecorded \cup {CurrentSchemaVersion}}
    /\ CurrentSchemaVersion \in recorded => NeededSql \subseteq schema
    /\ from \notin 1 .. 5 /\ "runs" \in schema => RunsTable \cap NeededSql \subseteq schema
    /\ \A u \in Upgraders : SqlProc(u)

-----------------------------------------------------------------------------
(* SQLite.                                                                 *)

SqliteProc(u) ==
    /\ procs[u].pc \notin {"statements", "record"}
    /\ procs[u].pc = "change" => /\ procs[u].next \in 1 .. CurrentVersion
                                 /\ 1 .. procs[u].next - 1 \subseteq recorded
    /\ procs[u].pc = "open" => CurrentVersion \in recorded

\* Versions are recorded one after the other.
SqliteStore ==
    /\ \E k \in 0 .. CurrentVersion : recorded = 1 .. k
    /\ \A v \in recorded : changes[v] \subseteq schema
    /\ \A u \in Upgraders : SqliteProc(u)

\* The inductive invariant: RecordedMeansApplied says nothing of the statements of an upgrade
\* that is under way.
UpgradeInv ==
    /\ dialect \in {"mysql", "postgres", "sqlite"}
    /\ Procs /\ killed \in BOOLEAN
    /\ IF dialect = "sqlite" THEN SqliteStore ELSE SqlStore

LEMMA HighestOfOne == \A n \in Nat : Highest({n} \ {0}) = n
BY DEF Highest

LEMMA HighestWith ==
    ASSUME NEW n \in Nat, NEW m \in Nat, n <= m
    PROVE  Highest(({n} \ {0}) \cup {m}) = m
BY DEF Highest

LEMMA HighestUpTo == \A k \in Nat : Highest(1 .. k) = k
BY DEF Highest

-----------------------------------------------------------------------------
LEMMA UpgradeInit == SchemaInit => UpgradeInv
<1> SUFFICES ASSUME SchemaInit PROVE UpgradeInv
  OBVIOUS
<1>1. dialect \in {"mysql", "postgres", "sqlite"} /\ Procs /\ killed \in BOOLEAN
  BY DEF SchemaInit, Procs, ProcRecord, NewProc
<1>2. \A u \in Upgraders : procs[u].pc = "idle"
  BY DEF SchemaInit, NewProc
<1>3. CASE dialect = "sqlite"
  <2>1. from \in 0 .. CurrentVersion /\ recorded = 1 .. from /\ schema = NeededSqlite(from)
    BY <1>3, SchemaConstants DEF SchemaInit
  <2>2. \A v \in recorded : changes[v] \subseteq schema
    BY <2>1 DEF NeededSqlite
  <2> QED
    BY <1>1, <1>2, <1>3, <2>1, <2>2 DEF UpgradeInv, SqliteStore, SqliteProc
<1>4. CASE dialect # "sqlite"
  <2>1. from \in 0 .. CurrentSchemaVersion /\ recorded = FirstRecorded /\ schema = OldSql(from)
    BY <1>4, SchemaConstants DEF SchemaInit, FirstRecorded
  <2>2. from \in 6 .. CurrentSchemaVersion => NeededSql \subseteq schema
    BY <2>1 DEF OldSql
  <2>3. from = 0 => schema = {}
    BY <2>1 DEF OldSql
  <2>4. CurrentSchemaVersion \in recorded => NeededSql \subseteq schema
    BY <2>1, <2>2 DEF FirstRecorded, CurrentSchemaVersion
  <2>5. from \notin 1 .. 5 /\ "runs" \in schema => RunsTable \cap NeededSql \subseteq schema
    BY <2>1, <2>2, <2>3 DEF CurrentSchemaVersion
  <2> QED
    BY <1>1, <1>2, <1>4, <2>1, <2>4, <2>5 DEF UpgradeInv, SqlStore, SqlProc
<1> QED
  BY <1>3, <1>4

-----------------------------------------------------------------------------
(* Steps of MySQL and PostgreSQL upgrades.                                 *)

LEMMA SameStatements ==
    ASSUME UNCHANGED <<dialect, from>>
    PROVE  \A c : UpgradeStatements(c)' = UpgradeStatements(c)
BY DEF UpgradeStatements, incrementalSchemaSQL

\* What was made stays made as long as nothing needed is taken away.
LEMMA MadeStays ==
    ASSUME UNCHANGED <<dialect, from>>, NeededSql \cap schema \subseteq schema'
    PROVE  \A s : Made(s) => Made(s)'
<1>1. \A s : Lacking(s)' = Lacking(s)
  BY DEF Lacking
<1> QED
  BY <1>1 DEF Made

\* The processes that do not take the step.
LEMMA SqlOthers ==
    ASSUME Procs, SqlStore, NEW u \in Upgraders, NEW p \in ProcRecord, Steps(u, p),
           UNCHANGED <<dialect, from>>, NeededSql \cap schema \subseteq schema',
           recorded \subseteq recorded',
           NEW x \in Upgraders, x # u
    PROVE  SqlProc(x)'
<1>1. /\ procs'[x].pc = procs[x].pc /\ procs'[x].current = procs[x].current
      /\ procs'[x].next = procs[x].next
  BY StepsOthers
<1>2. UpgradeStatements(from)' = UpgradeStatements(from)
  BY DEF UpgradeStatements, incrementalSchemaSQL
<1>3. Done(procs[x].next - 1) => Done(procs[x].next - 1)'
  BY <1>1, <1>2, MadeStays DEF Done
<1>4. SqlProc(x)
  BY DEF SqlStore
<1> QED
  BY <1>1, <1>2, <1>3, <1>4 DEF SqlProc

\* A step that leaves the schema and the versions alone.
LEMMA SqlQuiet ==
    ASSUME Procs, SqlStore, NEW u \in Upgraders, NEW p \in ProcRecord, Steps(u, p),
           UNCHANGED <<dialect, from, schema, recorded>>, SqlProc(u)'
    PROVE  SqlStore' /\ Procs'
<1>1. \A x \in Upgraders : SqlProc(x)'
  BY SqlOthers
<1> QED
  BY <1>1, StepsOthers DEF SqlStore, FirstRecorded

\* What a process that opens the Store goes on with.
LEMMA ReadRecord ==
    ASSUME Procs, killed \in BOOLEAN, Highest(recorded) \in Nat, NEW u \in Upgraders, ReadVersion(u)
    PROVE  \E p \in ProcRecord :
              /\ Steps(u, p) /\ procs'[u] = p
              /\ p.pc = IF Highest(recorded) >= Target THEN "open"
                        ELSE IF dialect = "sqlite" THEN "change" ELSE "statements"
              /\ p.current = Highest(recorded)
              /\ p.next = IF dialect = "sqlite" THEN Highest(recorded) + 1 ELSE 1
              /\ p.raced <=> \E x \in Upgraders \ {u} : Running(x)
              /\ p.afterKill = killed
<1> DEFINE version == Highest(recorded)
           p == [pc |-> IF version >= Target THEN "open"
                        ELSE IF dialect = "sqlite" THEN "change" ELSE "statements",
                 current |-> version,
                 next |-> IF dialect = "sqlite" THEN version + 1 ELSE 1,
                 tries |-> IF procs[u].pc = "idle" THEN 0 ELSE procs[u].tries + 1,
                 raced |-> \E x \in Upgraders \ {u} : Running(x),
                 afterKill |-> killed]
<1>1. Steps(u, p)
  BY DEF ReadVersion
<1>2. p \in ProcRecord
  BY DEF Procs, ProcRecord
<1>3. /\ p.pc = IF version >= Target THEN "open"
                ELSE IF dialect = "sqlite" THEN "change" ELSE "statements"
      /\ p.current = version
      /\ p.next = IF dialect = "sqlite" THEN version + 1 ELSE 1
      /\ p.raced <=> \E x \in Upgraders \ {u} : Running(x)
      /\ p.afterKill = killed
  OBVIOUS
<1> HIDE DEF p, version
<1>4. procs'[u] = p
  BY <1>1, <1>2, StepsOthers
<1> QED
  BY <1>1, <1>2, <1>3, <1>4 DEF version

LEMMA SqlReads ==
    ASSUME Procs, killed \in BOOLEAN, SqlStore, dialect # "sqlite", NEW u \in Upgraders, ReadVersion(u)
    PROVE  SqlStore' /\ Procs'
<1>1. Target = CurrentSchemaVersion /\ CurrentSchemaVersion \in Nat /\ from \in Nat
      /\ from <= CurrentSchemaVersion
  BY DEF Target, SqlStore, CurrentSchemaVersion
<1>2. \/ recorded = FirstRecorded /\ Highest(recorded) = from
      \/ CurrentSchemaVersion \in recorded /\ Highest(recorded) = CurrentSchemaVersion
  BY <1>1, HighestOfOne, HighestWith DEF SqlStore, FirstRecorded
<1>3. PICK p \in ProcRecord :
          /\ Steps(u, p) /\ procs'[u] = p
          /\ p.pc = IF Highest(recorded) >= Target THEN "open" ELSE "statements"
          /\ p.current = Highest(recorded) /\ p.next = 1
  BY <1>1, <1>2, ReadRecord
<1>4. UNCHANGED <<dialect, from, schema, recorded>>
  BY DEF ReadVersion
<1>5. CASE p.pc = "open"
  <2>1. CurrentSchemaVersion \in recorded
    BY <1>1, <1>2, <1>3, <1>5 DEF FirstRecorded, CurrentSchemaVersion
  <2>2. SqlProc(u)'
    BY <1>3, <1>4, <1>5, <2>1 DEF SqlProc
  <2> QED
    BY <1>3, <1>4, <2>2, SqlQuiet
<1>6. CASE p.pc = "statements"
  <2>1. p.current = from /\ from < CurrentSchemaVersion
    BY <1>1, <1>2, <1>3, <1>6
  <2>2. 1 \in 1 .. Len(UpgradeStatements(from))
    <3>1. Includes(CoreSchemaSQL, CoreSchemaSQL[1])
      BY CoreLength DEF Includes
    <3>2. Includes(UpgradeStatements(from), CoreSchemaSQL[1]) /\ UpgradeStatements(from) \in Seq(Allowed)
      BY <1>1, CoreLength, UpgradeSeq
    <3> QED
      BY <3>2 DEF Includes
  <2>3. UpgradeStatements(from)' = UpgradeStatements(from)
    BY <1>4 DEF UpgradeStatements, incrementalSchemaSQL
  <2>4. SqlProc(u)'
    BY <1>3, <1>4, <1>6, <2>1, <2>2, <2>3 DEF SqlProc, Done
  <2> QED
    BY <1>3, <1>4, <2>4, SqlQuiet
<1> QED
  BY <1>3, <1>5, <1>6

\* Dropped tables are none the program needs.
LEMMA OldNotNeeded == OldTables \cap NeededSql = {}
<1>1. \A i \in DOMAIN CoreSchemaSQL : CoreSchemaSQL[i] \in CoreAllowed
  BY CoreSeq
<1> QED
  BY <1>1 DEF NeededSql, Parts, CoreAllowed

\* After its last statement, an upgrade has made all the program needs.
LEMMA AllMade ==
    from \in Nat /\ Done(Len(UpgradeStatements(from))) => NeededSql \subseteq schema
<1> SUFFICES ASSUME from \in Nat, Done(Len(UpgradeStatements(from))), NEW x \in NeededSql
             PROVE  x \in schema
  OBVIOUS
<1>1. PICK i \in 1 .. Len(CoreSchemaSQL) : x \in CoreSchemaSQL[i].parts
  BY CoreSeq DEF NeededSql, Parts
<1>2. CoreSchemaSQL[i] \in CoreAllowed
  BY CoreSeq
<1>3. CoreSchemaSQL[i].kind # "drop"
  BY <1>1, <1>2 DEF CoreAllowed, Allowed
<1>4. Made(CoreSchemaSQL[i])
  BY UpgradeSeq DEF Includes, Done
<1>5. x \in schema \cup Lacking(CoreSchemaSQL[i])
  BY <1>1, <1>3, <1>4 DEF Made
<1>6. CASE from \in 1 .. 5 /\ x = "runs.environment_id"
  <2>1. Made(AddColumn)
    BY <1>6, UpgradeSeq DEF Includes, Done
  <2>2. AddColumn.kind = "column" /\ AddColumn.parts = {"runs.environment_id"}
    BY DEF AddColumn, Statement
  <2> QED
    BY <1>6, <2>1, <2>2 DEF Made, Lacking
<1> QED
  BY <1>5, <1>6 DEF Lacking

\* A statement that was executed, or that was there before.
LEMMA StatementDone ==
    ASSUME SqlStore, UNCHANGED <<dialect, from>>, NEW s \in Allowed,
           \/ schema' = Effect(s)
           \/ schema' = schema /\ s.kind = "index" /\ s.parts \subseteq schema
    PROVE  /\ NeededSql \cap schema \subseteq schema'
           /\ Made(s)'
           /\ from \notin 1 .. 5 /\ "runs" \in schema' => RunsTable \cap NeededSql \subseteq schema'
<1>1. CASE s.kind = "drop"
  <2>1. schema' = schema \ s.parts /\ s.parts \cap NeededSql = {}
    BY <1>1, OldNotNeeded DEF Effect, Allowed
  <2> QED
    BY <1>1, <2>1 DEF Made, SqlStore
<1>2. CASE s.kind = "create" /\ "runs" \in s.parts /\ "runs" \in schema
  <2>1. schema' = schema /\ s.parts = RunsTable
    BY <1>2 DEF Effect, Allowed, Statement
  <2> QED
    BY <1>2, <2>1 DEF Made, Lacking, SqlStore, RunsTable
<1>3. CASE s.kind # "drop" /\ ~(s.kind = "create" /\ "runs" \in s.parts /\ "runs" \in schema)
  <2>1. schema' = schema \cup s.parts
    BY <1>3 DEF Effect
  <2>2. "runs" \in s.parts => s.parts = RunsTable
    BY DEF Allowed, Statement
  <2> QED
    BY <1>3, <2>1, <2>2 DEF Made, SqlStore
<1> QED
  BY <1>1, <1>2, <1>3

LEMMA SqlExecutes ==
    ASSUME Procs, SqlStore, dialect # "sqlite", NEW u \in Upgraders, ExecStatement(u)
    PROVE  SqlStore' /\ Procs' /\ NeededSql \cap schema \subseteq schema'
<1>1. PICK n : n = procs[u].next
  OBVIOUS
<1>2. PICK all : all = UpgradeStatements(from)
  OBVIOUS
<1>3. PICK s : s = all[n]
  OBVIOUS
<1>4. /\ procs[u].pc = "statements" /\ procs[u].current = from /\ from < CurrentSchemaVersion
      /\ n \in 1 .. Len(all) /\ (\A i \in 1 .. n - 1 : Made(all[i])) /\ from \in Nat
  BY <1>1, <1>2 DEF ExecStatement, SqlStore, SqlProc, Done
<1>5. all \in Seq(Allowed) /\ s \in Allowed /\ Len(all) \in Nat
  BY <1>2, <1>3, <1>4, UpgradeSeq
<1>6. UNCHANGED <<dialect, from, recorded>>
  BY DEF ExecStatement
<1>7. UpgradeStatements(from)' = all
  BY <1>2, <1>6 DEF UpgradeStatements, incrementalSchemaSQL
<1> DEFINE last == n = Len(all)
           following == [procs[u] EXCEPT !.pc = IF last THEN "record" ELSE "statements", !.next = n + 1]
<1>8. \/ schema' = schema /\ Leaves(u, "failed")
      \/ /\ \/ schema' = Effect(s)
            \/ schema' = schema /\ s.kind = "index" /\ s.parts \subseteq schema
         /\ Steps(u, following)
  BY <1>1, <1>2, <1>3, <1>4 DEF ExecStatement, Statements, Fails, isIdempotentSchemaReplayError
<1>9. CASE schema' = schema /\ Leaves(u, "failed")
  <2>1. [procs[u] EXCEPT !.pc = "failed"] \in ProcRecord
        /\ [procs[u] EXCEPT !.pc = "failed"].pc = "failed"
    BY LeavesRecord
  <2>2. Steps(u, [procs[u] EXCEPT !.pc = "failed"])
    BY <1>9 DEF Leaves
  <2>3. SqlProc(u)'
    BY <2>1, <2>2, StepsOthers DEF SqlProc
  <2> QED
    BY <1>6, <1>9, <2>1, <2>2, <2>3, SqlQuiet
<1>10. CASE /\ \/ schema' = Effect(s)
               \/ schema' = schema /\ s.kind = "index" /\ s.parts \subseteq schema
            /\ Steps(u, following)
  <2>1. /\ NeededSql \cap schema \subseteq schema'
        /\ Made(s)'
        /\ from \notin 1 .. 5 /\ "runs" \in schema' => RunsTable \cap NeededSql \subseteq schema'
    BY <1>6, <1>5, <1>10, StatementDone
  <2>2. n + 1 \in Nat
    BY <1>4, <1>5
  <2>3. procs[u] \in ProcRecord
    BY DEF Procs
  <2>4. following \in ProcRecord
    BY <2>2, <2>3 DEF ProcRecord
  <2>5. /\ following.pc = IF last THEN "record" ELSE "statements"
        /\ following.next = n + 1 /\ following.current = from
    BY <1>4, <2>3 DEF ProcRecord
  <2> HIDE DEF following
  <2>6. procs'[u] = following
    BY <1>10, <2>4, StepsOthers
  <2>7. \A i \in 1 .. n : Made(all[i])'
    <3> SUFFICES ASSUME NEW i \in 1 .. n PROVE Made(all[i])'
      OBVIOUS
    <3>1. CASE i = n
      BY <3>1, <2>1, <1>3
    <3>2. CASE i # n
      <4>1. Made(all[i])
        BY <1>4, <1>5, <3>2
      <4> QED
        BY <4>1, <2>1, <1>6, MadeStays
    <3> QED
      BY <3>1, <3>2
  <2>8. last => NeededSql \subseteq schema'
    <3>1. (from \in Nat /\ Done(Len(UpgradeStatements(from))) => NeededSql \subseteq schema)'
      BY AllMade, PTL
    <3>2. last => Done(Len(UpgradeStatements(from)))'
      BY <1>7, <2>7 DEF Done
    <3> QED
      BY <3>1, <3>2, <1>4, <1>6
  <2>9. SqlProc(u)'
    <3>1. last => SqlProc(u)'
      BY <2>5, <2>6, <2>8 DEF SqlProc
    <3>2. ~last => n + 1 \in 1 .. Len(all)
      BY <1>4, <1>5
    <3>3. ~last => SqlProc(u)'
      <4> SUFFICES ASSUME ~last PROVE SqlProc(u)'
        OBVIOUS
      <4>1. procs'[u].pc = "statements" /\ procs'[u].next = n + 1 /\ procs'[u].current = from
        BY <2>5, <2>6
      <4>2. Done(procs[u].next - 1)'
        BY <4>1, <1>4, <1>5, <1>7, <2>7 DEF Done
      <4> QED
        BY <4>1, <4>2, <3>2, <1>4, <1>6, <1>7 DEF SqlProc
    <3> QED
      BY <3>1, <3>3
  <2>10. \A x \in Upgraders : SqlProc(x)'
    BY <1>6, <1>10, <2>1, <2>4, <2>9, SqlOthers
  <2> QED
    BY <1>6, <1>10, <2>1, <2>4, <2>10, StepsOthers DEF SqlStore, FirstRecorded
<1> QED
  BY <1>8, <1>9, <1>10

LEMMA SqlRecords ==
    ASSUME Procs, SqlStore, dialect # "sqlite", NEW u \in Upgraders, RecordVersion(u)
    PROVE  SqlStore' /\ Procs'
<1>1. /\ procs[u].pc = "record" /\ recorded' = recorded \cup {CurrentSchemaVersion}
      /\ Steps(u, [procs[u] EXCEPT !.pc = "open"]) /\ UNCHANGED <<dialect, from, schema>>
  BY DEF RecordVersion, Leaves
<1>2. NeededSql \subseteq schema
  BY <1>1 DEF SqlStore, SqlProc
<1>3. [procs[u] EXCEPT !.pc = "open"] \in ProcRecord /\ procs'[u].pc = "open"
  BY <1>1, LeavesRecord, StepsOthers
<1>4. SqlProc(u)'
  BY <1>1, <1>3 DEF SqlProc
<1>5. \A x \in Upgraders : SqlProc(x)'
  BY <1>1, <1>3, <1>4, SqlOthers
<1>6. recorded' = FirstRecorded \cup {CurrentSchemaVersion}
  BY <1>1 DEF SqlStore
<1>7. Procs'
  BY <1>1, <1>3, StepsOthers
<1> QED
  BY <1>1, <1>2, <1>5, <1>6, <1>7 DEF SqlStore, FirstRecorded

LEMMA SqlStops ==
    ASSUME Procs, SqlStore, dialect # "sqlite", NEW u \in Upgraders, StopUpgrade(u)
    PROVE  SqlStore' /\ Procs'
<1>1. Steps(u, [procs[u] EXCEPT !.pc = "stopped"]) /\ UNCHANGED <<dialect, from, schema, recorded>>
  BY DEF StopUpgrade, Leaves
<1>2. [procs[u] EXCEPT !.pc = "stopped"] \in ProcRecord /\ procs'[u].pc = "stopped"
  BY <1>1, LeavesRecord, StepsOthers
<1> QED
  BY <1>1, <1>2, SqlQuiet DEF SqlProc

-----------------------------------------------------------------------------
(* Steps of SQLite upgrades.                                               *)

LEMMA SqliteOthers ==
    ASSUME Procs, SqliteStore, NEW u \in Upgraders, NEW p \in ProcRecord, Steps(u, p),
           recorded \subseteq recorded', NEW x \in Upgraders, x # u
    PROVE  SqliteProc(x)'
<1>1. procs'[x].pc = procs[x].pc /\ procs'[x].next = procs[x].next
  BY StepsOthers
<1> QED
  BY <1>1 DEF SqliteStore, SqliteProc

LEMMA SqliteQuiet ==
    ASSUME Procs, SqliteStore, NEW u \in Upgraders, NEW p \in ProcRecord, Steps(u, p),
           UNCHANGED <<schema, recorded>>, SqliteProc(u)'
    PROVE  SqliteStore' /\ Procs'
<1>1. \A x \in Upgraders : SqliteProc(x)'
  BY SqliteOthers
<1> QED
  BY <1>1, StepsOthers DEF SqliteStore

LEMMA SqliteReads ==
    ASSUME Procs, killed \in BOOLEAN, SqliteStore, dialect = "sqlite", NEW u \in Upgraders, ReadVersion(u)
    PROVE  SqliteStore' /\ Procs'
<1>1. PICK k \in 0 .. CurrentVersion : recorded = 1 .. k
  BY DEF SqliteStore
<1>2. Highest(recorded) = k /\ k \in Nat /\ Target = CurrentVersion /\ CurrentVersion \in Nat
  BY <1>1, HighestUpTo DEF Target, CurrentVersion
<1>3. PICK p \in ProcRecord :
          /\ Steps(u, p) /\ procs'[u] = p
          /\ p.pc = IF k >= CurrentVersion THEN "open" ELSE "change"
          /\ p.next = k + 1
  BY <1>2, ReadRecord
<1>4. UNCHANGED <<schema, recorded>>
  BY DEF ReadVersion
<1>5. SqliteProc(u)'
  BY <1>1, <1>2, <1>3, <1>4 DEF SqliteProc, CurrentVersion
<1> QED
  BY <1>3, <1>4, <1>5, SqliteQuiet

LEMMA SqliteApplies ==
    ASSUME Procs, SqliteStore, dialect = "sqlite", NEW u \in Upgraders, ApplyChange(u)
    PROVE  SqliteStore' /\ Procs' /\ schema \subseteq schema' /\ recorded \subseteq recorded'
<1>1. PICK v : v = procs[u].next
  OBVIOUS
<1>2. procs[u].pc = "change" /\ v \in 1 .. CurrentVersion /\ 1 .. v - 1 \subseteq recorded
  BY <1>1 DEF ApplyChange, SqliteStore, SqliteProc
<1>3. PICK k \in 0 .. CurrentVersion : recorded = 1 .. k
  BY DEF SqliteStore
<1> DEFINE following == [procs[u] EXCEPT !.next = v + 1,
                                         !.pc = IF v = CurrentVersion THEN "open" ELSE "change"]
<1>4. \/ /\ v \notin recorded /\ schema' = schema \cup changes[v]
         /\ recorded' = recorded \cup {v} /\ Steps(u, following)
      \/ Leaves(u, "failed") /\ UNCHANGED <<schema, recorded>>
  BY <1>1 DEF ApplyChange
<1>5. CASE /\ v \notin recorded /\ schema' = schema \cup changes[v]
           /\ recorded' = recorded \cup {v} /\ Steps(u, following)
  <2>1. v = k + 1
    <3>1. v \in Nat /\ k \in Nat /\ v >= 1
      BY <1>2 DEF CurrentVersion
    <3>2. v > k
      BY <3>1, <1>3, <1>5
    <3>3. ~(v > k + 1)
      <4> SUFFICES ASSUME v > k + 1 PROVE FALSE
        OBVIOUS
      <4>1. k + 1 \in 1 .. v - 1
        BY <3>1
      <4>2. k + 1 \in 1 .. k
        BY <4>1, <1>2, <1>3
      <4> QED
        BY <4>2, <3>1
    <3> QED
      BY <3>1, <3>2, <3>3
  <2>2. recorded' = 1 .. v
    BY <1>3, <1>5, <2>1 DEF CurrentVersion
  <2>a. procs[u] \in ProcRecord /\ v + 1 \in Nat
    BY <1>2 DEF Procs, CurrentVersion
  <2>3. following \in ProcRecord
    BY <2>a DEF ProcRecord
  <2>4. following.pc = (IF v = CurrentVersion THEN "open" ELSE "change") /\ following.next = v + 1
    BY <2>a DEF ProcRecord
  <2> HIDE DEF following
  <2>5. procs'[u] = following /\ Procs'
    BY <1>5, <2>3, StepsOthers
  <2>6. SqliteProc(u)'
    <3>1. v # 18 => v + 1 \in 1 .. 18 /\ 1 .. (v + 1) - 1 \subseteq recorded'
      BY <1>2, <2>2 DEF CurrentVersion
    <3>2. v = 18 => 18 \in recorded'
      BY <2>2
    <3> QED
      BY <2>4, <2>5, <3>1, <3>2 DEF SqliteProc, CurrentVersion
  <2>7. \A x \in Upgraders : SqliteProc(x)'
    BY <1>5, <2>3, <2>6, SqliteOthers
  <2>8. \A w \in recorded' : changes[w] \subseteq schema'
    BY <1>5 DEF SqliteStore
  <2> QED
    <3>1. v \in 0 .. CurrentVersion
      BY <1>2 DEF CurrentVersion
    <3> HIDE DEF CurrentVersion
    <3>2. SqliteStore'
      BY <2>2, <2>7, <2>8, <3>1 DEF SqliteStore
    <3> QED
      BY <3>2, <1>5, <2>5
<1>6. CASE Leaves(u, "failed") /\ UNCHANGED <<schema, recorded>>
  <2>1. [procs[u] EXCEPT !.pc = "failed"] \in ProcRecord /\ procs'[u].pc = "failed"
    BY <1>6, LeavesRecord, StepsOthers DEF Leaves
  <2> QED
    BY <1>6, <2>1, SqliteQuiet DEF SqliteProc, Leaves
<1> QED
  BY <1>4, <1>5, <1>6

LEMMA SqliteStops ==
    ASSUME Procs, SqliteStore, NEW u \in Upgraders, StopUpgrade(u)
    PROVE  SqliteStore' /\ Procs'
<1>1. Steps(u, [procs[u] EXCEPT !.pc = "stopped"]) /\ UNCHANGED <<schema, recorded>>
  BY DEF StopUpgrade, Leaves
<1>2. [procs[u] EXCEPT !.pc = "stopped"] \in ProcRecord /\ procs'[u].pc = "stopped"
  BY <1>1, LeavesRecord, StepsOthers
<1> QED
  BY <1>1, <1>2, SqliteQuiet DEF SqliteProc

-----------------------------------------------------------------------------
LEMMA UpgradeStepInv ==
    ASSUME UpgradeInv, NEW u \in Upgraders, UpgradeStep(u) \/ StopUpgrade(u)
    PROVE  /\ UpgradeInv'
           /\ recorded \subseteq recorded' /\ schema \cap Needed \subseteq schema'
<1>1. dialect' = dialect /\ killed' \in BOOLEAN
  BY DEF UpgradeInv, UpgradeStep, ReadVersion, ExecStatement, RecordVersion, ApplyChange, StopUpgrade
<1>2. CASE dialect = "sqlite"
  <2>1. SqliteStore' /\ Procs' /\ recorded \subseteq recorded' /\ schema \subseteq schema'
    <3>1. Procs /\ killed \in BOOLEAN /\ SqliteStore
      BY <1>2 DEF UpgradeInv
    <3>2. CASE ReadVersion(u)
      BY <1>2, <3>1, <3>2, SqliteReads DEF ReadVersion
    <3>3. CASE ApplyChange(u)
      BY <1>2, <3>1, <3>3, SqliteApplies
    <3>4. CASE StopUpgrade(u)
      BY <3>1, <3>4, SqliteStops DEF StopUpgrade
    <3>5. ~ExecStatement(u) /\ ~RecordVersion(u)
      BY <3>1 DEF SqliteStore, SqliteProc, ExecStatement, RecordVersion
    <3> QED
      BY <3>2, <3>3, <3>4, <3>5 DEF UpgradeStep
  <2> QED
    BY <1>1, <1>2, <2>1 DEF UpgradeInv
<1>3. CASE dialect # "sqlite"
  <2>1. SqlStore' /\ Procs' /\ recorded \subseteq recorded' /\ NeededSql \cap schema \subseteq schema'
    <3>1. Procs /\ killed \in BOOLEAN /\ SqlStore
      BY <1>3 DEF UpgradeInv
    <3>2. CASE ReadVersion(u)
      BY <1>3, <3>1, <3>2, SqlReads DEF ReadVersion
    <3>3. CASE ExecStatement(u)
      BY <1>3, <3>1, <3>3, SqlExecutes DEF ExecStatement
    <3>4. CASE RecordVersion(u)
      BY <1>3, <3>1, <3>4, SqlRecords DEF RecordVersion
    <3>5. CASE StopUpgrade(u)
      BY <1>3, <3>1, <3>5, SqlStops DEF StopUpgrade
    <3>6. ~ApplyChange(u)
      BY <3>1 DEF SqlStore, SqlProc, ApplyChange
    <3> QED
      BY <3>2, <3>3, <3>4, <3>5, <3>6 DEF UpgradeStep
  <2>2. Needed = NeededSql
    BY <1>3 DEF Needed
  <2> QED
    BY <1>1, <1>3, <2>1, <2>2 DEF UpgradeInv
<1> QED
  BY <1>2, <1>3

LEMMA UpgradeStutters ==
    ASSUME UpgradeInv, UNCHANGED schemaVars
    PROVE  UpgradeInv'
<1>1. UNCHANGED <<dialect, from, schema, recorded, procs, killed>>
  BY DEF schemaVars
<1>2. UpgradeStatements(from)' = UpgradeStatements(from)
  BY <1>1 DEF UpgradeStatements, incrementalSchemaSQL
<1>3. \A u \in Upgraders : SqlProc(u) => SqlProc(u)'
  BY <1>1, <1>2, MadeStays DEF SqlProc, Done
<1>4. SqlStore => SqlStore'
  BY <1>1, <1>3 DEF SqlStore, FirstRecorded
<1>5. SqliteStore => SqliteStore'
  BY <1>1 DEF SqliteStore, SqliteProc
<1> QED
  BY <1>1, <1>4, <1>5 DEF UpgradeInv, Procs

LEMMA UpgradeNextInv == UpgradeInv /\ [SchemaNext]_schemaVars => UpgradeInv'
BY UpgradeStepInv, UpgradeStutters DEF SchemaNext

LEMMA InvMeansApplied == UpgradeInv => RecordedMeansApplied
<1> SUFFICES ASSUME UpgradeInv PROVE RecordedMeansApplied
  OBVIOUS
<1>1. CASE dialect = "sqlite"
  <2>1. Needed = NeededSqlite(CurrentVersion) /\ Target = CurrentVersion
    BY <1>1 DEF Needed, Target
  <2>2. \A v \in recorded : changes[v] \subseteq schema
    BY <1>1 DEF UpgradeInv, SqliteStore
  <2>3. CurrentVersion \in recorded => Needed \subseteq schema
    <3> SUFFICES ASSUME CurrentVersion \in recorded PROVE Needed \subseteq schema
      OBVIOUS
    <3>1. 1 .. CurrentVersion \subseteq recorded
      BY <1>1 DEF UpgradeInv, SqliteStore, CurrentVersion
    <3> QED
      BY <2>1, <2>2, <3>1 DEF NeededSqlite
  <2>4. \A u \in Upgraders : procs[u].pc = "open" => CurrentVersion \in recorded
    BY <1>1 DEF UpgradeInv, SqliteStore, SqliteProc
  <2> QED
    BY <2>1, <2>2, <2>3, <2>4 DEF RecordedMeansApplied
<1>2. CASE dialect # "sqlite"
  <2>1. Needed = NeededSql /\ Target = CurrentSchemaVersion
    BY <1>2 DEF Needed, Target
  <2> QED
    BY <1>2, <2>1 DEF UpgradeInv, SqlStore, SqlProc, RecordedMeansApplied
<1> QED
  BY <1>1, <1>2

-----------------------------------------------------------------------------
(* Retries.  The one statement that cannot be repeated is the one that adds *)
(* a column: a process that is past it has nothing left that could fail.    *)

Plain == {s \in Allowed : s.kind \notin {"column", "create"}}
Repeating == {s \in Allowed : s.kind # "column"}

\* What follows the statement that adds the column.
ThenPlain(statements) ==
    \A i, j \in 1 .. Len(statements) :
        statements[i].kind = "column" /\ i < j => statements[j].kind \notin {"column", "create"}

LEMMA ConcatItems ==
    ASSUME NEW S, NEW a \in Seq(S), NEW b \in Seq(S)
    PROVE  /\ a \o b \in Seq(S) /\ Len(a) \in Nat /\ Len(b) \in Nat
           /\ Len(a \o b) = Len(a) + Len(b)
           /\ \A i \in 1 .. Len(a) + Len(b) :
                 \/ i \in 1 .. Len(a) /\ (a \o b)[i] = a[i]
                 \/ i - Len(a) \in 1 .. Len(b) /\ i > Len(a) /\ (a \o b)[i] = b[i - Len(a)]
<1>1. /\ a \o b \in Seq(S) /\ Len(a) \in Nat /\ Len(b) \in Nat
      /\ Len(a \o b) = Len(a) + Len(b)
      /\ \A i \in 1 .. Len(a) + Len(b) : (a \o b)[i] = IF i <= Len(a) THEN a[i] ELSE b[i - Len(a)]
  BY ConcatProperties
<1> QED
  BY <1>1

LEMMA PlainAfter ==
    ASSUME NEW a \in Seq(Allowed), NEW b \in Seq(Plain), ThenPlain(a)
    PROVE  a \o b \in Seq(Allowed) /\ ThenPlain(a \o b)
<1>1. b \in Seq(Allowed) /\ \A i \in 1 .. Len(b) : b[i].kind \notin {"column", "create"}
  BY DEF Plain
<1>2. /\ a \o b \in Seq(Allowed) /\ Len(a) \in Nat /\ Len(b) \in Nat
      /\ Len(a \o b) = Len(a) + Len(b)
      /\ \A i \in 1 .. Len(a) + Len(b) :
            \/ i \in 1 .. Len(a) /\ (a \o b)[i] = a[i]
            \/ i - Len(a) \in 1 .. Len(b) /\ i > Len(a) /\ (a \o b)[i] = b[i - Len(a)]
  BY <1>1, ConcatItems
<1> QED
  BY <1>1, <1>2 DEF ThenPlain

LEMMA RepeatingBefore ==
    ASSUME NEW a \in Seq(Repeating), NEW b \in Seq(Allowed), ThenPlain(b)
    PROVE  a \o b \in Seq(Allowed) /\ ThenPlain(a \o b)
<1>1. a \in Seq(Allowed) /\ \A i \in 1 .. Len(a) : a[i].kind # "column"
  BY DEF Repeating
<1>2. /\ a \o b \in Seq(Allowed) /\ Len(a) \in Nat /\ Len(b) \in Nat
      /\ Len(a \o b) = Len(a) + Len(b)
      /\ \A i \in 1 .. Len(a) + Len(b) :
            \/ i \in 1 .. Len(a) /\ (a \o b)[i] = a[i]
            \/ i - Len(a) \in 1 .. Len(b) /\ i > Len(a) /\ (a \o b)[i] = b[i - Len(a)]
  BY <1>1, ConcatItems
<1>3. ASSUME NEW i \in 1 .. Len(a \o b), NEW j \in 1 .. Len(a \o b),
             (a \o b)[i].kind = "column", i < j
      PROVE  (a \o b)[j].kind \notin {"column", "create"}
  <2>1. i - Len(a) \in 1 .. Len(b) /\ i > Len(a) /\ (a \o b)[i] = b[i - Len(a)]
    BY <1>1, <1>2, <1>3
  <2>2. j - Len(a) \in 1 .. Len(b) /\ (a \o b)[j] = b[j - Len(a)]
    BY <1>2, <1>3, <2>1
  <2>3. i - Len(a) < j - Len(a)
    BY <1>2, <1>3
  <2> QED
    BY <1>3, <2>1, <2>2, <2>3 DEF ThenPlain
<1> QED
  BY <1>2, <1>3 DEF ThenPlain

LEMMA CoreRepeats == CoreSchemaSQL \in Seq(Repeating)
<1>1. ASSUME NEW kind \in {"create", "index"}, NEW parts \in SUBSET PartNames,
             "runs" \notin parts, "runs.environment_id" \notin parts
      PROVE  Statement(kind, parts) \in Repeating
  BY <1>1, StatementAllowed DEF Repeating, Statement
<1>2. Statement("create", RunsTable) \in Repeating
  BY RunsStatementAllowed DEF Repeating, CoreAllowed, Statement
<1> DEFINE S == Repeating
<1>3. coreRunSchemaSQL \in Seq(S)
  <2>1. Statement("create", {"schema_versions"}) \in S
    BY <1>1 DEF PartNames
  <2>2. Statement("create", {"api_case_runs", "evidence_records"}) \in S
    BY <1>1 DEF PartNames
  <2>3. Statement("index", {"runs.indexes"}) \in S
    BY <1>1 DEF PartNames
  <2>4. Statement("create", {"runs", "runs.environment_id"}) \in S
    BY <1>2 DEF RunsTable
  <2> HIDE DEF S
  <2> QED
    BY <2>1, <2>2, <2>3, <2>4 DEF coreRunSchemaSQL
<1>4. coreObservabilitySchemaSQL \in Seq(S)
  <2>1. Statement("create", {"trace_topologies", "post_process_tasks", "baseline_gates"}) \in S
    BY <1>1 DEF PartNames
  <2>2. Statement("index", {"observability.indexes"}) \in S
    BY <1>1 DEF PartNames
  <2> HIDE DEF S
  <2> QED
    BY <2>1, <2>2 DEF coreObservabilitySchemaSQL
<1>5. coreProfileConfigSchemaSQL \in Seq(S)
  <2>1. Statement("create", {"profile_indexes", "config_versions", "config_read_model",
                             "profile_catalogs"}) \in S
    BY <1>1 DEF PartNames
  <2>2. Statement("index", {"config.indexes"}) \in S
    BY <1>1 DEF PartNames
  <2> HIDE DEF S
  <2> QED
    BY <2>1, <2>2 DEF coreProfileConfigSchemaSQL
<1>6. coreEnvironmentCatalogSchemaSQL \in Seq(S)
  <2>1. Statement("create", {"environments", "environment_components",
                             "component_dependencies", "component_config_assets"}) \in S
    BY <1>1 DEF PartNames
  <2>2. Statement("index", {"environments.indexes"}) \in S
    BY <1>1 DEF PartNames
  <2> HIDE DEF S
  <2> QED
    BY <2>1, <2>2 DEF coreEnvironmentCatalogSchemaSQL
<1> HIDE DEF S
<1>7. coreRunSchemaSQL \o coreObservabilitySchemaSQL \in Seq(S)
  BY <1>3, <1>4, ConcatProperties
<1>8. (coreRunSchemaSQL \o coreObservabilitySchemaSQL) \o coreProfileConfigSchemaSQL \in Seq(S)
  BY <1>5, <1>7, ConcatProperties
<1>9. ((coreRunSchemaSQL \o coreObservabilitySchemaSQL) \o coreProfileConfigSchemaSQL)
          \o coreEnvironmentCatalogSchemaSQL \in Seq(S)
  BY <1>6, <1>8, ConcatProperties
<1> QED
  BY <1>9 DEF CoreSchemaSQL, S

LEMMA ChangesPlain ==
    /\ ModifyRunIds \in Seq(Plain) /\ mysqlMediumTextMigrationSQL \in Seq(Plain)
    /\ ModifyConfigIds \in Seq(Plain) /\ ModifyProfileIds \in Seq(Plain)
    /\ schemaCommentSQL \in Seq(Plain) /\ << >> \in Seq(Plain)
    /\ RunsColumn \in Seq(Allowed) /\ ThenPlain(RunsColumn)
<1>1. ASSUME NEW kind \in {"modify", "comment"}, NEW parts \in SUBSET PartNames,
             "runs" \notin parts, "runs.environment_id" \notin parts
      PROVE  << Statement(kind, parts) >> \in Seq(Plain)
  <2>1. Statement(kind, parts) \in Plain
    BY <1>1, StatementAllowed DEF Plain, Statement
  <2> QED
    BY <2>1, ShortSeqs
<1>2. /\ ModifyRunIds \in Seq(Plain) /\ mysqlMediumTextMigrationSQL \in Seq(Plain)
      /\ ModifyConfigIds \in Seq(Plain)
  BY <1>1 DEF ModifyRunIds, mysqlMediumTextMigrationSQL, ModifyConfigIds, PartNames
<1>3. ModifyProfileIds \in Seq(Plain) /\ schemaCommentSQL \in Seq(Plain)
  BY <1>1 DEF ModifyProfileIds, schemaCommentSQL, PartNames
<1>4. ThenPlain(RunsColumn)
  <2>1. Len(RunsColumn) = 2 /\ RunsColumn[2].kind = "drop"
    BY DEF RunsColumn, Statement
  <2>2. \A i, j \in 1 .. 2 : i < j => j = 2
    OBVIOUS
  <2> QED
    BY <2>1, <2>2 DEF ThenPlain
<1> QED
  BY <1>2, <1>3, <1>4, ChangeSeqs

\* The column is added once, after every table, by the upgrades from versions 1 to 5 only.
LEMMA ColumnOnce ==
    ASSUME NEW c \in Nat
    PROVE  /\ ThenPlain(UpgradeStatements(c))
           /\ c \notin 1 .. 5 => UpgradeStatements(c) \in Seq(Repeating)
<1> DEFINE a == When(dialect = "mysql" /\ c < 5, ModifyRunIds)
           b == When(c < 6, RunsColumn)
           d == When(dialect = "mysql" /\ c < 7, mysqlMediumTextMigrationSQL)
           e == When(dialect = "mysql" /\ c < 8, ModifyConfigIds)
           f == When(dialect = "mysql" /\ c < 9, ModifyProfileIds)
           all == a \o b \o d \o e \o f
           changed == When(c # 0 /\ c < CurrentSchemaVersion, all)
<1>0. incrementalSchemaSQL(c) = changed
  BY DEF incrementalSchemaSQL, ModifyRunIds, RunsColumn, ModifyConfigIds, ModifyProfileIds
<1>1. a \in Seq(Plain) /\ d \in Seq(Plain) /\ e \in Seq(Plain) /\ f \in Seq(Plain)
  BY ChangesPlain DEF When
<1>2. << >> \in Seq(Allowed) /\ ThenPlain(<< >>) /\ << >> \in Seq(Repeating)
  BY DEF ThenPlain
<1>3. b \in Seq(Allowed) /\ ThenPlain(b) /\ (c >= 6 => b \in Seq(Repeating))
  BY <1>2, ChangesPlain DEF When
<1>4. \A x \in Seq(Plain) : x \in Seq(Repeating)
  <2>1. Plain \subseteq Repeating
    BY DEF Plain, Repeating
  <2> QED
    BY <2>1
<1> HIDE DEF a, b, d, e, f
<1>5. a \o b \in Seq(Allowed) /\ ThenPlain(a \o b) /\ (c >= 6 => a \o b \in Seq(Repeating))
  BY <1>1, <1>3, <1>4, RepeatingBefore, ConcatProperties
<1>6. /\ a \o b \o d \in Seq(Allowed) /\ ThenPlain(a \o b \o d)
      /\ c >= 6 => a \o b \o d \in Seq(Repeating)
  BY <1>1, <1>4, <1>5, PlainAfter, ConcatProperties
<1>7. /\ a \o b \o d \o e \in Seq(Allowed) /\ ThenPlain(a \o b \o d \o e)
      /\ c >= 6 => a \o b \o d \o e \in Seq(Repeating)
  BY <1>1, <1>4, <1>6, PlainAfter, ConcatProperties
<1>8. /\ all \in Seq(Allowed) /\ ThenPlain(all) /\ (c >= 6 => all \in Seq(Repeating))
  BY <1>1, <1>4, <1>7, PlainAfter, ConcatProperties
<1> HIDE DEF all
<1>9. /\ changed \in Seq(Allowed) /\ ThenPlain(changed)
      /\ c \notin 1 .. 5 => changed \in Seq(Repeating)
  <2>1. c \notin 1 .. 5 => c = 0 \/ c >= 6
    OBVIOUS
  <2> QED
    BY <1>2, <1>8, <2>1 DEF When
<1> HIDE DEF changed
<1>10. /\ CoreSchemaSQL \o changed \in Seq(Allowed) /\ ThenPlain(CoreSchemaSQL \o changed)
       /\ c \notin 1 .. 5 => CoreSchemaSQL \o changed \in Seq(Repeating)
  BY <1>9, CoreRepeats, RepeatingBefore, ConcatProperties
<1>11. /\ ThenPlain(CoreSchemaSQL \o changed \o schemaCommentSQL)
       /\ c \notin 1 .. 5 => CoreSchemaSQL \o changed \o schemaCommentSQL \in Seq(Repeating)
  BY <1>4, <1>10, ChangesPlain, PlainAfter, ConcatProperties
<1> QED
  BY <1>0, <1>11 DEF UpgradeStatements

\* Each change that adds columns adds one that no other change makes.
LEMMA ColumnsOfChanges ==
    ASSUME NEW v \in 1 .. CurrentVersion, AddsColumns(v)
    PROVE  \E x \in changes[v] : \A w \in 1 .. CurrentVersion : w # v => x \notin changes[w]
<1>1. /\ changes[1] = RuntimeStoreTables
      /\ changes[2] = TemplateTables \cup InterfaceNodeTables \cup FixtureTables
      /\ changes[3] = TraceTables /\ changes[4] = BudgetColumns /\ changes[5] = PostProcessTables
      /\ changes[6] = CaseRunIndex /\ changes[7] = SourcePathColumns
      /\ changes[8] = ConfigVersionTables /\ changes[9] = ReadModelTables
      /\ changes[10] = CaseExecutionColumns /\ changes[11] = CaseMaintenanceColumns
      /\ changes[12] = EvidenceColumns /\ changes[13] = CaseSourceColumns
      /\ changes[14] = EvidenceStepColumns /\ changes[15] = EnvironmentTables
      /\ changes[16] = ServiceGraphTables /\ changes[17] = ComponentGraphTables
      /\ changes[18] = RunColumns
  BY DEF changes
<1> USE DEF RuntimeStoreTables, TemplateTables, InterfaceNodeTables, FixtureTables,
     TraceTables, BudgetColumns, PostProcessTables, CaseRunIndex, SourcePathColumns,
     ConfigVersionTables, ReadModelTables, CaseExecutionColumns, CaseMaintenanceColumns,
     EvidenceColumns, CaseSourceColumns, EvidenceStepColumns, EnvironmentTables,
     ServiceGraphTables, ComponentGraphTables, RunColumns
<1>2. ASSUME NEW w \in 1 .. CurrentVersion
      PROVE  /\ "workflow.base_step_timeout_ms" \in changes[w] <=> w = 4
             /\ "node_config.source_path" \in changes[w] <=> w = 7
             /\ "interface_node_case.case_path" \in changes[w] <=> w = 10
             /\ "interface_node_case.tags_json" \in changes[w] <=> w = 11
             /\ "evidence_records.category" \in changes[w] <=> w = 12
             /\ "interface_node_case.executor_id" \in changes[w] <=> w = 13
             /\ "evidence_records.step_id" \in changes[w] <=> w = 14
             /\ "runs.environment_id" \in changes[w] <=> w = 18
  <2>1. w \in {1, 2, 3, 4, 5, 6, 7, 8, 9, 10, 11, 12, 13, 14, 15, 16, 17, 18}
    BY DEF CurrentVersion
  <2> QED
    BY <1>1, <2>1
<1>3. v \in {4, 7, 10, 11, 12, 13, 14, 18}
  BY DEF AddsColumns
<1> QED
  BY <1>2, <1>3

\* An attempt that other processes or a kill overlap knows it.
Overlaps ==
    \A u \in Upgraders : Running(u) =>
        /\ \A x \in Upgraders \ {u} : Running(x) => procs[u].raced
        /\ killed => procs[u].raced \/ procs[u].afterKill

\* Nothing that can fail is left of the process's upgrade.
Past(u) ==
    \/ procs[u].pc = "record"
    \/ /\ procs[u].pc = "statements"
       /\ \A i \in procs[u].next .. Len(UpgradeStatements(from)) :
             UpgradeStatements(from)[i].kind \notin {"column", "create"}

\* A column that is there before its version was added by a process that gets to the end,
\* or is stopped.
ColumnIsKnown ==
    /\ from \in 1 .. 5 => "runs" \in schema
    /\ from \in 1 .. 5 /\ "runs.environment_id" \in schema /\ ~killed =>
          CurrentSchemaVersion \in recorded \/ \E x \in Upgraders : Past(x)
    /\ \A u \in Upgraders : Running(u) /\ ~procs[u].raced => CurrentSchemaVersion \notin recorded

\* The SQLite schema is exactly what the recorded changes make of it.
ChangesOnly ==
    /\ schema = UNION {changes[w] : w \in recorded}
    /\ \A u \in Upgraders : Running(u) /\ ~procs[u].raced => recorded = 1 .. procs[u].next - 1

RetryInv ==
    /\ Overlaps /\ RetriesSucceed
    /\ IF dialect = "sqlite" THEN ChangesOnly ELSE ColumnIsKnown

\* What a step does to the processes that do not take it.
LEMMA OthersRaced ==
    ASSUME Procs, NEW u \in Upgraders, NEW p \in ProcRecord, Steps(u, p), NEW x \in Upgraders, x # u
    PROVE  /\ Running(x)' <=> Running(x)
           /\ Running(x) => procs'[x].raced
           /\ ~Running(x) => procs'[x] = procs[x]
BY DEF Procs, ProcRecord, Steps, Running

LEMMA OverlapsStep ==
    ASSUME Procs, Overlaps, NEW u \in Upgraders, NEW p \in ProcRecord, Steps(u, p), procs'[u] = p,
           p.pc \in {"statements", "change", "record"} =>
               /\ (\E x \in Upgraders \ {u} : Running(x)) => p.raced
               /\ killed' => p.raced \/ p.afterKill
    PROVE  Overlaps'
<1>1. ASSUME NEW x \in Upgraders, x # u, Running(x)'
      PROVE  procs'[x].raced /\ Running(x)
  BY <1>1, OthersRaced
<1>2. ASSUME Running(u)'
      PROVE  /\ \A x \in Upgraders \ {u} : Running(x)' => p.raced
             /\ killed' => p.raced \/ p.afterKill
  BY <1>1, <1>2 DEF Running
<1> QED
  BY <1>1, <1>2 DEF Overlaps

\* A process that goes on.
LEMMA GoesOverlapped ==
    ASSUME Overlaps, NEW u \in Upgraders, Running(u), NEW p,
           p.raced = procs[u].raced, p.afterKill = procs[u].afterKill, killed' = killed
    PROVE  /\ (\E x \in Upgraders \ {u} : Running(x)) => p.raced
           /\ killed' => p.raced \/ p.afterKill
BY DEF Overlaps

LEMMA FailuresStay ==
    ASSUME Procs, RetriesSucceed, NEW u \in Upgraders, NEW p \in ProcRecord, Steps(u, p),
           procs'[u] = p, UNCHANGED <<dialect, from>>,
           p.pc = "failed" => \/ p.raced
                              \/ p.afterKill /\ dialect # "sqlite" /\ from \in 1 .. 5
    PROVE  RetriesSucceed'
<1>1. ASSUME NEW x \in Upgraders, x # u, procs'[x].pc = "failed"
      PROVE  procs'[x] = procs[x]
  BY <1>1, OthersRaced DEF Running
<1> QED
  BY <1>1 DEF RetriesSucceed

LEMMA LeavesFields ==
    ASSUME Procs, NEW u \in Upgraders, NEW result \in {"failed", "stopped", "open"}, Leaves(u, result)
    PROVE  \E p \in ProcRecord :
              /\ Steps(u, p) /\ procs'[u] = p /\ p.pc = result
              /\ p.raced = procs[u].raced /\ p.afterKill = procs[u].afterKill
<1>1. PICK p : p = [procs[u] EXCEPT !.pc = result]
  OBVIOUS
<1>2. /\ p \in ProcRecord /\ p.pc = result
      /\ p.raced = procs[u].raced /\ p.afterKill = procs[u].afterKill
  BY <1>1 DEF Procs, ProcRecord
<1>3. Steps(u, p)
  BY <1>1 DEF Leaves
<1> QED
  BY <1>2, <1>3, StepsOthers

\* The other processes keep what is left of their upgrades.
LEMMA PastStays ==
    ASSUME Procs, UNCHANGED <<dialect, from>>, NEW u \in Upgraders, NEW p \in ProcRecord, Steps(u, p),
           NEW x \in Upgraders, x # u, Past(x)
    PROVE  Past(x)'
<1>1. procs'[x].pc = procs[x].pc /\ procs'[x].next = procs[x].next
  BY StepsOthers
<1>2. UpgradeStatements(from)' = UpgradeStatements(from)
  BY DEF UpgradeStatements, incrementalSchemaSQL
<1> QED
  BY <1>1, <1>2 DEF Past

\* A step that leaves the schema alone: the stepping process was not past the column, or still is.
LEMMA ColumnStays ==
    ASSUME Procs, ColumnIsKnown, UNCHANGED <<dialect, from, schema>>, killed' = killed \/ killed',
           recorded \subseteq recorded',
           NEW u \in Upgraders, NEW p \in ProcRecord, Steps(u, p), procs'[u] = p,
           ~killed' => ~Past(u) \/ Past(u)' \/ CurrentSchemaVersion \in recorded',
           recorded' # recorded => p.pc = "open",
           p.pc \in {"statements", "change", "record"} /\ ~p.raced =>
               CurrentSchemaVersion \notin recorded
    PROVE  ColumnIsKnown'
<1>1. \A x \in Upgraders : x # u /\ Past(x) => Past(x)'
  BY PastStays
<1>2. ASSUME NEW x \in Upgraders, Running(x)', ~procs'[x].raced
      PROVE  CurrentSchemaVersion \notin recorded'
  <2>1. x = u
    BY <1>2, OthersRaced
  <2> QED
    BY <1>2, <2>1 DEF Running
<1>3. CurrentSchemaVersion' = CurrentSchemaVersion
  BY DEF CurrentSchemaVersion
<1>4. from \in 1 .. 5 /\ "runs.environment_id" \in schema /\ ~killed' =>
          CurrentSchemaVersion \in recorded' \/ \E x \in Upgraders : Past(x)'
  BY <1>1 DEF ColumnIsKnown
<1> QED
  BY <1>2, <1>4 DEF ColumnIsKnown

\* What an upgrade from an old version finds.
LEMMA RunsNeeded == "runs" \in NeededSql
<1>1. coreRunSchemaSQL \in Seq(CoreAllowed) /\ Len(coreRunSchemaSQL) = 4
      /\ coreRunSchemaSQL[2] = Statement("create", RunsTable)
  BY CoreParts DEF coreRunSchemaSQL, RunsTable
<1>2. Includes(coreRunSchemaSQL, Statement("create", RunsTable))
  BY <1>1 DEF Includes
<1>3. /\ coreRunSchemaSQL \o coreObservabilitySchemaSQL \in Seq(CoreAllowed)
      /\ Includes(coreRunSchemaSQL \o coreObservabilitySchemaSQL, Statement("create", RunsTable))
  BY <1>1, <1>2, CoreParts, ConcatProperties, ConcatContains
<1>4. /\ (coreRunSchemaSQL \o coreObservabilitySchemaSQL) \o coreProfileConfigSchemaSQL
             \in Seq(CoreAllowed)
      /\ Includes((coreRunSchemaSQL \o coreObservabilitySchemaSQL) \o coreProfileConfigSchemaSQL,
                  Statement("create", RunsTable))
  BY <1>3, CoreParts, ConcatProperties, ConcatContains
<1>5. Includes(CoreSchemaSQL, Statement("create", RunsTable))
  BY <1>4, CoreParts, ConcatContains DEF CoreSchemaSQL
<1>6. PICK i \in 1 .. Len(CoreSchemaSQL) : CoreSchemaSQL[i] = Statement("create", RunsTable)
  BY <1>5 DEF Includes
<1>7. i \in DOMAIN CoreSchemaSQL /\ "runs" \in CoreSchemaSQL[i].parts
  BY <1>6, CoreSeq DEF Statement, RunsTable
<1> QED
  BY <1>7 DEF NeededSql, Parts

LEMMA RetryInit == SchemaInit => RetryInv
<1> SUFFICES ASSUME SchemaInit PROVE RetryInv
  OBVIOUS
<1>1. \A u \in Upgraders : procs[u].pc = "idle"
  BY DEF SchemaInit, NewProc
<1>2. Overlaps /\ RetriesSucceed /\ \A u \in Upgraders : ~Running(u)
  BY <1>1 DEF Overlaps, RetriesSucceed, Running
<1>3. CASE dialect = "sqlite"
  <2>1. schema = UNION {changes[v] : v \in 1 .. from} /\ recorded = 1 .. from
    BY <1>3 DEF SchemaInit, NeededSqlite
  <2> QED
    BY <1>2, <1>3, <2>1 DEF RetryInv, ChangesOnly
<1>4. CASE dialect # "sqlite"
  <2>1. schema = OldSql(from)
    BY <1>4 DEF SchemaInit
  <2>2. from \in 1 .. 5 => /\ OldSql(from) = (NeededSql \ ({"runs.environment_id"} \cup ComponentGraphTables))
                                             \cup OldTables
    BY DEF OldSql, OldTables
  <2>3. from \in 1 .. 5 => "runs" \in schema /\ "runs.environment_id" \notin schema
    BY <2>1, <2>2, RunsNeeded DEF ComponentGraphTables, OldTables
  <2> QED
    BY <1>2, <1>4, <2>3 DEF RetryInv, ColumnIsKnown
<1> QED
  BY <1>3, <1>4

-----------------------------------------------------------------------------
\* Reading the version.
LEMMA RetryReads ==
    ASSUME UpgradeInv, RetryInv, NEW u \in Upgraders, ReadVersion(u)
    PROVE  RetryInv'
<1>1. Procs /\ killed \in BOOLEAN /\ UNCHANGED <<dialect, from, schema, recorded, killed>> /\ ~Running(u)
  BY DEF UpgradeInv, ReadVersion, Running
<1>2. Highest(recorded) \in Nat
  <2>1. CASE dialect = "sqlite"
    BY <2>1, HighestUpTo DEF UpgradeInv, SqliteStore
  <2>2. CASE dialect # "sqlite"
    <3>1. from \in Nat /\ CurrentSchemaVersion \in Nat /\ from <= CurrentSchemaVersion
      BY <2>2 DEF UpgradeInv, SqlStore, CurrentSchemaVersion
    <3> QED
      BY <2>2, <3>1, HighestOfOne, HighestWith DEF UpgradeInv, SqlStore, FirstRecorded
  <2> QED
    BY <2>1, <2>2
<1>3. PICK p \in ProcRecord :
          /\ Steps(u, p) /\ procs'[u] = p
          /\ p.pc = IF Highest(recorded) >= Target THEN "open"
                    ELSE IF dialect = "sqlite" THEN "change" ELSE "statements"
          /\ p.next = IF dialect = "sqlite" THEN Highest(recorded) + 1 ELSE 1
          /\ p.raced <=> \E x \in Upgraders \ {u} : Running(x)
          /\ p.afterKill = killed
  BY <1>1, <1>2, ReadRecord
<1>4. Overlaps'
  BY <1>1, <1>3, OverlapsStep DEF RetryInv
<1>5. RetriesSucceed'
  BY <1>1, <1>3, FailuresStay DEF RetryInv
<1>6. CASE dialect = "sqlite"
  <2>1. PICK k \in 0 .. CurrentVersion : recorded = 1 .. k
    BY <1>6 DEF UpgradeInv, SqliteStore
  <2>2. p.next = k + 1 /\ k \in Nat /\ (k + 1) - 1 = k
    BY <1>3, <1>6, <2>1, HighestUpTo
  <2>3. ASSUME NEW x \in Upgraders, Running(x)', ~procs'[x].raced
        PROVE  recorded' = 1 .. procs'[x].next - 1
    <3>1. x = u
      BY <1>1, <1>3, <2>3, OthersRaced
    <3> QED
      BY <3>1, <1>1, <1>3, <2>1, <2>2
  <2> QED
    BY <1>1, <1>4, <1>5, <1>6, <2>3 DEF RetryInv, ChangesOnly
<1>7. CASE dialect # "sqlite"
  <2>1. p.pc \in {"statements", "change", "record"} => CurrentSchemaVersion \notin recorded
    <3>1. from \in Nat /\ CurrentSchemaVersion \in Nat /\ from <= CurrentSchemaVersion
          /\ Target = CurrentSchemaVersion
      BY <1>7 DEF UpgradeInv, SqlStore, CurrentSchemaVersion, Target
    <3>2. CurrentSchemaVersion \in recorded => Highest(recorded) = CurrentSchemaVersion
      <4> SUFFICES ASSUME CurrentSchemaVersion \in recorded
                   PROVE  Highest(recorded) = CurrentSchemaVersion
        OBVIOUS
      <4>1. CASE recorded = FirstRecorded
        BY <3>1, <4>1, HighestOfOne DEF FirstRecorded
      <4>2. CASE recorded = FirstRecorded \cup {CurrentSchemaVersion}
        BY <3>1, <4>2, HighestWith DEF FirstRecorded
      <4> QED
        BY <1>7, <4>1, <4>2 DEF UpgradeInv, SqlStore
    <3> QED
      BY <1>3, <3>1, <3>2
  <2>2. ~Past(u)
    BY <1>1 DEF Past, Running
  <2>3. ColumnIsKnown'
    BY <1>1, <1>3, <1>7, <2>1, <2>2, ColumnStays DEF RetryInv
  <2> QED
    BY <1>1, <1>4, <1>5, <1>7, <2>3 DEF RetryInv
<1> QED
  BY <1>6, <1>7

\* A process is stopped.
LEMMA RetryStops ==
    ASSUME UpgradeInv, RetryInv, NEW u \in Upgraders, StopUpgrade(u)
    PROVE  RetryInv'
<1>1. /\ Procs /\ UNCHANGED <<dialect, from, schema, recorded>> /\ killed' /\ Running(u)
      /\ Leaves(u, "stopped")
  BY DEF UpgradeInv, StopUpgrade
<1>2. PICK p \in ProcRecord :
          /\ Steps(u, p) /\ procs'[u] = p /\ p.pc = "stopped"
          /\ p.raced = procs[u].raced /\ p.afterKill = procs[u].afterKill
  BY <1>1, LeavesFields
<1>3. RetriesSucceed'
  BY <1>1, <1>2, FailuresStay DEF RetryInv
<1>4. Overlaps'
  BY <1>1, <1>2, OverlapsStep DEF RetryInv
<1>5. ASSUME dialect = "sqlite" PROVE ChangesOnly'
  <2>1. ASSUME NEW x \in Upgraders, Running(x)', ~procs'[x].raced PROVE FALSE
    BY <1>2, <1>1, <2>1, OthersRaced DEF Running
  <2> QED
    BY <1>1, <1>5, <2>1 DEF RetryInv, ChangesOnly
<1>6. ASSUME dialect # "sqlite" PROVE ColumnIsKnown'
  BY <1>1, <1>2, <1>6, ColumnStays DEF RetryInv
<1> QED
  BY <1>1, <1>3, <1>4, <1>5, <1>6 DEF RetryInv

\* The version row.
LEMMA RetryRecords ==
    ASSUME UpgradeInv, RetryInv, NEW u \in Upgraders, RecordVersion(u)
    PROVE  RetryInv'
<1>1. /\ Procs /\ UNCHANGED <<dialect, from, schema, killed>> /\ procs[u].pc = "record"
      /\ recorded' = recorded \cup {CurrentSchemaVersion} /\ Leaves(u, "open")
  BY DEF UpgradeInv, RecordVersion
<1>2. PICK p \in ProcRecord :
          /\ Steps(u, p) /\ procs'[u] = p /\ p.pc = "open"
          /\ p.raced = procs[u].raced /\ p.afterKill = procs[u].afterKill
  BY <1>1, LeavesFields
<1>3. RetriesSucceed'
  BY <1>1, <1>2, FailuresStay DEF RetryInv
<1>4. Overlaps'
  BY <1>1, <1>2, OverlapsStep DEF RetryInv
<1>5. dialect # "sqlite"
  BY <1>1 DEF UpgradeInv, SqliteStore, SqliteProc
<1>6. ColumnIsKnown'
  BY <1>1, <1>2, <1>5, ColumnStays DEF RetryInv
<1> QED
  BY <1>1, <1>3, <1>4, <1>5, <1>6 DEF RetryInv

\* A statement that fails, in an attempt that nothing overlaps.
LEMMA RetryFails ==
    ASSUME UpgradeInv, RetryInv, dialect # "sqlite", NEW u \in Upgraders, procs[u].pc = "statements",
           NEW s, s = UpgradeStatements(from)[procs[u].next],
           MayFail(u, s) \/ (Fails(u, s) /\ ~isIdempotentSchemaReplayError(s))
    PROVE  procs[u].raced \/ (procs[u].afterKill /\ from \in 1 .. 5)
<1> SUFFICES ASSUME ~procs[u].raced PROVE procs[u].afterKill /\ from \in 1 .. 5
  OBVIOUS
<1>1. PICK all : all = UpgradeStatements(from)
  OBVIOUS
<1>2. PICK n : n = procs[u].next
  OBVIOUS
<1>3. from \in Nat /\ n \in 1 .. Len(all)
  BY <1>1, <1>2 DEF UpgradeInv, SqlStore, SqlProc
<1>4. s.kind = "column" /\ s.parts \subseteq schema /\ s = all[n]
  BY <1>1, <1>2 DEF MayFail, Fails, isIdempotentSchemaReplayError
<1>5. all \in Seq(Allowed) /\ (from \notin 1 .. 5 => all \in Seq(Repeating)) /\ Len(all) \in Nat
  BY <1>1, <1>3, UpgradeSeq, ColumnOnce
<1>6. from \in 1 .. 5
  BY <1>3, <1>4, <1>5 DEF Repeating
<1>7. "runs.environment_id" \in schema
  <2>1. s = AddColumn
    BY <1>3, <1>4, <1>5 DEF Allowed
  <2> QED
    BY <1>4, <2>1 DEF AddColumn, Statement
<1>8. Running(u)
  BY DEF Running
<1>9. CASE killed
  BY <1>6, <1>8, <1>9 DEF RetryInv, Overlaps
<1>10. CASE ~killed
  <2>1. PICK x \in Upgraders : Past(x)
    BY <1>6, <1>7, <1>8, <1>10 DEF RetryInv, ColumnIsKnown
  <2>2. Running(x)
    BY <2>1 DEF Past, Running
  <2>3. ~Past(u)
    <3>1. n \in n .. Len(all)
      BY <1>3, <1>5
    <3> QED
      BY <3>1, <1>1, <1>2, <1>4 DEF Past
  <2> QED
    BY <1>8, <2>1, <2>2, <2>3 DEF RetryInv, Overlaps
<1> QED
  BY <1>9, <1>10

\* One statement.
LEMMA RetryExecutes ==
    ASSUME UpgradeInv, RetryInv, NEW u \in Upgraders, ExecStatement(u)
    PROVE  RetryInv'
<1>1. /\ Procs /\ UNCHANGED <<dialect, from, recorded, killed>> /\ procs[u].pc = "statements"
      /\ Running(u) /\ procs[u].raced \in BOOLEAN
  BY DEF UpgradeInv, ExecStatement, Running, Procs, ProcRecord
<1>2. dialect # "sqlite"
  BY <1>1 DEF UpgradeInv, SqliteStore, SqliteProc
<1>3. PICK n : n = procs[u].next
  OBVIOUS
<1>4. PICK all : all = UpgradeStatements(from)
  OBVIOUS
<1>5. PICK s : s = all[n]
  OBVIOUS
<1>6. /\ procs[u].current = from /\ n \in 1 .. Len(all) /\ from \in Nat
  BY <1>1, <1>2, <1>3, <1>4 DEF UpgradeInv, SqlStore, SqlProc
<1>7. all \in Seq(Allowed) /\ s \in Allowed /\ Len(all) \in Nat
  BY <1>4, <1>5, <1>6, UpgradeSeq
<1>8. UpgradeStatements(from)' = all
  BY <1>1, <1>4, SameStatements
<1> DEFINE last == n = Len(all)
           following == [procs[u] EXCEPT !.pc = IF last THEN "record" ELSE "statements", !.next = n + 1]
<1>9. \/ /\ schema' = schema /\ Leaves(u, "failed")
         /\ MayFail(u, s) \/ (Fails(u, s) /\ ~isIdempotentSchemaReplayError(s))
      \/ schema' \in {schema, Effect(s)} /\ Steps(u, following)
  BY <1>3, <1>4, <1>5, <1>6 DEF ExecStatement, Statements
<1>10. CASE /\ schema' = schema /\ Leaves(u, "failed")
            /\ MayFail(u, s) \/ (Fails(u, s) /\ ~isIdempotentSchemaReplayError(s))
  <2>1. PICK p \in ProcRecord :
            /\ Steps(u, p) /\ procs'[u] = p /\ p.pc = "failed"
            /\ p.raced = procs[u].raced /\ p.afterKill = procs[u].afterKill
    BY <1>1, <1>10, LeavesFields
  <2>2. p.raced \/ (p.afterKill /\ from \in 1 .. 5)
    BY <1>1, <1>2, <1>3, <1>4, <1>5, <1>10, <2>1, RetryFails
  <2>3. RetriesSucceed'
    BY <1>1, <1>2, <2>1, <2>2, FailuresStay DEF RetryInv
  <2>4. Overlaps'
    BY <1>1, <2>1, OverlapsStep DEF RetryInv
  <2>5. Past(u) => s.kind # "column"
    <3>1. n \in n .. Len(all)
      BY <1>6, <1>7
    <3> QED
      BY <1>1, <1>3, <1>4, <1>5, <3>1 DEF Past
  <2>6. ColumnIsKnown'
    <3>1. Past(u) => /\ s.kind \notin {"column", "create"}
      <4>1. n \in n .. Len(all)
        BY <1>6, <1>7
      <4> QED
        BY <1>1, <1>3, <1>4, <1>5, <4>1 DEF Past
    <3>2. ~Past(u)
      BY <3>1, <1>10 DEF MayFail, Fails, isIdempotentSchemaReplayError
    <3> QED
      BY <1>1, <1>2, <1>10, <2>1, <3>2, ColumnStays DEF RetryInv
  <2> QED
    BY <1>1, <1>2, <2>3, <2>4, <2>6 DEF RetryInv
<1>11. CASE schema' \in {schema, Effect(s)} /\ Steps(u, following)
  <2>1. n + 1 \in Nat /\ procs[u] \in ProcRecord
    BY <1>1, <1>6, <1>7 DEF Procs
  <2>2. PICK p : p = following
    OBVIOUS
  <2>3. /\ p \in ProcRecord /\ p.pc = (IF last THEN "record" ELSE "statements") /\ p.next = n + 1
        /\ p.raced = procs[u].raced /\ p.afterKill = procs[u].afterKill
    BY <2>1, <2>2 DEF ProcRecord
  <2> HIDE DEF following
  <2>4. Steps(u, p) /\ procs'[u] = p
    BY <1>1, <1>11, <2>2, <2>3, StepsOthers
  <2>5. Overlaps'
    BY <1>1, <2>3, <2>4, OverlapsStep, GoesOverlapped DEF RetryInv
  <2>6. RetriesSucceed'
    BY <1>1, <2>3, <2>4, FailuresStay DEF RetryInv
  <2>7. ASSUME \A i \in n + 1 .. Len(all) : all[i].kind \notin {"column", "create"}
        PROVE  Past(u)'
    BY <1>8, <2>3, <2>4, <2>7 DEF Past
  <2>8. Past(u) => Past(u)'
    <3> SUFFICES ASSUME Past(u) PROVE Past(u)'
      OBVIOUS
    <3>1. \A i \in n .. Len(all) : all[i].kind \notin {"column", "create"}
      BY <1>1, <1>3, <1>4 DEF Past
    <3>2. \A i \in n + 1 .. Len(all) : i \in n .. Len(all)
      BY <1>6, <1>7
    <3> QED
      BY <2>7, <3>1, <3>2
  <2>9. "runs" \in schema => "runs" \in schema'
    BY <1>7, <1>11 DEF Effect, Allowed, OldTables
  <2>10. ASSUME from \in 1 .. 5, "runs.environment_id" \in schema', "runs.environment_id" \notin schema
         PROVE  Past(u)'
    <3>1. s = AddColumn
      <4>1. schema' = Effect(s) /\ "runs.environment_id" \in s.parts
        BY <1>11, <2>10 DEF Effect
      <4>2. s \in {Statement("create", RunsTable), AddColumn}
        BY <1>7, <4>1 DEF Allowed
      <4>3. "runs" \in schema
        BY <1>2, <2>10 DEF RetryInv, ColumnIsKnown
      <4>4. s # Statement("create", RunsTable)
        BY <4>1, <4>3, <2>10 DEF Effect, Statement, RunsTable
      <4> QED
        BY <4>2, <4>4
    <3>2. s.kind = "column"
      BY <3>1 DEF AddColumn, Statement
    <3>3. ThenPlain(all)
      BY <1>4, <1>6, ColumnOnce
    <3>4. \A i \in n + 1 .. Len(all) : i \in 1 .. Len(all) /\ n < i
      BY <1>6, <1>7
    <3>5. \A i \in n + 1 .. Len(all) : all[i].kind \notin {"column", "create"}
      BY <1>5, <1>6, <3>2, <3>3, <3>4 DEF ThenPlain
    <3> QED
      BY <2>7, <3>5
  <2>11. ColumnIsKnown'
    <3>1. from \in 1 .. 5 => "runs" \in schema'
      BY <1>2, <2>9 DEF RetryInv, ColumnIsKnown
    <3>2. \A x \in Upgraders : Past(x) => Past(x)'
      BY <1>1, <2>3, <2>4, <2>8, PastStays
    <3>3. ASSUME from \in 1 .. 5, "runs.environment_id" \in schema', ~killed
          PROVE  CurrentSchemaVersion \in recorded \/ \E x \in Upgraders : Past(x)'
      BY <1>2, <2>10, <3>2, <3>3 DEF RetryInv, ColumnIsKnown
    <3>4. ASSUME NEW x \in Upgraders, Running(x)', ~procs'[x].raced
          PROVE  CurrentSchemaVersion \notin recorded
      <4>1. x = u
        BY <1>1, <2>3, <2>4, <3>4, OthersRaced
      <4> QED
        BY <1>1, <1>2, <2>3, <2>4, <3>4, <4>1 DEF RetryInv, ColumnIsKnown
    <3> QED
      BY <1>1, <3>1, <3>3, <3>4 DEF ColumnIsKnown, CurrentSchemaVersion
  <2> QED
    BY <1>1, <1>2, <2>5, <2>6, <2>11 DEF RetryInv
<1> QED
  BY <1>9, <1>10, <1>11

\* One change of SQLite.
LEMMA RetryApplies ==
    ASSUME UpgradeInv, RetryInv, NEW u \in Upgraders, ApplyChange(u)
    PROVE  RetryInv'
<1>1. /\ Procs /\ UNCHANGED <<dialect, from, killed>> /\ procs[u].pc = "change"
      /\ Running(u) /\ procs[u].raced \in BOOLEAN
  BY DEF UpgradeInv, ApplyChange, Running, Procs, ProcRecord
<1>2. dialect = "sqlite"
  BY <1>1 DEF UpgradeInv, SqlStore, SqlProc
<1>3. PICK v : v = procs[u].next
  OBVIOUS
<1>4. v \in 1 .. CurrentVersion /\ (~procs[u].raced => recorded = 1 .. v - 1)
      /\ schema = UNION {changes[w] : w \in recorded}
  BY <1>1, <1>2, <1>3 DEF UpgradeInv, SqliteStore, SqliteProc, RetryInv, ChangesOnly
<1>5. v \in Nat /\ (v + 1) - 1 = v
  BY <1>4 DEF CurrentVersion
<1>6. ~procs[u].raced => ~(v \in recorded \/ (AddsColumns(v) /\ changes[v] \subseteq schema))
  <2> SUFFICES ASSUME ~procs[u].raced
               PROVE  v \notin recorded /\ ~(AddsColumns(v) /\ changes[v] \subseteq schema)
    OBVIOUS
  <2>1. v \notin recorded /\ \A w \in recorded : w \in 1 .. CurrentVersion /\ w # v
    BY <1>4, <1>5 DEF CurrentVersion
  <2>2. ASSUME AddsColumns(v) PROVE ~(changes[v] \subseteq schema)
    <3>1. PICK x \in changes[v] : \A w \in 1 .. CurrentVersion : w # v => x \notin changes[w]
      BY <1>4, <2>2, ColumnsOfChanges
    <3> QED
      BY <1>4, <2>1, <3>1
  <2> QED
    BY <2>1, <2>2
<1> DEFINE following == [procs[u] EXCEPT !.next = v + 1,
                                         !.pc = IF v = CurrentVersion THEN "open" ELSE "change"]
<1>7. \/ /\ schema' = schema \cup changes[v]
         /\ recorded' = recorded \cup {v} /\ Steps(u, following)
      \/ procs[u].raced /\ Leaves(u, "failed") /\ UNCHANGED <<schema, recorded>>
  BY <1>3, <1>6 DEF ApplyChange
<1>8. CASE /\ schema' = schema \cup changes[v]
           /\ recorded' = recorded \cup {v} /\ Steps(u, following)
  <2>1. procs[u] \in ProcRecord /\ v + 1 \in Nat
    BY <1>1, <1>5 DEF Procs
  <2>2. PICK p : p = following
    OBVIOUS
  <2>3. /\ p \in ProcRecord /\ p.pc \in {"open", "change"} /\ p.next = v + 1
        /\ p.raced = procs[u].raced /\ p.afterKill = procs[u].afterKill
    BY <2>1, <2>2 DEF ProcRecord
  <2> HIDE DEF following
  <2>4. Steps(u, p) /\ procs'[u] = p
    BY <1>1, <1>8, <2>2, <2>3, StepsOthers
  <2>5. Overlaps'
    BY <1>1, <2>3, <2>4, OverlapsStep, GoesOverlapped DEF RetryInv
  <2>6. RetriesSucceed'
    BY <1>1, <2>3, <2>4, FailuresStay DEF RetryInv
  <2>7. schema' = UNION {changes[w] : w \in recorded'}
    BY <1>4, <1>8
  <2>8. ASSUME NEW x \in Upgraders, Running(x)', ~procs'[x].raced
        PROVE  recorded' = 1 .. procs'[x].next - 1
    <3>1. x = u
      BY <1>1, <2>3, <2>4, <2>8, OthersRaced
    <3>2. recorded = 1 .. v - 1 /\ procs'[u].next = v + 1
      BY <1>4, <2>3, <2>4, <2>8, <3>1
    <3>3. (1 .. v - 1) \cup {v} = 1 .. v
      BY <1>4, <1>5 DEF CurrentVersion
    <3> QED
      BY <1>5, <1>8, <3>1, <3>2, <3>3
  <2> QED
    BY <1>1, <1>2, <2>5, <2>6, <2>7, <2>8 DEF RetryInv, ChangesOnly, changes
<1>9. CASE procs[u].raced /\ Leaves(u, "failed") /\ UNCHANGED <<schema, recorded>>
  <2>1. PICK p \in ProcRecord :
            /\ Steps(u, p) /\ procs'[u] = p /\ p.pc = "failed"
            /\ p.raced = procs[u].raced /\ p.afterKill = procs[u].afterKill
    BY <1>1, <1>9, LeavesFields
  <2>2. Overlaps'
    BY <1>1, <2>1, OverlapsStep DEF RetryInv
  <2>3. RetriesSucceed'
    BY <1>1, <1>9, <2>1, FailuresStay DEF RetryInv
  <2>4. ASSUME NEW x \in Upgraders, Running(x)', ~procs'[x].raced PROVE FALSE
    BY <1>1, <2>1, <2>4, OthersRaced DEF Running
  <2> QED
    BY <1>1, <1>2, <1>9, <2>2, <2>3, <2>4 DEF RetryInv, ChangesOnly
<1> QED
  BY <1>7, <1>8, <1>9

LEMMA RetryStutters ==
    ASSUME UpgradeInv, RetryInv, UNCHANGED schemaVars
    PROVE  RetryInv'
<1>1. UNCHANGED <<dialect, from, schema, recorded, procs, killed>>
  BY DEF schemaVars
<1>2. UpgradeStatements(from)' = UpgradeStatements(from)
  BY <1>1, SameStatements
<1>3. \A x \in Upgraders : /\ Past(x) => Past(x)'
                           /\ Running(x)' <=> Running(x)
  BY <1>1, <1>2 DEF Past, Running
<1>4. Overlaps' /\ RetriesSucceed'
  BY <1>1, <1>3 DEF RetryInv, Overlaps, RetriesSucceed
<1>5. ColumnIsKnown => ColumnIsKnown'
  BY <1>1, <1>3 DEF ColumnIsKnown, CurrentSchemaVersion
<1>6. ChangesOnly => ChangesOnly'
  BY <1>1, <1>3 DEF ChangesOnly
<1> QED
  BY <1>1, <1>4, <1>5, <1>6 DEF RetryInv

LEMMA RetryNext == UpgradeInv /\ RetryInv /\ [SchemaNext]_schemaVars => RetryInv'
<1> SUFFICES ASSUME UpgradeInv, RetryInv, [SchemaNext]_schemaVars PROVE RetryInv'
  OBVIOUS
<1>1. CASE UNCHANGED schemaVars
  BY <1>1, RetryStutters
<1>2. CASE SchemaNext
  <2>1. PICK u \in Upgraders : UpgradeStep(u) \/ StopUpgrade(u)
    BY <1>2 DEF SchemaNext
  <2>2. CASE ReadVersion(u)
    BY <2>2, RetryReads
  <2>3. CASE ExecStatement(u)
    BY <2>3, RetryExecutes
  <2>4. CASE RecordVersion(u)
    BY <2>4, RetryRecords
  <2>5. CASE ApplyChange(u)
    BY <2>5, RetryApplies
  <2>6. CASE StopUpgrade(u)
    BY <2>6, RetryStops
  <2> QED
    BY <2>1, <2>2, <2>3, <2>4, <2>5, <2>6 DEF UpgradeStep
<1> QED
  BY <1>1, <1>2

-----------------------------------------------------------------------------
\* Whatever processes open a Store at once, and wherever their upgrades stop, a version that is
\* recorded has been applied (RecordedMeansApplied), from every version the Store may be at.
THEOREM UpgradesApply == SchemaSpec => []RecordedMeansApplied
<1>1. SchemaInit => UpgradeInv
  BY UpgradeInit
<1>2. UpgradeInv /\ [SchemaNext]_schemaVars => UpgradeInv'
  BY UpgradeNextInv
<1> QED
  BY <1>1, <1>2, InvMeansApplied, PTL DEF SchemaSpec

\* No upgrade takes away a version, or a table or column the program uses, also not one of an
\* old process that runs beside a newer Store (UpgradesOnlyAdd).
THEOREM UpgradesAdd == SchemaSpec => UpgradesOnlyAdd
<1>1. SchemaInit => UpgradeInv
  BY UpgradeInit
<1>2. UpgradeInv /\ [SchemaNext]_schemaVars => UpgradeInv'
  BY UpgradeNextInv
<1>3. UpgradeInv /\ [SchemaNext]_schemaVars
      => [recorded \subseteq recorded' /\ (schema \cap Needed) \subseteq schema']_schemaVars
  BY UpgradeStepInv DEF SchemaNext
<1> QED
  BY <1>1, <1>2, <1>3, PTL DEF SchemaSpec, UpgradesOnlyAdd

\* An attempt that nothing overlaps succeeds, after any number of stopped and failed ones, except
\* where a stopped upgrade of an old MySQL or PostgreSQL Store added its column (RetriesSucceed).
THEOREM RetriedUpgradesSucceed == SchemaSpec => []RetriesSucceed
<1>1. SchemaInit => UpgradeInv /\ RetryInv
  BY UpgradeInit, RetryInit
<1>2. UpgradeInv /\ RetryInv /\ [SchemaNext]_schemaVars => (UpgradeInv /\ RetryInv)'
  BY UpgradeNextInv, RetryNext
<1>3. UpgradeInv /\ RetryInv => RetriesSucceed
  BY DEF RetryInv
<1> QED
  BY <1>1, <1>2, <1>3, PTL DEF SchemaSpec

-----------------------------------------------------------------------------
(* Types.                                                                  *)

\* Versions that the processes read, and how often they tried.
Tried ==
    /\ from \in 0 .. CurrentVersion
    /\ \A u \in Upgraders : procs[u].current \in 0 .. CurrentVersion /\ procs[u].tries \in 0 .. MaxRetries

LEMMA RecordedTypes ==
    ASSUME UpgradeInv
    PROVE  /\ recorded \subseteq 1 .. CurrentVersion
           /\ Highest(recorded) \in 0 .. CurrentVersion
<1>1. CASE dialect = "sqlite"
  <2>1. PICK k \in 0 .. CurrentVersion : recorded = 1 .. k
    BY <1>1 DEF UpgradeInv, SqliteStore
  <2>2. k \in recorded \cup {0} /\ \A w \in recorded : w <= k
    BY <2>1 DEF CurrentVersion
  <2>3. Highest(recorded) \in recorded \cup {0}
    BY <2>2 DEF Highest
  <2> QED
    BY <2>1, <2>3 DEF CurrentVersion
<1>2. CASE dialect # "sqlite"
  <2>1. from \in 0 .. 11 /\ recorded \in {{from} \ {0}, ({from} \ {0}) \cup {11}}
    BY <1>2 DEF UpgradeInv, SqlStore, FirstRecorded, CurrentSchemaVersion
  <2>2. \E v \in recorded \cup {0} : \A w \in recorded : w <= v
    <3>1. CASE 11 \in recorded
      BY <2>1, <3>1
    <3>2. CASE 11 \notin recorded
      <4>1. from \in recorded \cup {0} /\ \A w \in recorded : w <= from
        BY <2>1, <3>2
      <4> QED
        BY <4>1
    <3> QED
      BY <3>1, <3>2
  <2>3. Highest(recorded) \in recorded \cup {0}
    BY <2>2 DEF Highest
  <2> QED
    BY <2>1, <2>3 DEF CurrentVersion
<1> QED
  BY <1>1, <1>2

\* What a step of a process leaves it with.
LEMMA TriedSteps ==
    ASSUME UpgradeInv, Tried, UNCHANGED from, NEW u \in Upgraders, NEW p, Steps(u, p),
           p.current \in 0 .. CurrentVersion, p.tries \in 0 .. MaxRetries
    PROVE  Tried'
<1> SUFFICES ASSUME NEW x \in Upgraders
             PROVE  procs'[x].current \in 0 .. CurrentVersion /\ procs'[x].tries \in 0 .. MaxRetries
  BY DEF Tried
<1>1. procs[x] \in ProcRecord
  BY DEF UpgradeInv, Procs
<1>2. CASE x = u
  BY <1>2 DEF Steps
<1>3. CASE x # u
  <2>1. procs'[x] \in {procs[x], [procs[x] EXCEPT !.raced = TRUE]}
    BY <1>3 DEF Steps
  <2>2. procs'[x].current = procs[x].current /\ procs'[x].tries = procs[x].tries
    BY <1>1, <2>1 DEF ProcRecord
  <2> QED
    BY <2>2 DEF Tried
<1> QED
  BY <1>2, <1>3

LEMMA TriedStep ==
    ASSUME UpgradeInv, Tried, [SchemaNext]_schemaVars
    PROVE  Tried'
<1>1. CASE UNCHANGED schemaVars
  BY <1>1 DEF schemaVars, Tried
<1>2. ASSUME NEW u \in Upgraders, UpgradeStep(u) \/ StopUpgrade(u)
      PROVE  Tried'
  <2>0. procs[u] \in ProcRecord /\ MaxRetries \in Nat
    BY SchemaConstants DEF UpgradeInv, Procs
  <2>1. UNCHANGED from
    BY <1>2 DEF UpgradeStep, ReadVersion, ExecStatement, RecordVersion, ApplyChange, StopUpgrade
  <2>2. procs[u].current \in 0 .. CurrentVersion /\ procs[u].tries \in 0 .. MaxRetries
    BY DEF Tried
  <2>3. CASE ReadVersion(u)
    <3> DEFINE p == [pc |-> IF Highest(recorded) >= Target THEN "open"
                            ELSE IF dialect = "sqlite" THEN "change" ELSE "statements",
                     current |-> Highest(recorded),
                     next |-> IF dialect = "sqlite" THEN Highest(recorded) + 1 ELSE 1,
                     tries |-> IF procs[u].pc = "idle" THEN 0 ELSE procs[u].tries + 1,
                     raced |-> \E x \in Upgraders \ {u} : Running(x),
                     afterKill |-> killed]
    <3>1. Steps(u, p)
      BY <2>3 DEF ReadVersion
    <3>2. p.current = Highest(recorded) /\ p.tries = IF procs[u].pc = "idle" THEN 0 ELSE procs[u].tries + 1
      OBVIOUS
    <3>3. procs[u].pc # "idle" => procs[u].tries < MaxRetries
      BY <2>3 DEF ReadVersion
    <3> HIDE DEF p
    <3>4. p.tries \in 0 .. MaxRetries
      BY <2>0, <2>2, <3>2, <3>3
    <3> QED
      BY <2>1, <3>1, <3>2, <3>4, RecordedTypes, TriedSteps
  <2>4. ASSUME NEW pc, NEW next, Steps(u, [procs[u] EXCEPT !.pc = pc, !.next = next])
        PROVE  Tried'
    <3> DEFINE p == [procs[u] EXCEPT !.pc = pc, !.next = next]
    <3>1. p.current = procs[u].current /\ p.tries = procs[u].tries
      BY <2>0 DEF ProcRecord
    <3>2. Steps(u, p)
      BY <2>4
    <3> HIDE DEF p
    <3> QED
      BY <2>1, <2>2, <3>1, <3>2, TriedSteps
  <2>5. ASSUME NEW result, Leaves(u, result) PROVE Tried'
    <3> DEFINE p == [procs[u] EXCEPT !.pc = result]
    <3>1. p.current = procs[u].current /\ p.tries = procs[u].tries
      BY <2>0 DEF ProcRecord
    <3>2. Steps(u, p)
      BY <2>5 DEF Leaves
    <3> HIDE DEF p
    <3> QED
      BY <2>1, <2>2, <3>1, <3>2, TriedSteps
  <2>6. CASE ExecStatement(u)
    <3>1. PICK pc : pc = IF procs[u].next = Len(Statements(u)) THEN "record" ELSE "statements"
      OBVIOUS
    <3>2. \/ Steps(u, [procs[u] EXCEPT !.pc = pc, !.next = procs[u].next + 1])
          \/ Leaves(u, "failed")
      BY <2>6, <3>1 DEF ExecStatement
    <3> QED
      BY <2>4, <2>5, <3>2
  <2>7. CASE ApplyChange(u)
    <3>1. PICK pc : pc = IF procs[u].next = CurrentVersion THEN "open" ELSE "change"
      OBVIOUS
    <3>2. \/ Steps(u, [procs[u] EXCEPT !.next = procs[u].next + 1, !.pc = pc])
          \/ Leaves(u, "failed")
      BY <2>7, <3>1 DEF ApplyChange
    <3>3. [procs[u] EXCEPT !.next = procs[u].next + 1, !.pc = pc]
            = [procs[u] EXCEPT !.pc = pc, !.next = procs[u].next + 1]
      BY <2>0 DEF ProcRecord
    <3> QED
      BY <2>4, <2>5, <3>2, <3>3
  <2>8. CASE RecordVersion(u) \/ StopUpgrade(u)
    BY <2>5, <2>8 DEF RecordVersion, StopUpgrade
  <2> QED
    BY <1>2, <2>3, <2>6, <2>7, <2>8 DEF UpgradeStep
<1> QED
  BY <1>1, <1>2 DEF SchemaNext

\* Recorded versions, those that processes read, and their attempts stay in range
\* (SchemaTypeOK), for every number of processes and attempts.
THEOREM UpgradesKeepTypes == SchemaSpec => []SchemaTypeOK
<1>1. SchemaInit => UpgradeInv /\ Tried
  <2> SUFFICES ASSUME SchemaInit PROVE Tried
    BY UpgradeInit
  <2>1. from \in 0 .. CurrentVersion /\ MaxRetries \in Nat
    BY SchemaConstants DEF SchemaInit, CurrentVersion, CurrentSchemaVersion
  <2> QED
    BY <2>1 DEF Tried, SchemaInit, NewProc, CurrentVersion
<1>2. UpgradeInv /\ Tried /\ [SchemaNext]_schemaVars => (UpgradeInv /\ Tried)'
  BY UpgradeNextInv, TriedStep
<1>3. UpgradeInv /\ Tried => SchemaTypeOK
  <2> SUFFICES ASSUME UpgradeInv, Tried PROVE SchemaTypeOK
    OBVIOUS
  <2>1. procs \in [Upgraders -> [pc : {"idle", "statements", "change", "record", "open",
                                       "failed", "stopped"},
                                 current : 0 .. CurrentVersion, next : Nat,
                                 tries : 0 .. MaxRetries, raced : BOOLEAN, afterKill : BOOLEAN]]
    BY DEF UpgradeInv, Procs, ProcRecord, Tried
  <2> QED
    BY <2>1, RecordedTypes DEF UpgradeInv, Tried, SchemaTypeOK
<1> QED
  BY <1>1, <1>2, <1>3, PTL DEF SchemaSpec
=============================================================================
