------------------------ MODULE EnvironmentMigration ------------------------
(***************************************************************************)
(* MySQL migrations of one dependency edge and one database.               *)
(*                                                                         *)
(* Every command loads the component graph in separate queries: the edge   *)
(* with the ids it lists, then the assets; another command may write       *)
(* between the two.  "environment migration add" adds a versioned SQL      *)
(* asset and its id on the edge, and writes the graph back, as a whole and *)
(* with what it loaded of the other versions.  "apply", "baseline" and     *)
(* restore go through the assets one by one: read the history row of the   *)
(* version in the target database, compare checksums, check preconditions, *)
(* and send a script that runs the content and then inserts the history    *)
(* row.  The script is no transaction and is sent again, up to MaxAttempts *)
(* times, when the connection is lost; a failed item does not stop the     *)
(* later ones.                                                             *)
(*                                                                         *)
(* Abstractions: versions are their apply order; a checksum is the content *)
(* it is of; content that fails changes nothing; the components of the     *)
(* graph, and its other edges and assets, are those of ComponentGraph and  *)
(* stay as they are (here only "add" writes the graph).                    *)
(***************************************************************************)
EXTENDS Naturals, Sequences, FiniteSets

CONSTANTS Operators,    \* processes that add, apply, baseline or restore
          Versions,     \* migration versions
          Contents,     \* SQL contents
          Broken,       \* contents the database rejects
          Guarded,      \* versions with a column-not-exists precondition on their column
          MaxAttempts,  \* attempts of a statement whose connection is lost (60 in the code)
          MaxCommands   \* bound: commands started

ASSUME MigrationConstants ==
    /\ Versions \subseteq Nat /\ IsFiniteSet(Versions)
    /\ Broken \subseteq Contents /\ "unregistered" \notin Contents
    /\ Guarded \subseteq Versions
    /\ MaxAttempts \in Nat \ {0} /\ MaxCommands \in Nat

VARIABLES assets,    \* per version: its content in the Store, or Unregistered
          assetIds,  \* the versions in the order the edge lists them
          history,   \* per version: the history row of the target database, or NoHistory
          ran,       \* per version: how often its content ran in the target database
          commands,  \* per operator: the command it runs
          commandsStarted,
          doubtful,  \* versions whose script was cut after its content, or overlapped another
          torn       \* versions of which two halves that never belonged together were written

migrationVars == <<assets, assetIds, history, ran, commands, commandsStarted, doubtful, torn>>

Unregistered == "unregistered"
NoHistory == [status |-> "none", content |-> Unregistered]

\* version: the one to add, or to go through; torn: what another command registered or took
\* off between this one's two queries, and what was torn before.
NoCommand == [pc |-> "idle", kind |-> "none", items |-> << >>, next |-> 1, ok |-> TRUE,
              attempts |-> 1, version |-> 0, content |-> Unregistered, force |-> FALSE,
              assets |-> [v \in Versions |-> Unregistered], ids |-> << >>, torn |-> {}]

MigrationInit ==
    /\ assets = [v \in Versions |-> Unregistered]
    /\ assetIds = << >>
    /\ history = [v \in Versions |-> NoHistory]
    /\ ran = [v \in Versions |-> 0]
    /\ commands = [o \in Operators |-> NoCommand]
    /\ commandsStarted = 0
    /\ doubtful = {}
    /\ torn = {}

Registered == {v \in Versions : assets[v] # Unregistered}

Does(o, command) == commands' = [commands EXCEPT ![o] = command]

\* A command begins with the query for the edges.
Starts(o, command) ==
    /\ commands[o].pc = "idle"
    /\ commandsStarted < MaxCommands
    /\ commandsStarted' = commandsStarted + 1
    /\ Does(o, [command EXCEPT !.pc = "load", !.ids = assetIds, !.torn = torn])
    /\ UNCHANGED <<assets, assetIds, history, ran, doubtful, torn>>

Loading(o, kinds) == commands[o].pc = "load" /\ commands[o].kind \in kinds

-----------------------------------------------------------------------------
(* add                                                                     *)

BeginAdd(o) ==
    \E v \in Versions, c \in Contents, force \in BOOLEAN :
        Starts(o, [NoCommand EXCEPT !.kind = "add", !.version = v, !.content = c, !.force = force])

\* The query for the assets.
LoadAssets(o) ==
    /\ Loading(o, {"add"})
    /\ Does(o, [commands[o] EXCEPT !.pc = "add", !.assets = assets])
    /\ UNCHANGED <<assets, assetIds, history, ran, commandsStarted, doubtful, torn>>

Listed(ids, v) == \E i \in DOMAIN ids : ids[i] = v

\* The versions that a write of the assets registers or takes off.
Turned(stored) == {v \in Versions : (stored[v] = Unregistered) # (assets[v] = Unregistered)}

\* One transaction replaces the graph; who is between its two queries has the old edges and
\* will see the new assets.
ReplaceGraph(o, stored, ids) ==
    /\ assets' = stored
    /\ assetIds' = ids
    /\ torn' = commands[o].torn \ {commands[o].version}
    /\ commands' = [x \in Operators |->
          IF x = o THEN NoCommand
          ELSE IF commands[x].pc = "load"
          THEN [commands[x] EXCEPT !.torn = @ \cup Turned(stored)]
          ELSE commands[x]]

\* Mutant: the edge does not list the new asset.
AddWithoutId(o) ==
    /\ commands[o].pc = "add"
    /\ ReplaceGraph(o, [commands[o].assets EXCEPT ![commands[o].version] = commands[o].content],
                    commands[o].ids)
    /\ UNCHANGED <<history, ran, commandsStarted, doubtful>>

\* The graph that was loaded is written back with the asset; one that is there is only
\* replaced with --force.
addEnvironmentMigrationAsset(o) ==
    LET command == commands[o]
        v == command.version
    IN  /\ command.pc = "add"
        /\ IF command.assets[v] # Unregistered /\ ~command.force
           THEN Does(o, NoCommand) /\ UNCHANGED <<assets, assetIds, torn>>
           ELSE ReplaceGraph(o, [command.assets EXCEPT ![v] = command.content],
                             IF Listed(command.ids, v) THEN command.ids ELSE Append(command.ids, v))
        /\ UNCHANGED <<history, ran, commandsStarted, doubtful>>

-----------------------------------------------------------------------------
(* apply, baseline and restore                                             *)

Item(v) == [version |-> v, content |-> assets[v]]

\* The members of a finite set of numbers, the lowest first.
Ascending(numbers) ==
    [i \in 1 .. Cardinality(numbers) |->
        CHOOSE n \in numbers : Cardinality({m \in numbers : m < n}) = i - 1]

environmentMigrationVersionAfter(version, through) == version > through

\* Mutant: the versions in the order the edge lists them.
ListedItems(ids, through) ==
    LET chosen == SelectSeq(ids, LAMBDA v : v <= through)
    IN  [i \in DOMAIN chosen |-> Item(chosen[i])]

\* The versions of the edge up to "through", in version order; an id without its asset is
\* passed over.
environmentMigrationItems(ids, through) ==
    LET chosen == Ascending({v \in Registered :
                      Listed(ids, v) /\ ~environmentMigrationVersionAfter(v, through)})
    IN  [i \in DOMAIN chosen |-> Item(chosen[i])]

\* A restore goes through the edge in the order of its ids.
EdgeItems(ids) ==
    LET found == Ascending({i \in DOMAIN ids : ids[i] \in Registered})
    IN  [i \in DOMAIN found |-> Item(ids[found[i]])]

BeginTarget(o) ==
    /\ assetIds # << >>
    /\ \E kind \in {"apply", "baseline"}, through \in Versions :
          Starts(o, [NoCommand EXCEPT !.kind = kind, !.version = through])

BeginRestore(o) ==
    /\ assetIds # << >>
    /\ Starts(o, [NoCommand EXCEPT !.kind = "restore"])

\* What a command does with its items; without any it has nothing to do.
Plans(o, items, ok) ==
    /\ Does(o, IF items = << >> THEN NoCommand
               ELSE [NoCommand EXCEPT !.pc = "query", !.kind = commands[o].kind,
                                      !.items = items, !.ok = ok])
    /\ UNCHANGED <<assets, assetIds, history, ran, commandsStarted, doubtful, torn>>

prepareEnvironmentMigrationTarget(o) ==
    /\ Loading(o, {"apply", "baseline"})
    /\ Plans(o, environmentMigrationItems(commands[o].ids, commands[o].version), TRUE)

\* An id without its asset is a failure of the restore.
PlanRestore(o) ==
    /\ Loading(o, {"restore"})
    /\ Plans(o, EdgeItems(commands[o].ids),
             \A i \in DOMAIN commands[o].ids : commands[o].ids[i] \in Registered)

Current(o) == commands[o].items[commands[o].next]

\* The item ends; the next one follows, also after a failure.
Ended(o, ok) ==
    LET last == commands[o].next = Len(commands[o].items)
    IN  [commands[o] EXCEPT !.ok = @ /\ ok, !.attempts = 1,
                            !.pc = IF last THEN "end" ELSE "query",
                            !.next = IF last THEN @ ELSE @ + 1]

Goes(o, pc) == [commands[o] EXCEPT !.pc = pc, !.attempts = 1]

\* Mutants: a row of any checksum will do; the row is not looked at.
QueryAnyChecksum(o) ==
    /\ commands[o].pc = "query"
    /\ Does(o, IF history[Current(o).version] # NoHistory THEN Ended(o, TRUE)
               ELSE Goes(o, IF commands[o].kind = "baseline" THEN "insert" ELSE "content"))
    /\ UNCHANGED <<assets, assetIds, history, ran, commandsStarted, doubtful, torn>>

QueryNothing(o) ==
    /\ commands[o].pc = "query"
    /\ Does(o, Goes(o, IF commands[o].kind = "baseline" THEN "insert" ELSE "content"))
    /\ UNCHANGED <<assets, assetIds, history, ran, commandsStarted, doubtful, torn>>

\* Create the history table if it is missing, then read the row of the version.
QueryHistory(o) ==
    /\ commands[o].pc = "query"
    /\ LET row == history[Current(o).version]
       IN  IF row # NoHistory THEN Does(o, Ended(o, row.content = Current(o).content))
           ELSE IF commands[o].kind = "baseline" THEN Does(o, Goes(o, "insert"))
           ELSE IF Current(o).version \in Guarded THEN Does(o, Goes(o, "precondition"))
           ELSE Does(o, Goes(o, "content"))
    /\ UNCHANGED <<assets, assetIds, history, ran, commandsStarted, doubtful, torn>>

\* column-not-exists fails once the content has added its column.
CheckPrecondition(o) ==
    /\ commands[o].pc = "precondition"
    /\ Does(o, IF ran[Current(o).version] = 0 THEN Goes(o, "content") ELSE Ended(o, FALSE))
    /\ UNCHANGED <<assets, assetIds, history, ran, commandsStarted, doubtful, torn>>

\* The version of this item, when another command read its history and has not recorded it.
Overlapped(o) ==
    IF \E x \in Operators \ {o} : /\ commands[x].pc \in {"precondition", "content", "insert"}
                                  /\ Current(x).version = Current(o).version
    THEN {Current(o).version} ELSE {}

\* First part of the script: the content.
RunContent(o) ==
    LET v == Current(o).version
    IN  /\ commands[o].pc = "content"
        /\ IF Current(o).content \in Broken
           THEN Does(o, Ended(o, FALSE)) /\ UNCHANGED <<ran, doubtful>>
           ELSE /\ ran' = [ran EXCEPT ![v] = @ + 1]
                /\ doubtful' = doubtful \cup Overlapped(o)
                /\ Does(o, [commands[o] EXCEPT !.pc = "insert"])
        /\ UNCHANGED <<assets, assetIds, history, commandsStarted, torn>>

\* Second part: the history row, whose key is unique.
Recorded(o) ==
    [history EXCEPT ![Current(o).version] =
        [status |-> IF commands[o].kind = "baseline" THEN "baseline" ELSE "applied",
         content |-> Current(o).content]]

InsertHistory(o) ==
    /\ commands[o].pc = "insert"
    /\ IF history[Current(o).version] = NoHistory
       THEN history' = Recorded(o) /\ Does(o, Ended(o, TRUE))
       ELSE history' = history /\ Does(o, Ended(o, FALSE))
    /\ doubtful' = doubtful \cup Overlapped(o)
    /\ UNCHANGED <<assets, assetIds, ran, commandsStarted, torn>>

\* The connection is lost in or after the second part: the whole script is sent again,
\* without a look at the history, until the attempts are used up.
LoseConnection(o) ==
    /\ commands[o].pc = "insert"
    /\ history' \in {history} \cup
          IF history[Current(o).version] = NoHistory THEN {Recorded(o)} ELSE {}
    /\ doubtful' = doubtful \cup {Current(o).version}
    /\ Does(o, IF commands[o].attempts < MaxAttempts
               THEN [commands[o] EXCEPT !.attempts = @ + 1,
                        !.pc = IF commands[o].kind = "baseline" THEN "insert" ELSE "content"]
               ELSE Ended(o, FALSE))
    /\ UNCHANGED <<assets, assetIds, ran, commandsStarted, torn>>

\* The process, or its docker exec, is killed.
Kill(o) ==
    /\ commands[o].pc \notin {"idle", "end"}
    /\ doubtful' = doubtful \cup
          IF commands[o].pc = "insert" THEN {Current(o).version} ELSE {}
    /\ Does(o, NoCommand)
    /\ UNCHANGED <<assets, assetIds, history, ran, commandsStarted, torn>>

End(o) ==
    /\ commands[o].pc = "end"
    /\ Does(o, NoCommand)
    /\ UNCHANGED <<assets, assetIds, history, ran, commandsStarted, doubtful, torn>>

runEnvironmentMigrationWithHistory(o) ==
    QueryHistory(o) \/ CheckPrecondition(o) \/ RunContent(o) \/ InsertHistory(o)

MigrationNext ==
    \E o \in Operators :
        \/ BeginAdd(o) \/ LoadAssets(o) \/ addEnvironmentMigrationAsset(o)
        \/ BeginTarget(o) \/ prepareEnvironmentMigrationTarget(o)
        \/ BeginRestore(o) \/ PlanRestore(o)
        \/ runEnvironmentMigrationWithHistory(o)
        \/ LoseConnection(o) \/ Kill(o) \/ End(o)

MigrationSpec == MigrationInit /\ [][MigrationNext]_migrationVars

-----------------------------------------------------------------------------
(* Properties.                                                             *)

Items == [version : Versions, content : Contents]

\* Type correctness.
MigrationTypeOK ==
    /\ assets \in [Versions -> Contents \cup {Unregistered}]
    /\ assetIds \in Seq(Versions)
    /\ history \in [Versions -> [status : {"none", "applied", "baseline"},
                                 content : Contents \cup {Unregistered}]]
    /\ ran \in [Versions -> Nat]
    /\ commands \in [Operators ->
          [pc : {"idle", "load", "add", "query", "precondition", "content", "insert", "end"},
           kind : {"none", "add", "apply", "baseline", "restore"}, items : Seq(Items),
           next : Nat \ {0}, ok : BOOLEAN, attempts : 1 .. MaxAttempts,
           version : Versions \cup {0}, content : Contents \cup {Unregistered}, force : BOOLEAN,
           assets : [Versions -> Contents \cup {Unregistered}], ids : Seq(Versions),
           torn : SUBSET Versions]]
    /\ commandsStarted \in Nat
    /\ doubtful \subseteq Versions /\ torn \subseteq Versions

\* The edge lists exactly the migrations the Store has, in spite of graphs that are
\* loaded in two queries, changed and written back over each other by several processes;
\* except those that one process registered or took off between the two queries of another
\* that then wrote its graph back, until they are added again.
EdgeListsAssets == \A v \in Versions \ torn : Listed(assetIds, v) <=> v \in Registered

\* A version recorded as applied has run; a run that reports ok leaves every one of its
\* items recorded with the checksum it has in the Store it read, whatever other
\* processes, lost connections or kills came in between.
HistoryIsTrue ==
    /\ \A v \in Versions : history[v].status = "applied" => ran[v] > 0
    /\ \A o \in Operators :
          commands[o].pc = "end" /\ commands[o].ok =>
              \A i \in DOMAIN commands[o].items :
                  history[commands[o].items[i].version].content = commands[o].items[i].content

\* A content runs a second time, or after its version was recorded, only if an earlier
\* script was cut between content and row, or ran beside another: repeated commands,
\* a changed content (--force) and a baseline never run it again.
NoSecondRun ==
    [][\A v \in Versions :
          ran'[v] # ran[v] /\ (ran[v] > 0 \/ history[v] # NoHistory)
              => v \in doubtful']_migrationVars

\* "apply" runs a version after the lower ones are recorded, unless one of its items
\* failed (later items still run).
LowerVersionsFirst ==
    [][\A o \in Operators :
          commands[o].pc = "content" /\ commands'[o].pc = "insert"
             /\ commands[o].kind = "apply" /\ commands[o].ok =>
              \A v \in Versions :
                  (v < Current(o).version /\ \E i \in DOMAIN commands[o].items :
                                                 commands[o].items[i].version = v)
                      => history[v] # NoHistory]_migrationVars
=============================================================================
