----------------------------- MODULE HostSideProofs -----------------------------
(***************************************************************************)
(* What holds of migrations for every number of commands, versions and      *)
(* lost connections, of case runs for every number of attempts, ids and     *)
(* imported rows, and of reports about suites for every set of cases, runs  *)
(* and bindings.                                                            *)
(*                                                                         *)
(* Migrations.  NoSecondRun: a command that is about to run a content read  *)
(* an empty history before; it stays empty unless another command overlaps  *)
(* it, and a content that ran without a row is that of a command that is    *)
(* about to insert the row, or is doubtful.  EdgeListsAssets: the edges     *)
(* that a command has read go with the assets of the Store, but for what    *)
(* was torn and what others turned since; so does the graph it then holds,  *)
(* and what it writes.                                                      *)
(* HistoryIsTrue and LowerVersionsFirst: the items of a command are those   *)
(* of the edge in the order of their versions, and every command that has   *)
(* got to an item left what it was for in the history.                      *)
(*                                                                         *)
(* Case runs.  The rows of a run come from one attempt, and readers are     *)
(* shown its evidence.  The argument is about owners: the run row is        *)
(* inserted once per id and never changes, whoever goes on to record owns   *)
(* it, and every other row names a run it belongs to or is the importer's.  *)
(*                                                                         *)
(* Case suites.  What a report read of a case is what was true of it at one *)
(* moment of the report, as long as its runs are recorded in order; scores  *)
(* then compare moments, and sorted lists cut off only lower scores.        *)
(*                                                                         *)
(* Together.  The parts share no state, so a behaviour of MCHostSide is one *)
(* of every part, and keeps the types of them all.                          *)
(***************************************************************************)
EXTENDS MCHostSide, EnvironmentRestoreProofs, FiniteOrders

CommandFields == {"pc", "kind", "items", "next", "ok", "attempts", "version",
                  "content", "force", "assets", "ids", "torn"}

CommandsShape ==
    /\ commands = [o \in Operators |-> commands[o]]
    /\ \A o \in Operators : CommandFields \subseteq DOMAIN commands[o]
    /\ history = [v \in Versions |-> history[v]]
    /\ ran \in [Versions -> Nat]

\* o is at pc with the version v.
Works(o, pc, v) == commands[o].pc = pc /\ Current(o).version = v

About(o, v) == Works(o, "precondition", v) \/ Works(o, "content", v)

HistoryReadStays ==
    \A o \in Operators, v \in Versions \ doubtful : About(o, v) => history[v] = NoHistory

RunsAreRecorded ==
    \A v \in Versions \ doubtful :
        ran[v] > 0 /\ history[v] = NoHistory => \E o \in Operators : Works(o, "insert", v)

RunInv == CommandsShape /\ HistoryReadStays /\ RunsAreRecorded

-----------------------------------------------------------------------------
\* What a command of one operator changes of the others: nothing.
LEMMA DoesOthers ==
    ASSUME CommandsShape, NEW o \in Operators, NEW c, CommandFields \subseteq DOMAIN c, Does(o, c)
    PROVE  /\ commands' = [x \in Operators |-> commands'[x]] /\ commands'[o] = c
           /\ \A x \in Operators : CommandFields \subseteq DOMAIN commands'[x]
           /\ \A x \in Operators \ {o} : commands'[x] = commands[x]
BY DEF CommandsShape, Does

LEMMA EndedFields ==
    ASSUME CommandsShape, NEW o \in Operators, NEW ok
    PROVE  /\ CommandFields \subseteq DOMAIN Ended(o, ok)
           /\ Ended(o, ok).pc \in {"end", "query"}
BY DEF CommandsShape, Ended, CommandFields

LEMMA GoesFields ==
    ASSUME CommandsShape, NEW o \in Operators, NEW pc
    PROVE  /\ CommandFields \subseteq DOMAIN Goes(o, pc)
           /\ Goes(o, pc).pc = pc
           /\ Goes(o, pc).items = commands[o].items /\ Goes(o, pc).next = commands[o].next
BY DEF CommandsShape, Goes, CommandFields

LEMMA NoCommandFields == CommandFields \subseteq DOMAIN NoCommand
BY DEF NoCommand, CommandFields

\* A command goes on, and others learn at most what changed while they load a graph.
MovesAlone(o, c) ==
    /\ commands' = [x \in Operators |-> commands'[x]] /\ commands'[o] = c
    /\ \A x \in Operators : CommandFields \subseteq DOMAIN commands'[x]
    /\ \A x \in Operators \ {o} :
          commands'[x] # commands[x] => commands[x].pc = "load" /\ commands'[x].pc = "load"

\* A command that goes on to a step that runs nothing, while the database stays as it is.
LEMMA QuietMove ==
    ASSUME RunInv, NEW o \in Operators, NEW c, MovesAlone(o, c),
           c.pc \notin {"precondition", "content"},
           UNCHANGED <<history, ran>>, doubtful \subseteq doubtful',
           \A v \in Versions : Works(o, "insert", v) => v \in doubtful'
    PROVE  RunInv'
<1>1. /\ commands' = [x \in Operators |-> commands'[x]] /\ commands'[o] = c
      /\ \A x \in Operators : CommandFields \subseteq DOMAIN commands'[x]
  BY DEF MovesAlone
<1>2. \A x \in Operators \ {o} : \A pc \in {"precondition", "content", "insert"} : \A v :
         Works(x, pc, v)' <=> Works(x, pc, v)
  BY DEF MovesAlone, Works, Current
<1>3. HistoryReadStays'
  BY <1>1, <1>2 DEF RunInv, HistoryReadStays, About, Works
<1>4. RunsAreRecorded'
  <2> SUFFICES ASSUME NEW v \in Versions \ doubtful', ran[v] > 0, history[v] = NoHistory
               PROVE  \E x \in Operators : Works(x, "insert", v)'
    BY DEF RunsAreRecorded
  <2>1. PICK x \in Operators : Works(x, "insert", v)
    BY DEF RunInv, RunsAreRecorded
  <2>2. x # o
    BY <2>1
  <2> QED
    BY <1>2, <2>1, <2>2
<1>5. CommandsShape'
  BY <1>1 DEF RunInv, CommandsShape
<1> QED
  BY <1>3, <1>4, <1>5 DEF RunInv

LEMMA QuietStep ==
    ASSUME RunInv, NEW o \in Operators, NEW c, CommandFields \subseteq DOMAIN c, Does(o, c),
           c.pc \notin {"precondition", "content"},
           UNCHANGED <<history, ran>>, doubtful \subseteq doubtful',
           \A v \in Versions : Works(o, "insert", v) => v \in doubtful'
    PROVE  RunInv'
<1>1. MovesAlone(o, c)
  BY DoesOthers DEF RunInv, MovesAlone
<1> QED
  BY <1>1, QuietMove

-----------------------------------------------------------------------------
\* What it is for a command to begin: the edges are read, and nothing else happens.
LEMMA BegunCommand ==
    ASSUME NEW o \in Operators, BeginAdd(o) \/ BeginTarget(o) \/ BeginRestore(o)
    PROVE  \E c : /\ CommandFields \subseteq DOMAIN c /\ Does(o, c)
                  /\ c.pc = "load" /\ c.ids = assetIds /\ c.torn = torn
                  /\ c.kind = "add" => c.version \in Versions /\ c.content \in Contents
<1>1. ASSUME NEW b, CommandFields \subseteq DOMAIN b, Starts(o, b),
             b.kind = "add" => b.version \in Versions /\ b.content \in Contents
      PROVE  \E c : /\ CommandFields \subseteq DOMAIN c /\ Does(o, c)
                    /\ c.pc = "load" /\ c.ids = assetIds /\ c.torn = torn
                    /\ c.kind = "add" => c.version \in Versions /\ c.content \in Contents
  <2> DEFINE c == [b EXCEPT !.pc = "load", !.ids = assetIds, !.torn = torn]
  <2>1. /\ CommandFields \subseteq DOMAIN c /\ c.pc = "load" /\ c.ids = assetIds /\ c.torn = torn
        /\ c.kind = b.kind /\ c.version = b.version /\ c.content = b.content
    BY <1>1 DEF CommandFields
  <2>2. Does(o, c)
    BY <1>1 DEF Starts
  <2> QED
    BY <1>1, <2>1, <2>2
<1>2. CASE BeginAdd(o)
  <2>1. PICK v \in Versions, a \in Contents, force \in BOOLEAN :
          Starts(o, [NoCommand EXCEPT !.kind = "add", !.version = v, !.content = a, !.force = force])
    BY <1>2 DEF BeginAdd
  <2> DEFINE b == [NoCommand EXCEPT !.kind = "add", !.version = v, !.content = a, !.force = force]
  <2>2. CommandFields \subseteq DOMAIN b /\ b.version = v /\ b.content = a
    BY DEF NoCommand, CommandFields
  <2> QED
    BY <1>1, <2>1, <2>2
<1>3. CASE BeginTarget(o)
  <2>1. PICK kind \in {"apply", "baseline"}, through \in Versions :
          Starts(o, [NoCommand EXCEPT !.kind = kind, !.version = through])
    BY <1>3 DEF BeginTarget
  <2> DEFINE b == [NoCommand EXCEPT !.kind = kind, !.version = through]
  <2>2. CommandFields \subseteq DOMAIN b /\ b.kind # "add"
    BY DEF NoCommand, CommandFields
  <2> QED
    BY <1>1, <2>1, <2>2
<1>4. CASE BeginRestore(o)
  <2> DEFINE b == [NoCommand EXCEPT !.kind = "restore"]
  <2>1. Starts(o, b)
    BY <1>4 DEF BeginRestore
  <2>2. CommandFields \subseteq DOMAIN b /\ b.kind # "add"
    BY DEF NoCommand, CommandFields
  <2> QED
    BY <1>1, <2>1, <2>2
<1> QED
  BY <1>2, <1>3, <1>4

\* Where a command goes with its items.
LEMMA PlannedCommand ==
    ASSUME NEW o \in Operators, NEW items, NEW ok, Plans(o, items, ok)
    PROVE  \E c : /\ Does(o, c) /\ CommandFields \subseteq DOMAIN c /\ c.pc \in {"idle", "query"}
<1>1. CASE items = << >>
  BY <1>1, NoCommandFields DEF Plans, NoCommand
<1>2. CASE items # << >>
  <2> DEFINE c == [NoCommand EXCEPT !.pc = "query", !.kind = commands[o].kind,
                                    !.items = items, !.ok = ok]
  <2>1. CommandFields \subseteq DOMAIN c /\ c.pc = "query"
    BY DEF NoCommand, CommandFields
  <2>2. Does(o, c)
    BY <1>2 DEF Plans
  <2> QED
    BY <2>1, <2>2
<1> QED
  BY <1>1, <1>2

LEMMA ReplacedAlone ==
    ASSUME CommandsShape, NEW o \in Operators, NEW stored, NEW ids, ReplaceGraph(o, stored, ids)
    PROVE  MovesAlone(o, NoCommand)
<1>1. commands' = [x \in Operators |->
          IF x = o THEN NoCommand
          ELSE IF commands[x].pc = "load"
          THEN [commands[x] EXCEPT !.torn = @ \cup Turned(stored)]
          ELSE commands[x]]
  BY DEF ReplaceGraph
<1>2. ASSUME NEW x \in Operators \ {o}
      PROVE  /\ CommandFields \subseteq DOMAIN commands'[x]
             /\ commands'[x] # commands[x] => commands[x].pc = "load" /\ commands'[x].pc = "load"
  BY <1>1 DEF CommandsShape, CommandFields
<1> QED
  BY <1>1, <1>2, NoCommandFields DEF MovesAlone

LEMMA StartsNothing ==
    ASSUME RunInv, NEW o \in Operators,
           \/ BeginAdd(o) \/ LoadAssets(o) \/ addEnvironmentMigrationAsset(o)
           \/ BeginTarget(o) \/ prepareEnvironmentMigrationTarget(o)
           \/ BeginRestore(o) \/ PlanRestore(o)
    PROVE  RunInv' /\ UNCHANGED ran
<1>1. CASE BeginAdd(o) \/ BeginTarget(o) \/ BeginRestore(o)
  <2>1. PICK c : CommandFields \subseteq DOMAIN c /\ Does(o, c) /\ c.pc = "load"
    BY <1>1, BegunCommand
  <2>2. UNCHANGED <<history, ran, doubtful>> /\ commands[o].pc = "idle"
    BY <1>1 DEF BeginAdd, BeginTarget, BeginRestore, Starts
  <2> QED
    BY <2>1, <2>2, QuietStep DEF Works
<1>2. CASE LoadAssets(o)
  <2> DEFINE c == [commands[o] EXCEPT !.pc = "add", !.assets = assets]
  <2>1. CommandFields \subseteq DOMAIN c /\ c.pc = "add"
    BY DEF RunInv, CommandsShape, CommandFields
  <2>2. Does(o, c) /\ UNCHANGED <<history, ran, doubtful>> /\ commands[o].pc = "load"
    BY <1>2 DEF LoadAssets, Loading
  <2> HIDE DEF c
  <2> QED
    BY <2>1, <2>2, QuietStep DEF Works
<1>3. CASE addEnvironmentMigrationAsset(o)
  <2>1. UNCHANGED <<history, ran, doubtful>> /\ commands[o].pc = "add"
    BY <1>3 DEF addEnvironmentMigrationAsset
  <2>2. NoCommand.pc = "idle"
    BY DEF NoCommand
  <2>3. MovesAlone(o, NoCommand)
    <3>1. CASE Does(o, NoCommand)
      BY <3>1, NoCommandFields, DoesOthers DEF RunInv, MovesAlone
    <3>2. CASE \E stored, ids : ReplaceGraph(o, stored, ids)
      BY <3>2, ReplacedAlone DEF RunInv
    <3> QED
      BY <1>3, <3>1, <3>2 DEF addEnvironmentMigrationAsset
  <2> QED
    BY <2>1, <2>2, <2>3, QuietMove DEF Works
<1>4. CASE prepareEnvironmentMigrationTarget(o) \/ PlanRestore(o)
  <2>1. PICK items, ok : Plans(o, items, ok)
    BY <1>4 DEF prepareEnvironmentMigrationTarget, PlanRestore
  <2>2. UNCHANGED <<history, ran, doubtful>> /\ commands[o].pc = "load"
    BY <1>4, <2>1 DEF prepareEnvironmentMigrationTarget, PlanRestore, Loading, Plans
  <2>3. PICK c : Does(o, c) /\ CommandFields \subseteq DOMAIN c /\ c.pc \in {"idle", "query"}
    BY <2>1, PlannedCommand
  <2> QED
    BY <2>2, <2>3, QuietStep DEF Works
<1> QED
  BY <1>1, <1>2, <1>3, <1>4

LEMMA Stops ==
    ASSUME RunInv, NEW o \in Operators, Kill(o) \/ End(o)
    PROVE  RunInv' /\ UNCHANGED ran
<1>1. /\ Does(o, NoCommand) /\ UNCHANGED <<history, ran>> /\ doubtful \subseteq doubtful'
      /\ \A v \in Versions : Works(o, "insert", v) => v \in doubtful'
  BY DEF Kill, End, Works
<1>2. NoCommand.pc = "idle"
  BY DEF NoCommand
<1> QED
  BY <1>1, <1>2, NoCommandFields, QuietStep

\* A step to the precondition or the content of a version whose history is empty, if the
\* version is not doubtful.
LEMMA StepOn ==
    ASSUME RunInv, NEW o \in Operators, NEW pc \in {"precondition", "content"},
           Does(o, Goes(o, pc)), UNCHANGED <<history, ran, doubtful>>,
           commands[o].pc # "insert",
           \A v \in Versions \ doubtful : Current(o).version = v => history[v] = NoHistory
    PROVE  RunInv'
<1> DEFINE c == Goes(o, pc)
<1>0. CommandFields \subseteq DOMAIN c /\ c.pc = pc /\ c.items = commands[o].items
      /\ c.next = commands[o].next
  BY GoesFields DEF RunInv
<1>1. /\ commands' = [x \in Operators |-> commands'[x]] /\ commands'[o] = c
      /\ \A x \in Operators : CommandFields \subseteq DOMAIN commands'[x]
      /\ \A x \in Operators \ {o} : commands'[x] = commands[x]
  BY <1>0, DoesOthers DEF RunInv
<1> HIDE DEF c
<1>2. \A x \in Operators \ {o} : \A q, v : Works(x, q, v)' <=> Works(x, q, v)
  BY <1>1 DEF Works, Current
<1>3. Current(o)' = Current(o)
  BY <1>0, <1>1 DEF Current
<1>4. HistoryReadStays'
  BY <1>1, <1>2, <1>3 DEF RunInv, HistoryReadStays, About, Works
<1>5. RunsAreRecorded'
  <2> SUFFICES ASSUME NEW v \in Versions \ doubtful, ran[v] > 0, history[v] = NoHistory
               PROVE  \E x \in Operators : Works(x, "insert", v)'
    BY DEF RunsAreRecorded
  <2>1. PICK x \in Operators : Works(x, "insert", v)
    BY DEF RunInv, RunsAreRecorded
  <2>2. x # o
    BY <2>1 DEF Works
  <2> QED
    BY <1>2, <2>1, <2>2
<1>6. CommandsShape'
  BY <1>1 DEF RunInv, CommandsShape
<1> QED
  BY <1>4, <1>5, <1>6 DEF RunInv

\* The item ends, or its row is all that is left to insert, and nothing ran.
LEMMA ItemEnds ==
    ASSUME RunInv, NEW o \in Operators, NEW ok, Does(o, Ended(o, ok)),
           UNCHANGED <<history, ran, doubtful>>, commands[o].pc # "insert"
    PROVE  RunInv'
<1>1. CommandFields \subseteq DOMAIN Ended(o, ok) /\ Ended(o, ok).pc \notin {"precondition", "content"}
  BY EndedFields DEF RunInv
<1>2. \A v \in Versions : Works(o, "insert", v) => v \in doubtful'
  BY DEF Works
<1> QED
  BY <1>1, <1>2, QuietStep

LEMMA Queries ==
    ASSUME RunInv, NEW o \in Operators, QueryHistory(o)
    PROVE  RunInv' /\ UNCHANGED ran
<1>1. commands[o].pc = "query" /\ UNCHANGED <<history, ran, doubtful>>
  BY DEF QueryHistory
<1>2. CASE history[Current(o).version] # NoHistory
  <2>1. PICK ok : ok = (history[Current(o).version].content = Current(o).content)
    OBVIOUS
  <2>2. Does(o, Ended(o, ok))
    BY <1>2, <2>1 DEF QueryHistory
  <2> QED
    BY <1>1, <2>2, ItemEnds
<1>3. CASE history[Current(o).version] = NoHistory /\ commands[o].kind = "baseline"
  <2>1. Does(o, Goes(o, "insert"))
    BY <1>3 DEF QueryHistory
  <2>2. CommandFields \subseteq DOMAIN Goes(o, "insert") /\ Goes(o, "insert").pc = "insert"
    BY GoesFields DEF RunInv
  <2>3. \A v \in Versions : Works(o, "insert", v) => v \in doubtful'
    BY <1>1 DEF Works
  <2> QED
    BY <1>1, <2>1, <2>2, <2>3, QuietStep
<1>4. CASE history[Current(o).version] = NoHistory /\ commands[o].kind # "baseline"
  <2>1. \E pc \in {"precondition", "content"} : Does(o, Goes(o, pc))
    BY <1>4 DEF QueryHistory
  <2> QED
    BY <1>1, <1>4, <2>1, StepOn
<1> QED
  BY <1>1, <1>2, <1>3, <1>4

LEMMA Preconditions ==
    ASSUME RunInv, NEW o \in Operators, CheckPrecondition(o)
    PROVE  RunInv' /\ UNCHANGED ran
<1>1. commands[o].pc = "precondition" /\ UNCHANGED <<history, ran, doubtful>>
  BY DEF CheckPrecondition
<1>2. \A v \in Versions \ doubtful : Current(o).version = v => history[v] = NoHistory
  BY <1>1 DEF RunInv, HistoryReadStays, About, Works
<1>3. Does(o, Goes(o, "content")) \/ Does(o, Ended(o, FALSE))
  BY DEF CheckPrecondition
<1> QED
  BY <1>1, <1>2, <1>3, StepOn, ItemEnds

\* What a run of a content may repeat: only that of a doubtful version.
RunsAgain == \A v \in Versions :
    ran'[v] # ran[v] /\ (ran[v] > 0 \/ history[v] # NoHistory) => v \in doubtful'

LEMMA Runs ==
    ASSUME RunInv, NEW o \in Operators, RunContent(o)
    PROVE  RunInv' /\ RunsAgain
<1>1. CASE Current(o).content \in Broken
  <2>1. commands[o].pc = "content" /\ Does(o, Ended(o, FALSE)) /\ UNCHANGED <<history, ran, doubtful>>
    BY <1>1 DEF RunContent
  <2> QED
    BY <2>1, ItemEnds DEF RunsAgain
<1>2. CASE Current(o).content \notin Broken
  <2> DEFINE c == [commands[o] EXCEPT !.pc = "insert"]
  <2>1. PICK n : n = Current(o).version
    OBVIOUS
  <2>2. /\ commands[o].pc = "content" /\ Does(o, c) /\ UNCHANGED history
        /\ ran' = [ran EXCEPT ![n] = @ + 1] /\ doubtful' = doubtful \cup Overlapped(o)
    BY <1>2, <2>1 DEF RunContent
  <2>3. CommandFields \subseteq DOMAIN c /\ c.pc = "insert" /\ c.items = commands[o].items
        /\ c.next = commands[o].next
    BY DEF RunInv, CommandsShape, CommandFields
  <2>4. /\ commands' = [x \in Operators |-> commands'[x]] /\ commands'[o] = c
        /\ \A x \in Operators : CommandFields \subseteq DOMAIN commands'[x]
        /\ \A x \in Operators \ {o} : commands'[x] = commands[x]
    BY <2>2, <2>3, DoesOthers DEF RunInv
  <2> HIDE DEF c
  <2>5. \A x \in Operators \ {o} : \A q, v : Works(x, q, v)' <=> Works(x, q, v)
    BY <2>4 DEF Works, Current
  <2>6. Current(o)' = Current(o) /\ commands'[o].pc = "insert"
    BY <2>3, <2>4 DEF Current
  <2>7. HistoryReadStays'
    BY <2>2, <2>5, <2>6 DEF RunInv, HistoryReadStays, About, Works
  <2>8. ran' \in [Versions -> Nat] /\ \A v \in Versions : v # n => ran'[v] = ran[v]
    <3>1. ran \in [Versions -> Nat] /\ ran' = [ran EXCEPT ![n] = ran[n] + 1]
      BY <2>2 DEF RunInv, CommandsShape
    <3>2. CASE n \in Versions
      <4>1. ran[n] + 1 \in Nat
        BY <3>1, <3>2
      <4> QED
        BY <3>1, <4>1
    <3>3. CASE n \notin Versions
      BY <3>1, <3>3
    <3> QED
      BY <3>2, <3>3
  <2>9. RunsAreRecorded'
    <3> SUFFICES ASSUME NEW v \in Versions \ doubtful', ran'[v] > 0, history[v] = NoHistory
                 PROVE  \E x \in Operators : Works(x, "insert", v)'
      BY <2>2 DEF RunsAreRecorded
    <3>1. CASE v = n
      BY <2>1, <2>6, <3>1 DEF Works
    <3>2. CASE v # n
      <4>1. PICK x \in Operators : Works(x, "insert", v)
        BY <2>2, <2>8, <3>2 DEF RunInv, RunsAreRecorded
      <4>2. x # o
        BY <2>2, <4>1 DEF Works
      <4> QED
        BY <2>5, <4>1, <4>2
    <3> QED
      BY <3>1, <3>2
  <2>10. CommandsShape'
    BY <2>2, <2>4, <2>8 DEF RunInv, CommandsShape
  <2>11. RunsAgain
    <3> SUFFICES ASSUME NEW v \in Versions, ran'[v] # ran[v],
                        ran[v] > 0 \/ history[v] # NoHistory, v \notin doubtful'
                 PROVE  FALSE
      BY DEF RunsAgain
    <3>1. v = n /\ v \notin doubtful
      BY <2>2, <2>8
    <3>2. About(o, v)
      BY <2>1, <2>2, <3>1 DEF About, Works
    <3>3. history[v] = NoHistory
      BY <3>1, <3>2 DEF RunInv, HistoryReadStays
    <3>4. PICK x \in Operators : Works(x, "insert", v)
      BY <3>1, <3>3 DEF RunInv, RunsAreRecorded
    <3>5. x # o /\ commands[x].pc = "insert" /\ Current(x).version = Current(o).version
      BY <2>1, <2>2, <3>1, <3>4 DEF Works
    <3>6. Overlapped(o) = {Current(o).version}
      BY <3>5 DEF Overlapped
    <3> QED
      BY <2>1, <2>2, <3>1, <3>6
  <2> QED
    BY <2>7, <2>9, <2>10, <2>11 DEF RunInv
<1> QED
  BY <1>1, <1>2

LEMMA RecordedRow ==
    ASSUME CommandsShape, NEW o \in Operators
    PROVE  /\ Recorded(o) = [v \in Versions |-> Recorded(o)[v]]
           /\ \A v \in Versions : v # Current(o).version => Recorded(o)[v] = history[v]
           /\ \A v \in Versions : v = Current(o).version => Recorded(o)[v] # NoHistory
<1>1. PICK row : row = [status |-> IF commands[o].kind = "baseline" THEN "baseline" ELSE "applied",
                        content |-> Current(o).content]
  OBVIOUS
<1>2. row.status # "none"
  BY <1>1
<1>3. row # NoHistory
  BY <1>2 DEF NoHistory
<1>4. Recorded(o) = [history EXCEPT ![Current(o).version] = row]
  BY <1>1 DEF Recorded
<1> QED
  BY <1>3, <1>4 DEF CommandsShape

LEMMA Inserts ==
    ASSUME RunInv, NEW o \in Operators, InsertHistory(o)
    PROVE  RunInv' /\ UNCHANGED ran
<1>1. PICK n : n = Current(o).version
  OBVIOUS
<1>2. /\ commands[o].pc = "insert" /\ UNCHANGED ran
      /\ doubtful' = doubtful \cup Overlapped(o)
      /\ \E ok : Does(o, Ended(o, ok))
  BY DEF InsertHistory
<1>3. PICK ok : Does(o, Ended(o, ok))
  BY <1>2
<1>4. CommandFields \subseteq DOMAIN Ended(o, ok) /\ Ended(o, ok).pc \in {"end", "query"}
  BY EndedFields DEF RunInv
<1>5. /\ commands' = [x \in Operators |-> commands'[x]] /\ commands'[o].pc \in {"end", "query"}
      /\ \A x \in Operators : CommandFields \subseteq DOMAIN commands'[x]
      /\ \A x \in Operators \ {o} : commands'[x] = commands[x]
  BY <1>3, <1>4, DoesOthers DEF RunInv
<1>6. \A x \in Operators \ {o} : \A q, v : Works(x, q, v)' <=> Works(x, q, v)
  BY <1>5 DEF Works, Current
<1>7. /\ history' = [v \in Versions |-> history'[v]]
      /\ \A v \in Versions : v # n => history'[v] = history[v]
      /\ \A v \in Versions : v = n => history'[v] # NoHistory
  <2>0. CommandsShape
    BY DEF RunInv
  <2>1. CASE history[Current(o).version] = NoHistory
    <3>1. history' = Recorded(o)
      BY <2>1 DEF InsertHistory
    <3> QED
      BY <1>1, <2>0, <3>1, RecordedRow
  <2>2. CASE history[Current(o).version] # NoHistory
    <3>1. history' = history
      BY <2>2 DEF InsertHistory
    <3> QED
      BY <1>1, <2>0, <2>2, <3>1 DEF CommandsShape
  <2> QED
    BY <2>1, <2>2
<1>8. HistoryReadStays'
  <2> SUFFICES ASSUME NEW x \in Operators, NEW v \in Versions \ doubtful', About(x, v)'
               PROVE  history'[v] = NoHistory
    BY DEF HistoryReadStays
  <2>1. x # o
    BY <1>5 DEF About, Works
  <2>2. About(x, v) /\ v \notin doubtful
    BY <1>2, <1>6, <2>1 DEF About
  <2>3. history[v] = NoHistory
    BY <2>2 DEF RunInv, HistoryReadStays
  <2>4. ASSUME v = n PROVE FALSE
    <3>1. /\ commands[x].pc \in {"precondition", "content", "insert"}
          /\ Current(x).version = Current(o).version
      BY <1>1, <2>2, <2>4 DEF About, Works
    <3>2. Overlapped(o) = {Current(o).version}
      BY <2>1, <3>1 DEF Overlapped
    <3> QED
      BY <1>1, <1>2, <2>4, <3>2
  <2> QED
    BY <1>7, <2>3, <2>4
<1>9. RunsAreRecorded'
  <2> SUFFICES ASSUME NEW v \in Versions \ doubtful', ran[v] > 0, history'[v] = NoHistory
               PROVE  \E x \in Operators : Works(x, "insert", v)'
    BY <1>2 DEF RunsAreRecorded
  <2>1. v # n /\ history[v] = NoHistory /\ v \notin doubtful
    BY <1>2, <1>7
  <2>2. PICK x \in Operators : Works(x, "insert", v)
    BY <2>1 DEF RunInv, RunsAreRecorded
  <2>3. x # o
    BY <1>1, <2>1, <2>2 DEF Works
  <2> QED
    BY <1>6, <2>2, <2>3
<1>10. CommandsShape'
  BY <1>2, <1>5, <1>7 DEF RunInv, CommandsShape
<1> QED
  BY <1>2, <1>8, <1>9, <1>10 DEF RunInv

LEMMA Loses ==
    ASSUME RunInv, NEW o \in Operators, LoseConnection(o)
    PROVE  RunInv' /\ UNCHANGED ran
<1>1. PICK n : n = Current(o).version
  OBVIOUS
<1>2. commands[o].pc = "insert" /\ UNCHANGED ran /\ doubtful' = doubtful \cup {n}
  BY <1>1 DEF LoseConnection
<1>3. /\ history' = [v \in Versions |-> history'[v]]
      /\ \A v \in Versions : v # n => history'[v] = history[v]
  <2>0. CommandsShape
    BY DEF RunInv
  <2>1. history' = history \/ history' = Recorded(o)
    BY DEF LoseConnection
  <2> QED
    BY <1>1, <2>0, <2>1, RecordedRow DEF CommandsShape
<1>4. \E c : /\ Does(o, c) /\ CommandFields \subseteq DOMAIN c
            /\ \/ c.pc \in {"end", "query"}
               \/ c.items = commands[o].items /\ c.next = commands[o].next
  <2>1. CASE commands[o].attempts < MaxAttempts
    <3>1. PICK pc : pc = (IF commands[o].kind = "baseline" THEN "insert" ELSE "content")
      OBVIOUS
    <3> DEFINE c == [commands[o] EXCEPT !.attempts = @ + 1, !.pc = pc]
    <3>2. Does(o, c)
      BY <2>1, <3>1 DEF LoseConnection
    <3>3. CommandFields \subseteq DOMAIN c /\ c.items = commands[o].items /\ c.next = commands[o].next
      BY DEF RunInv, CommandsShape, CommandFields
    <3> HIDE DEF c
    <3> QED
      BY <3>2, <3>3
  <2>2. CASE ~(commands[o].attempts < MaxAttempts)
    <3>1. Does(o, Ended(o, FALSE))
      BY <2>2 DEF LoseConnection
    <3> QED
      BY <3>1, EndedFields DEF RunInv
  <2> QED
    BY <2>1, <2>2
<1>5. PICK c : /\ Does(o, c) /\ CommandFields \subseteq DOMAIN c
               /\ \/ c.pc \in {"end", "query"}
                  \/ c.items = commands[o].items /\ c.next = commands[o].next
  BY <1>4
<1>6. /\ commands' = [x \in Operators |-> commands'[x]] /\ commands'[o] = c
      /\ \A x \in Operators : CommandFields \subseteq DOMAIN commands'[x]
      /\ \A x \in Operators \ {o} : commands'[x] = commands[x]
  BY <1>5, DoesOthers DEF RunInv
<1>7. \A x \in Operators \ {o} : \A q, v : Works(x, q, v)' <=> Works(x, q, v)
  BY <1>6 DEF Works, Current
<1>8. \A v : About(o, v)' => v = n
  BY <1>1, <1>5, <1>6 DEF About, Works, Current
<1>9. HistoryReadStays'
  <2> SUFFICES ASSUME NEW x \in Operators, NEW v \in Versions \ doubtful', About(x, v)'
               PROVE  history'[v] = NoHistory
    BY DEF HistoryReadStays
  <2>1. x # o /\ v # n /\ v \notin doubtful
    BY <1>2, <1>8
  <2>2. About(x, v)
    BY <1>7, <2>1 DEF About
  <2> QED
    BY <1>3, <2>1, <2>2 DEF RunInv, HistoryReadStays
<1>10. RunsAreRecorded'
  <2> SUFFICES ASSUME NEW v \in Versions \ doubtful', ran[v] > 0, history'[v] = NoHistory
               PROVE  \E x \in Operators : Works(x, "insert", v)'
    BY <1>2 DEF RunsAreRecorded
  <2>1. v # n /\ history[v] = NoHistory /\ v \notin doubtful
    BY <1>2, <1>3
  <2>2. PICK x \in Operators : Works(x, "insert", v)
    BY <2>1 DEF RunInv, RunsAreRecorded
  <2>3. x # o
    BY <1>1, <2>1, <2>2 DEF Works
  <2> QED
    BY <1>7, <2>2, <2>3
<1>11. CommandsShape'
  BY <1>2, <1>3, <1>6 DEF RunInv, CommandsShape
<1> QED
  BY <1>2, <1>9, <1>10, <1>11 DEF RunInv

-----------------------------------------------------------------------------
LEMMA RunInit == MigrationInit => RunInv
<1> SUFFICES ASSUME MigrationInit PROVE RunInv
  OBVIOUS
<1>1. CommandsShape
  BY NoCommandFields DEF MigrationInit, CommandsShape
<1>2. \A o \in Operators : commands[o].pc = "idle"
  BY DEF MigrationInit, NoCommand
<1>3. \A v \in Versions : ran[v] = 0
  BY DEF MigrationInit
<1> QED
  BY <1>1, <1>2, <1>3 DEF RunInv, HistoryReadStays, RunsAreRecorded, About, Works

LEMMA RunStep == RunInv /\ [MigrationNext]_migrationVars => RunInv' /\ RunsAgain
<1> SUFFICES ASSUME RunInv, [MigrationNext]_migrationVars PROVE RunInv' /\ RunsAgain
  OBVIOUS
<1>1. CASE MigrationNext
  <2>1. PICK o \in Operators :
          \/ BeginAdd(o) \/ LoadAssets(o) \/ addEnvironmentMigrationAsset(o)
          \/ BeginTarget(o) \/ prepareEnvironmentMigrationTarget(o)
          \/ BeginRestore(o) \/ PlanRestore(o)
          \/ runEnvironmentMigrationWithHistory(o)
          \/ LoseConnection(o) \/ Kill(o) \/ End(o)
    BY <1>1 DEF MigrationNext
  <2>2. (RunInv' /\ UNCHANGED ran) \/ (RunInv' /\ RunsAgain)
    BY <2>1, StartsNothing, Stops, Queries, Preconditions, Runs, Inserts, Loses
       DEF runEnvironmentMigrationWithHistory
  <2> QED
    BY <2>2 DEF RunsAgain
<1>2. CASE UNCHANGED migrationVars
  <2>1. CommandsShape' /\ UNCHANGED ran
    BY <1>2 DEF migrationVars, RunInv, CommandsShape
  <2>2. HistoryReadStays' /\ RunsAreRecorded'
    BY <1>2 DEF migrationVars, RunInv, HistoryReadStays, RunsAreRecorded, About, Works, Current
  <2> QED
    BY <2>1, <2>2 DEF RunInv, RunsAgain
<1> QED
  BY <1>1, <1>2

\* Whatever is added, applied, baselined, restored, killed or sent again: a content runs a
\* second time only when a script was cut between content and row or ran beside another.
THEOREM ContentsRunOnce == MigrationSpec => NoSecondRun
<1>1. MigrationInit => RunInv
  BY RunInit
<1>2. RunInv /\ [MigrationNext]_migrationVars => RunInv'
  BY RunStep
<1>3. RunInv /\ [MigrationNext]_migrationVars =>
      [\A v \in Versions :
          ran'[v] # ran[v] /\ (ran[v] > 0 \/ history[v] # NoHistory)
              => v \in doubtful']_migrationVars
  BY RunStep DEF RunsAgain
<1> QED
  BY <1>1, <1>2, <1>3, PTL DEF MigrationSpec, NoSecondRun

-----------------------------------------------------------------------------
(* The edge lists the assets of the Store.                                 *)

\* A list and the assets it belongs to, but for some versions.
Lists(ids, stored, apart) ==
    /\ ids \in Seq(Versions)
    /\ stored = [v \in Versions |-> stored[v]]
    /\ \A v \in Versions \ apart : Listed(ids, v) <=> stored[v] # Unregistered

\* The edges that a command has read go with the assets that it will read; with those it has
\* read, when it goes on to add.
HoldsGraph(held) ==
    /\ held.pc = "load" => Lists(held.ids, assets, held.torn)
    /\ held.pc = "add" => Lists(held.ids, held.assets, held.torn)
    /\ held.pc = "add" \/ (held.pc = "load" /\ held.kind = "add") =>
          held.version \in Versions /\ held.content \in Contents

EdgeInv == Lists(assetIds, assets, torn) /\ \A o \in Operators : HoldsGraph(commands[o])

LEMMA ListAfterAdd ==
    ASSUME NEW ids, NEW stored, NEW apart, Lists(ids, stored, apart),
           NEW v \in Versions, NEW c \in Contents
    PROVE  Lists(IF Listed(ids, v) THEN ids ELSE Append(ids, v), [stored EXCEPT ![v] = c], apart \ {v})
<1>1. c # Unregistered
  BY MigrationConstants DEF Unregistered
<1>2. CASE Listed(ids, v)
  BY <1>1, <1>2 DEF Lists
<1>3. CASE ~Listed(ids, v)
  <2> DEFINE longer == Append(ids, v)
  <2>1. /\ longer \in Seq(Versions) /\ DOMAIN longer = 1 .. Len(ids) + 1
        /\ DOMAIN ids = 1 .. Len(ids) /\ Len(ids) \in Nat
        /\ longer[Len(ids) + 1] = v /\ \A i \in 1 .. Len(ids) : longer[i] = ids[i]
    BY DEF Lists
  <2> HIDE DEF longer
  <2>2. ASSUME NEW w \in Versions
        PROVE  Listed(longer, w) <=> Listed(ids, w) \/ w = v
    BY <2>1 DEF Listed
  <2>3. Lists(longer, [stored EXCEPT ![v] = c], apart \ {v})
    BY <1>1, <2>1, <2>2 DEF Lists
  <2> QED
    BY <1>3, <2>3 DEF longer
<1> QED
  BY <1>2, <1>3

\* A step that writes no graph.
LEMMA AddsNothing ==
    ASSUME CommandsShape, EdgeInv, NEW o \in Operators, NEW c, CommandFields \subseteq DOMAIN c, Does(o, c),
           HoldsGraph(c), UNCHANGED <<assets, assetIds, torn>>
    PROVE  EdgeInv'
<1>1. commands'[o] = c /\ \A x \in Operators \ {o} : commands'[x] = commands[x]
  BY DoesOthers
<1>2. \A x \in Operators : HoldsGraph(commands[x])'
  <2> SUFFICES ASSUME NEW x \in Operators PROVE HoldsGraph(commands[x])'
    OBVIOUS
  <2>1. PICK d : d = commands'[x] /\ HoldsGraph(d)
    BY <1>1 DEF EdgeInv
  <2> QED
    BY <2>1 DEF HoldsGraph, Lists, Listed
<1>3. Lists(assetIds, assets, torn)'
  BY DEF EdgeInv, Lists, Listed
<1> QED
  BY <1>2, <1>3 DEF EdgeInv

LEMMA EdgeBegins ==
    ASSUME CommandsShape, EdgeInv, NEW o \in Operators,
           BeginAdd(o) \/ BeginTarget(o) \/ BeginRestore(o)
    PROVE  EdgeInv'
<1>1. PICK c : /\ CommandFields \subseteq DOMAIN c /\ Does(o, c)
               /\ c.pc = "load" /\ c.ids = assetIds /\ c.torn = torn
               /\ c.kind = "add" => c.version \in Versions /\ c.content \in Contents
  BY BegunCommand
<1>2. UNCHANGED <<assets, assetIds, torn>>
  BY DEF BeginAdd, BeginTarget, BeginRestore, Starts
<1>3. HoldsGraph(c)
  BY <1>1 DEF HoldsGraph, EdgeInv
<1> QED
  BY <1>1, <1>2, <1>3, AddsNothing

LEMMA EdgeLoads ==
    ASSUME CommandsShape, EdgeInv, NEW o \in Operators, LoadAssets(o)
    PROVE  EdgeInv'
<1>1. PICK d : d = commands[o] /\ HoldsGraph(d) /\ CommandFields \subseteq DOMAIN d
  BY DEF EdgeInv, CommandsShape
<1> DEFINE c == [d EXCEPT !.pc = "add", !.assets = assets]
<1>2. /\ CommandFields \subseteq DOMAIN c /\ c.pc = "add" /\ c.assets = assets /\ c.ids = d.ids
      /\ c.torn = d.torn /\ c.version = d.version /\ c.content = d.content
  BY <1>1 DEF CommandFields
<1>3. Does(o, c) /\ UNCHANGED <<assets, assetIds, torn>> /\ d.pc = "load" /\ d.kind = "add"
  BY <1>1 DEF LoadAssets, Loading
<1> HIDE DEF c
<1>4. HoldsGraph(c)
  BY <1>1, <1>2, <1>3 DEF HoldsGraph
<1> QED
  BY <1>2, <1>3, <1>4, AddsNothing

\* The edges that another command has read go with the new assets, but for those turned.
LEMMA ListsTurned ==
    ASSUME NEW ids, NEW apart, NEW stored, stored = [v \in Versions |-> stored[v]],
           Lists(ids, assets, apart)
    PROVE  Lists(ids, stored, apart \cup Turned(stored))
BY DEF Lists, Turned

LEMMA EdgeGains ==
    ASSUME CommandsShape, EdgeInv, NEW o \in Operators, addEnvironmentMigrationAsset(o)
    PROVE  EdgeInv'
<1>1. commands[o].pc = "add" /\ NoCommand.pc = "idle" /\ HoldsGraph(NoCommand)
  BY DEF addEnvironmentMigrationAsset, NoCommand, HoldsGraph
<1>2. CASE Does(o, NoCommand) /\ UNCHANGED <<assets, assetIds, torn>>
  BY <1>1, <1>2, NoCommandFields, AddsNothing
<1>3. CASE ~(Does(o, NoCommand) /\ UNCHANGED <<assets, assetIds, torn>>)
  <2> DEFINE stored == [commands[o].assets EXCEPT ![commands[o].version] = commands[o].content]
             ids == IF Listed(commands[o].ids, commands[o].version) THEN commands[o].ids
                    ELSE Append(commands[o].ids, commands[o].version)
  <2>1. ReplaceGraph(o, stored, ids)
    BY <1>3 DEF addEnvironmentMigrationAsset
  <2>2. /\ Lists(commands[o].ids, commands[o].assets, commands[o].torn)
        /\ commands[o].version \in Versions /\ commands[o].content \in Contents
    BY <1>1 DEF EdgeInv, HoldsGraph
  <2>3. Lists(ids, stored, commands[o].torn \ {commands[o].version})
    BY <2>2, ListAfterAdd
  <2> HIDE DEF stored, ids
  <2>4. /\ assets' = stored /\ assetIds' = ids /\ stored = [v \in Versions |-> stored[v]]
        /\ torn' = commands[o].torn \ {commands[o].version}
        /\ commands'[o] = NoCommand
        /\ \A x \in Operators \ {o} :
              commands'[x] = IF commands[x].pc = "load"
                             THEN [commands[x] EXCEPT !.torn = @ \cup Turned(stored)]
                             ELSE commands[x]
    BY <2>1, <2>3 DEF ReplaceGraph, Lists
  <2>5. Lists(assetIds, assets, torn)'
    BY <2>3, <2>4 DEF Lists, Listed
  <2>6. ASSUME NEW x \in Operators PROVE HoldsGraph(commands[x])'
    <3>1. CASE x = o
      BY <2>4, <3>1 DEF HoldsGraph, NoCommand
    <3>2. CASE x # o /\ commands[x].pc # "load"
      <4>1. PICK d : d = commands[x] /\ commands'[x] = d /\ d.pc # "load" /\ HoldsGraph(d)
        BY <2>4, <3>2 DEF EdgeInv
      <4> QED
        BY <4>1 DEF HoldsGraph, Lists, Listed
    <3>3. CASE x # o /\ commands[x].pc = "load"
      <4>1. PICK d : d = commands[x] /\ d.pc = "load" /\ HoldsGraph(d) /\ CommandFields \subseteq DOMAIN d
        BY <3>3 DEF EdgeInv, CommandsShape
      <4>2. PICK e : e = [d EXCEPT !.torn = d.torn \cup Turned(stored)]
        OBVIOUS
      <4>3. /\ commands'[x] = e /\ e.pc = "load" /\ e.ids = d.ids /\ e.torn = d.torn \cup Turned(stored)
            /\ e.kind = d.kind /\ e.version = d.version /\ e.content = d.content
        BY <2>4, <3>3, <4>1, <4>2 DEF CommandFields
      <4>4. Lists(e.ids, stored, e.torn)
        BY <2>4, <4>1, <4>3, ListsTurned DEF HoldsGraph
      <4>5. Lists(e.ids, assets', e.torn)
        BY <2>4, <4>4
      <4> QED
        BY <4>1, <4>3, <4>5 DEF HoldsGraph, Lists, Listed
    <3> QED
      BY <3>1, <3>2, <3>3
  <2> QED
    BY <2>5, <2>6 DEF EdgeInv
<1> QED
  BY <1>2, <1>3

\* Every other step leaves its command at a step that loads no graph and adds nothing.
LEMMA OthersAddNothing ==
    ASSUME CommandsShape, EdgeInv, NEW o \in Operators,
           \/ prepareEnvironmentMigrationTarget(o) \/ PlanRestore(o) \/ runEnvironmentMigrationWithHistory(o)
           \/ LoseConnection(o) \/ Kill(o) \/ End(o)
    PROVE  EdgeInv'
<1>0. \A c : c.pc \notin {"load", "add"} => HoldsGraph(c)
  BY DEF HoldsGraph
<1>1. CASE prepareEnvironmentMigrationTarget(o) \/ PlanRestore(o)
  <2>1. PICK items, ok : Plans(o, items, ok)
    BY <1>1 DEF prepareEnvironmentMigrationTarget, PlanRestore
  <2>2. UNCHANGED <<assets, assetIds, torn>>
    BY <2>1 DEF Plans
  <2>3. PICK c : Does(o, c) /\ CommandFields \subseteq DOMAIN c /\ c.pc \in {"idle", "query"}
    BY <2>1, PlannedCommand
  <2> QED
    BY <1>0, <2>2, <2>3, AddsNothing
<1>3. CASE QueryHistory(o)
  <2>1. PICK ok : ok = (history[Current(o).version].content = Current(o).content)
    OBVIOUS
  <2>2. UNCHANGED <<assets, assetIds, torn>>
    BY <1>3 DEF QueryHistory
  <2>3. Does(o, Ended(o, ok)) \/ \E pc \in {"insert", "precondition", "content"} : Does(o, Goes(o, pc))
    BY <1>3, <2>1 DEF QueryHistory
  <2>4. CASE Does(o, Ended(o, ok))
    <3>1. PICK c : c = Ended(o, ok)
      OBVIOUS
    <3>2. CommandFields \subseteq DOMAIN c /\ c.pc \in {"end", "query"}
      BY <3>1, EndedFields
    <3> QED
      BY <1>0, <2>2, <2>4, <3>1, <3>2, AddsNothing
  <2>5. ASSUME NEW pc \in {"insert", "precondition", "content"}, Does(o, Goes(o, pc))
        PROVE  EdgeInv'
    <3>1. PICK c : c = Goes(o, pc)
      OBVIOUS
    <3>2. CommandFields \subseteq DOMAIN c /\ c.pc = pc
      BY <3>1, GoesFields
    <3> QED
      BY <1>0, <2>2, <2>5, <3>1, <3>2, AddsNothing
  <2> QED
    BY <2>3, <2>4, <2>5
<1>4. CASE CheckPrecondition(o)
  <2>1. UNCHANGED <<assets, assetIds, torn>> /\ (Does(o, Goes(o, "content")) \/ Does(o, Ended(o, FALSE)))
    BY <1>4 DEF CheckPrecondition
  <2> QED
    BY <2>1, EndedFields, GoesFields, <1>0, AddsNothing
<1>5. CASE RunContent(o)
  <2> DEFINE c == [commands[o] EXCEPT !.pc = "insert"]
  <2>1. UNCHANGED <<assets, assetIds, torn>> /\ (Does(o, c) \/ Does(o, Ended(o, FALSE)))
    BY <1>5 DEF RunContent
  <2>2. CommandFields \subseteq DOMAIN c /\ c.pc = "insert"
    BY DEF CommandsShape, CommandFields
  <2> HIDE DEF c
  <2> QED
    BY <2>1, <2>2, EndedFields, <1>0, AddsNothing
<1>6. CASE InsertHistory(o)
  <2>1. UNCHANGED <<assets, assetIds, torn>> /\ \E ok : Does(o, Ended(o, ok))
    BY <1>6 DEF InsertHistory
  <2> QED
    BY <2>1, EndedFields, <1>0, AddsNothing
<1>7. CASE LoseConnection(o)
  <2>1. UNCHANGED <<assets, assetIds, torn>>
    BY <1>7 DEF LoseConnection
  <2>2. CASE commands[o].attempts < MaxAttempts
    <3>1. PICK pc : pc = (IF commands[o].kind = "baseline" THEN "insert" ELSE "content")
      OBVIOUS
    <3> DEFINE c == [commands[o] EXCEPT !.attempts = @ + 1, !.pc = pc]
    <3>2. Does(o, c)
      BY <1>7, <2>2, <3>1 DEF LoseConnection
    <3>3. CommandFields \subseteq DOMAIN c /\ c.pc = pc
      BY DEF CommandsShape, CommandFields
    <3> HIDE DEF c
    <3> QED
      BY <2>1, <3>1, <3>2, <3>3, <1>0, AddsNothing
  <2>3. CASE ~(commands[o].attempts < MaxAttempts)
    <3>1. Does(o, Ended(o, FALSE))
      BY <1>7, <2>3 DEF LoseConnection
    <3> QED
      BY <2>1, <3>1, EndedFields, <1>0, AddsNothing
  <2> QED
    BY <2>2, <2>3
<1>8. CASE Kill(o) \/ End(o)
  <2>1. UNCHANGED <<assets, assetIds, torn>> /\ Does(o, NoCommand) /\ NoCommand.pc = "idle"
    BY <1>8 DEF Kill, End, NoCommand
  <2> QED
    BY <2>1, NoCommandFields, <1>0, AddsNothing
<1> QED
  BY <1>1, <1>3, <1>4, <1>5, <1>6, <1>7, <1>8 DEF runEnvironmentMigrationWithHistory

LEMMA EdgeInit == MigrationInit => EdgeInv
<1> SUFFICES ASSUME MigrationInit PROVE EdgeInv
  OBVIOUS
<1>1. \A o \in Operators : commands[o].pc = "idle"
  BY DEF MigrationInit, NoCommand
<1>2. Lists(assetIds, assets, torn)
  BY DEF MigrationInit, Lists, Listed
<1> QED
  BY <1>1, <1>2 DEF EdgeInv, HoldsGraph

LEMMA EdgeStep == CommandsShape /\ EdgeInv /\ [MigrationNext]_migrationVars => EdgeInv'
<1> SUFFICES ASSUME CommandsShape, EdgeInv, [MigrationNext]_migrationVars PROVE EdgeInv'
  OBVIOUS
<1>1. CASE MigrationNext
  BY <1>1, EdgeBegins, EdgeLoads, EdgeGains, OthersAddNothing DEF MigrationNext
<1>2. CASE UNCHANGED migrationVars
  BY <1>2 DEF migrationVars, EdgeInv, HoldsGraph, Lists, Listed
<1> QED
  BY <1>1, <1>2

\* The edge lists exactly the stored migrations, whichever graphs are written back over each
\* other, except the torn ones: those that were registered or taken off between the two
\* queries of a command that wrote its graph back, or of one whose graph it loaded, and have
\* not been added again since.
THEOREM EdgesListAssets == MigrationSpec => []EdgeListsAssets
<1>1. MigrationInit => RunInv /\ EdgeInv
  BY RunInit, EdgeInit
<1>2. RunInv /\ EdgeInv /\ [MigrationNext]_migrationVars => (RunInv /\ EdgeInv)'
  BY RunStep, EdgeStep DEF RunInv
<1>3. RunInv /\ EdgeInv => EdgeListsAssets
  BY DEF EdgeInv, Lists, EdgeListsAssets, Registered
<1> QED
  BY <1>1, <1>2, <1>3, PTL DEF MigrationSpec

-----------------------------------------------------------------------------
(* What the history says is true, and "apply" goes up.                     *)

Rising(items) ==
    \A i, j \in 1 .. Len(items) : items[i].version < items[j].version => i < j

\* The items before n are recorded as they are in the Store.
RecordedBefore(items, n) ==
    \A i \in 1 .. n : history[items[i].version].content = items[i].content

Working == {"query", "precondition", "content", "insert"}

\* What is true of a command that goes through its items.
Truthful(c) ==
    /\ c.pc \in Working \cup {"end"} =>
          /\ c.items \in Seq(Items)
          /\ c.next \in 1 .. Len(c.items)
          /\ c.kind = "apply" => Rising(c.items)
    /\ c.pc \in Working /\ c.ok => RecordedBefore(c.items, c.next - 1)
    /\ c.pc = "end" /\ c.ok => RecordedBefore(c.items, Len(c.items))
    /\ c.pc = "insert" /\ c.kind # "baseline" => ran[c.items[c.next].version] > 0

AppliedRan == \A v \in Versions : history[v].status = "applied" => ran[v] > 0

HistoryInv == AppliedRan /\ \A o \in Operators : Truthful(commands[o])

\* Rows are never changed, and what ran has run.
Remains ==
    /\ \A v \in Versions : history[v] # NoHistory => history'[v] = history[v]
    /\ \A v \in Versions : ran[v] > 0 => ran'[v] > 0

LEMMA RecordedRemain ==
    ASSUME Remains, NEW items \in Seq(Items), NEW n \in 0 .. Len(items), RecordedBefore(items, n)
    PROVE  RecordedBefore(items, n)'
<1> SUFFICES ASSUME NEW i \in 1 .. n
             PROVE  history'[items[i].version].content = items[i].content
  BY DEF RecordedBefore
<1>1. items[i] \in Items
  OBVIOUS
<1>2. items[i].version \in Versions /\ items[i].content \in Contents
  BY <1>1 DEF Items
<1>3. history[items[i].version].content = items[i].content
  BY DEF RecordedBefore
<1>4. history[items[i].version] # NoHistory
  BY <1>2, <1>3, MigrationConstants DEF NoHistory, Unregistered
<1> QED
  BY <1>2, <1>3, <1>4 DEF Remains

\* A command that does not move on, while the database remains.
LEMMA TruthRemains ==
    ASSUME Remains, NEW c, Truthful(c)
    PROVE  Truthful(c)'
<1>1. c.pc \in Working /\ c.ok => RecordedBefore(c.items, c.next - 1)'
  <2> SUFFICES ASSUME c.pc \in Working, c.ok PROVE RecordedBefore(c.items, c.next - 1)'
    OBVIOUS
  <2>1. c.items \in Seq(Items) /\ c.next \in 1 .. Len(c.items)
    BY DEF Truthful
  <2>2. c.next - 1 \in 0 .. Len(c.items)
    BY <2>1
  <2>3. RecordedBefore(c.items, c.next - 1)
    BY DEF Truthful
  <2> QED
    BY <2>1, <2>2, <2>3, RecordedRemain
<1>2. c.pc = "end" /\ c.ok => RecordedBefore(c.items, Len(c.items))'
  <2> SUFFICES ASSUME c.pc = "end", c.ok PROVE RecordedBefore(c.items, Len(c.items))'
    OBVIOUS
  <2>1. c.items \in Seq(Items) /\ Len(c.items) \in 0 .. Len(c.items)
    BY DEF Truthful
  <2> QED
    BY <2>1, RecordedRemain DEF Truthful
<1>3. c.pc = "insert" /\ c.kind # "baseline" => ran'[c.items[c.next].version] > 0
  <2> SUFFICES ASSUME c.pc = "insert", c.kind # "baseline"
               PROVE  ran'[c.items[c.next].version] > 0
    OBVIOUS
  <2>1. c.items \in Seq(Items) /\ c.next \in 1 .. Len(c.items)
    BY DEF Truthful, Working
  <2>2. c.items[c.next].version \in Versions
    <3>1. c.items[c.next] \in Items
      BY <2>1
    <3> QED
      BY <3>1 DEF Items
  <2> QED
    BY <2>2 DEF Truthful, Remains
<1> QED
  BY <1>1, <1>2, <1>3 DEF Truthful

\* The command that moves on, and the others.
LEMMA OneMoves ==
    ASSUME CommandsShape, HistoryInv, Remains, NEW o \in Operators, NEW c, Does(o, c),
           CommandFields \subseteq DOMAIN c, Truthful(c)', AppliedRan'
    PROVE  HistoryInv'
<1>1. commands'[o] = c /\ \A x \in Operators \ {o} : commands'[x] = commands[x]
  BY DoesOthers
<1>2. \A x \in Operators \ {o} : Truthful(commands[x])'
  <2> SUFFICES ASSUME NEW x \in Operators \ {o} PROVE Truthful(commands[x])'
    OBVIOUS
  <2>1. PICK d : d = commands[x]
    OBVIOUS
  <2>2. Truthful(d)'
    BY <2>1, TruthRemains DEF HistoryInv
  <2>3. commands'[x] = d
    BY <1>1, <2>1
  <2> QED
    BY <2>2, <2>3 DEF Truthful, RecordedBefore
<1>3. Truthful(commands[o])'
  BY <1>1 DEF Truthful, RecordedBefore
<1> QED
  BY <1>2, <1>3 DEF HistoryInv

-----------------------------------------------------------------------------
\* A command that runs no items.
LEMMA NothingToRecord ==
    ASSUME NEW c, c.pc \notin Working \cup {"end"}
    PROVE  Truthful(c)'
BY DEF Truthful, Working

\* Another step with the same item.
LEMMA StepTruthful ==
    ASSUME CommandsShape, NEW o \in Operators, Truthful(commands[o]), commands[o].pc \in Working,
           UNCHANGED history,
           NEW c, c.pc \in Working, c.items = commands[o].items, c.next = commands[o].next,
           c.kind = commands[o].kind, c.ok = commands[o].ok,
           c.pc = "insert" /\ c.kind # "baseline" => ran'[Current(o).version] > 0
    PROVE  Truthful(c)'
<1>1. PICK d : d = commands[o]
  OBVIOUS
<1>2. Truthful(d)
  BY <1>1
<1>3. c.items \in Seq(Items) /\ c.next \in 1 .. Len(c.items) /\ (c.kind = "apply" => Rising(c.items))
  BY <1>1, <1>2 DEF Truthful
<1>4. c.ok => RecordedBefore(c.items, c.next - 1)'
  BY <1>1, <1>2 DEF Truthful, RecordedBefore
<1>5. c.items[c.next].version = Current(o).version
  BY DEF Current
<1> QED
  BY <1>3, <1>4, <1>5 DEF Truthful, Working

LEMMA EndedValues ==
    ASSUME CommandsShape, NEW o \in Operators, NEW ok, NEW e, e = Ended(o, ok)
    PROVE  /\ e.items = commands[o].items /\ e.kind = commands[o].kind
           /\ e.ok = (commands[o].ok /\ ok)
           /\ commands[o].next = Len(commands[o].items) => e.pc = "end" /\ e.next = commands[o].next
           /\ commands[o].next # Len(commands[o].items) => e.pc = "query" /\ e.next = commands[o].next + 1
BY DEF CommandsShape, CommandFields, Ended

\* An item that ends ok is recorded.
LEMMA EndTruthful ==
    ASSUME CommandsShape, NEW o \in Operators, Truthful(commands[o]), commands[o].pc \in Working, Remains,
           NEW ok, ok => history'[Current(o).version].content = Current(o).content,
           NEW e, e = Ended(o, ok)
    PROVE  Truthful(e)'
<1>0. PICK d : d = commands[o]
  OBVIOUS
<1>2. /\ e.items = d.items /\ e.kind = d.kind
      /\ e.ok = (d.ok /\ ok)
      /\ d.next = Len(d.items) => e.pc = "end" /\ e.next = d.next
      /\ d.next # Len(d.items) => e.pc = "query" /\ e.next = d.next + 1
  BY <1>0, EndedValues
<1>3. Truthful(d) /\ d.pc \in Working
  BY <1>0
<1>4. /\ d.items \in Seq(Items) /\ d.next \in 1 .. Len(d.items)
      /\ d.kind = "apply" => Rising(d.items)
  BY <1>3 DEF Truthful
<1>5. e.ok => RecordedBefore(d.items, d.next)'
  <2> SUFFICES ASSUME e.ok, NEW i \in 1 .. d.next
               PROVE  history'[d.items[i].version].content = d.items[i].content
    BY DEF RecordedBefore
  <2>0. d.ok /\ ok
    BY <1>2
  <2>1. CASE i = d.next
    BY <1>0, <2>0, <2>1 DEF Current
  <2>2. CASE i # d.next
    <3>1. RecordedBefore(d.items, d.next - 1)
      BY <1>3, <2>0 DEF Truthful
    <3>2. d.next - 1 \in 0 .. Len(d.items)
      BY <1>4
    <3>3. RecordedBefore(d.items, d.next - 1)'
      BY <1>4, <3>1, <3>2, RecordedRemain
    <3>4. i \in 1 .. d.next - 1
      BY <1>4, <2>2
    <3> QED
      BY <3>3, <3>4 DEF RecordedBefore
  <2> QED
    BY <2>1, <2>2
<1>6. e.items \in Seq(Items) /\ e.next \in 1 .. Len(e.items) /\ (e.kind = "apply" => Rising(e.items))
  BY <1>2, <1>4
<1>7. CASE d.next = Len(d.items)
  BY <1>2, <1>5, <1>6, <1>7 DEF Truthful, Working
<1>8. CASE d.next # Len(d.items)
  <2>1. e.next - 1 = d.next
    BY <1>2, <1>4, <1>8
  <2> QED
    BY <1>2, <1>5, <1>6, <1>8, <2>1 DEF Truthful, Working
<1> QED
  BY <1>7, <1>8

-----------------------------------------------------------------------------
\* The numbers of a finite set, in order.
LEMMA AscendingRises ==
    ASSUME NEW S \in SUBSET Nat, IsFiniteSet(S), NEW up, up = Ascending(S)
    PROVE  /\ up = [i \in 1 .. Len(up) |-> up[i]] /\ DOMAIN up = 1 .. Len(up) /\ Len(up) = Cardinality(S)
           /\ Len(up) \in Nat
           /\ \A i \in 1 .. Len(up) : up[i] \in S
           /\ \A i, j \in 1 .. Len(up) : up[i] < up[j] => i < j
<1> DEFINE Ranked(i) == CHOOSE n \in S : Cardinality({m \in S : m < n}) = i - 1
<1>1. up = [i \in 1 .. Cardinality(S) |-> Ranked(i)]
  BY DEF Ascending
<1> HIDE DEF Ranked
<1>2. /\ Cardinality(S) \in Nat
      /\ \A i \in 1 .. Cardinality(S) : \E v \in S : Cardinality({w \in S : w < v}) = i - 1
      /\ \A v, w \in S : v < w => Cardinality({x \in S : x < v}) < Cardinality({x \in S : x < w})
  BY RanksOfNumbers
<1>3. \A i \in 1 .. Cardinality(S) :
         Ranked(i) \in S /\ Cardinality({w \in S : w < Ranked(i)}) = i - 1
  BY <1>2 DEF Ranked
<1>4. Len(up) = Cardinality(S) /\ DOMAIN up = 1 .. Len(up) /\ up \in Seq(S)
  <2>1. PICK n \in Nat : n = Cardinality(S)
    BY <1>2
  <2>2. up = [i \in 1 .. n |-> Ranked(i)] /\ \A i \in 1 .. n : Ranked(i) \in S
    BY <1>1, <1>3, <2>1
  <2>3. up \in [1 .. n -> S]
    BY <2>2
  <2> QED
    BY <2>1, <2>3
<1>5. ASSUME NEW i \in 1 .. Len(up), NEW j \in 1 .. Len(up), up[i] < up[j]
      PROVE  i < j
  <2>1. up[i] = Ranked(i) /\ up[j] = Ranked(j) /\ Ranked(i) \in S /\ Ranked(j) \in S
    BY <1>1, <1>3, <1>4
  <2>2. i - 1 < j - 1
    BY <1>2, <1>3, <1>4, <1>5, <2>1
  <2> QED
    BY <1>4, <2>2
<1> QED
  BY <1>1, <1>2, <1>3, <1>4, <1>5

LEMMA RegisteredItem ==
    ASSUME MigrationTypeOK, NEW v \in Registered
    PROVE  Item(v) \in Items /\ Item(v).version = v
<1>1. v \in Versions /\ assets[v] \in Contents
  BY DEF Registered, MigrationTypeOK
<1> QED
  BY <1>1 DEF Item, Items

\* The items of "apply" and "baseline" are registered, and in version order.
LEMMA ItemsRise ==
    ASSUME MigrationTypeOK, NEW ids, NEW through,
           NEW items, items = environmentMigrationItems(ids, through)
    PROVE  items \in Seq(Items) /\ Rising(items)
<1> DEFINE S == {v \in Registered :
                    Listed(ids, v) /\ ~environmentMigrationVersionAfter(v, through)}
<1>1. S \in SUBSET Nat /\ S \subseteq Registered /\ IsFiniteSet(S)
  BY MigrationConstants, FS_Subset DEF Registered
<1>2. PICK chosen : chosen = Ascending(S)
  OBVIOUS
<1>3. items = [i \in DOMAIN chosen |-> Item(chosen[i])]
  BY <1>2 DEF environmentMigrationItems
<1> HIDE DEF S
<1>4. /\ DOMAIN chosen = 1 .. Len(chosen) /\ Len(chosen) \in Nat
      /\ \A i \in 1 .. Len(chosen) : chosen[i] \in Registered
      /\ \A i, j \in 1 .. Len(chosen) : chosen[i] < chosen[j] => i < j
  BY <1>1, <1>2, AscendingRises
<1>5. \A i \in 1 .. Len(chosen) : Item(chosen[i]) \in Items /\ Item(chosen[i]).version = chosen[i]
  BY <1>4, RegisteredItem
<1>6. items \in Seq(Items) /\ Len(items) = Len(chosen)
  BY <1>3, <1>4, <1>5
<1> QED
  BY <1>3, <1>4, <1>5, <1>6 DEF Rising

\* The items of a restore are registered.
LEMMA ItemsOfEdge ==
    ASSUME MigrationTypeOK, NEW ids \in Seq(Versions), NEW items, items = EdgeItems(ids)
    PROVE  items \in Seq(Items)
<1> DEFINE S == {i \in DOMAIN ids : ids[i] \in Registered}
<1>1. S \in SUBSET Nat /\ IsFiniteSet(S)
  <2>1. IsFiniteSet(1 .. Len(ids)) /\ DOMAIN ids = 1 .. Len(ids)
    BY FS_Interval
  <2> QED
    BY <2>1, FS_Subset
<1>2. PICK found : found = Ascending(S)
  OBVIOUS
<1>3. items = [i \in DOMAIN found |-> Item(ids[found[i]])]
  BY <1>2 DEF EdgeItems
<1>4. /\ DOMAIN found = 1 .. Len(found) /\ Len(found) \in Nat
      /\ \A i \in 1 .. Len(found) : ids[found[i]] \in Registered
  BY <1>1, <1>2, AscendingRises
<1>5. \A i \in 1 .. Len(found) : Item(ids[found[i]]) \in Items
  BY <1>4, RegisteredItem
<1> QED
  BY <1>3, <1>4, <1>5

-----------------------------------------------------------------------------
\* Type correctness.
Commands ==
    [pc : {"idle", "load", "add", "query", "precondition", "content", "insert", "end"},
     kind : {"none", "add", "apply", "baseline", "restore"}, items : Seq(Items),
     next : Nat \ {0}, ok : BOOLEAN, attempts : 1 .. MaxAttempts,
     version : Versions \cup {0}, content : Contents \cup {Unregistered}, force : BOOLEAN,
     assets : [Versions -> Contents \cup {Unregistered}], ids : Seq(Versions),
     torn : SUBSET Versions]

LEMMA NoCommandType == NoCommand \in Commands
BY MigrationConstants DEF NoCommand, Commands, Items

LEMMA DoesTypes ==
    ASSUME MigrationTypeOK, NEW o \in Operators, NEW c \in Commands, Does(o, c)
    PROVE  commands' \in [Operators -> Commands]
BY DEF MigrationTypeOK, Does, Commands

LEMMA EndedType ==
    ASSUME MigrationTypeOK, NEW o \in Operators, NEW ok \in BOOLEAN
    PROVE  Ended(o, ok) \in Commands
<1>1. PICK d \in Commands : d = commands[o]
  BY DEF MigrationTypeOK, Commands
<1>2. PICK pc, next : /\ pc = (IF d.next = Len(d.items) THEN "end" ELSE "query")
                      /\ next = (IF d.next = Len(d.items) THEN d.next ELSE d.next + 1)
  OBVIOUS
<1>3. Ended(o, ok) = [d EXCEPT !.ok = d.ok /\ ok, !.attempts = 1, !.pc = pc, !.next = next]
  BY <1>1, <1>2 DEF Ended
<1>4. pc \in {"end", "query"} /\ next \in Nat \ {0} /\ (d.ok /\ ok) \in BOOLEAN /\ 1 \in 1 .. MaxAttempts
  BY <1>2, MigrationConstants DEF Commands
<1> QED
  BY <1>3, <1>4 DEF Commands

LEMMA GoesType ==
    ASSUME MigrationTypeOK, NEW o \in Operators, NEW pc \in {"insert", "precondition", "content"}
    PROVE  Goes(o, pc) \in Commands
<1>1. PICK d \in Commands : d = commands[o]
  BY DEF MigrationTypeOK, Commands
<1>2. Goes(o, pc) = [d EXCEPT !.pc = pc, !.attempts = 1]
  BY <1>1 DEF Goes
<1>3. 1 \in 1 .. MaxAttempts
  BY MigrationConstants
<1> QED
  BY <1>2, <1>3 DEF Commands

LEMMA RecordedType ==
    ASSUME MigrationTypeOK, NEW o \in Operators, Current(o) \in Items
    PROVE  Recorded(o) \in [Versions -> [status : {"none", "applied", "baseline"},
                                         content : Contents \cup {Unregistered}]]
BY DEF MigrationTypeOK, Recorded, Items

-----------------------------------------------------------------------------
\* What a step keeps: the types, and that the history is true.
Keeps == MigrationTypeOK' /\ HistoryInv'

Truth == MigrationTypeOK /\ RunInv /\ EdgeInv /\ HistoryInv

LEMMA CurrentItem ==
    ASSUME Truth, NEW o \in Operators, commands[o].pc \in Working
    PROVE  Current(o) \in Items /\ Current(o).version \in Versions /\ Current(o).content \in Contents
<1>1. commands[o].items \in Seq(Items) /\ commands[o].next \in 1 .. Len(commands[o].items)
  BY DEF Truth, HistoryInv, Truthful
<1>2. Current(o) \in Items
  BY <1>1 DEF Current
<1> QED
  BY <1>2 DEF Items

\* A command that moves on while the Store stays as it is.
LEMMA MovesOn ==
    ASSUME Truth, NEW o \in Operators, NEW c \in Commands, Does(o, c), Truthful(c)',
           UNCHANGED <<assets, assetIds, history, ran, torn>>,
           commandsStarted' \in Nat, doubtful' \subseteq Versions
    PROVE  Keeps
<1>1. MigrationTypeOK'
  <2>1. commands' \in [Operators -> Commands]
    BY DoesTypes DEF Truth
  <2> QED
    BY <2>1 DEF Truth, MigrationTypeOK, Commands
<1>2. Remains /\ AppliedRan'
  BY DEF Truth, HistoryInv, Remains, AppliedRan
<1>3. CommandFields \subseteq DOMAIN c
  BY DEF Commands, CommandFields
<1> QED
  BY <1>1, <1>2, <1>3, OneMoves DEF Truth, RunInv, Keeps

LEMMA BeginsKeep ==
    ASSUME Truth, NEW o \in Operators, BeginAdd(o) \/ BeginTarget(o) \/ BeginRestore(o)
    PROVE  Keeps
<1>1. /\ UNCHANGED <<assets, assetIds, history, ran, torn>>
      /\ commandsStarted' \in Nat /\ doubtful' \subseteq Versions
  <2>1. /\ UNCHANGED <<assets, assetIds, history, ran, doubtful, torn>>
        /\ commandsStarted' = commandsStarted + 1
    BY DEF BeginAdd, BeginTarget, BeginRestore, Starts
  <2>2. commandsStarted \in Nat /\ doubtful \subseteq Versions
    BY DEF Truth, MigrationTypeOK
  <2> QED
    BY <2>1, <2>2
<1>2. ASSUME NEW kind \in {"add", "apply", "baseline", "restore"}, NEW v \in Versions \cup {0},
             NEW a \in Contents \cup {Unregistered}, NEW force \in BOOLEAN,
             Starts(o, [NoCommand EXCEPT !.kind = kind, !.version = v, !.content = a, !.force = force])
      PROVE  Keeps
  <2>1. PICK c : c = [NoCommand EXCEPT !.kind = kind, !.version = v, !.content = a, !.force = force,
                                       !.pc = "load", !.ids = assetIds, !.torn = torn]
    OBVIOUS
  <2>2. c \in Commands /\ c.pc = "load"
    BY <2>1, NoCommandType DEF Commands, Truth, MigrationTypeOK
  <2>3. Truthful(c)'
    BY <2>2, NothingToRecord DEF Working
  <2>4. Does(o, c)
    BY <1>2, <2>1 DEF Starts
  <2> QED
    BY <1>1, <2>2, <2>3, <2>4, MovesOn
<1>3. CASE BeginAdd(o)
  BY <1>2, <1>3 DEF BeginAdd
<1> PICK none : none = NoCommand
  OBVIOUS
<1>3a. /\ none = [x \in DOMAIN none |-> none[x]]
       /\ none.version = 0 /\ none.content = Unregistered /\ none.force = FALSE
  BY DEF NoCommand
<1>4. CASE BeginTarget(o)
  <2>1. PICK kind \in {"apply", "baseline"}, through \in Versions :
          Starts(o, [NoCommand EXCEPT !.kind = kind, !.version = through])
    BY <1>4 DEF BeginTarget
  <2>2. [NoCommand EXCEPT !.kind = kind, !.version = through]
          = [NoCommand EXCEPT !.kind = kind, !.version = through, !.content = Unregistered,
                              !.force = FALSE]
    <3>1. [none EXCEPT !.kind = kind, !.version = through]
            = [none EXCEPT !.kind = kind, !.version = through, !.content = none.content,
                           !.force = none.force]
      BY <1>3a
    <3> QED
      BY <1>3a, <3>1
  <2> QED
    BY <1>2, <2>1, <2>2
<1>5. CASE BeginRestore(o)
  <2>1. [NoCommand EXCEPT !.kind = "restore"]
          = [NoCommand EXCEPT !.kind = "restore", !.version = 0, !.content = Unregistered,
                              !.force = FALSE]
    <3>1. [none EXCEPT !.kind = "restore"]
            = [none EXCEPT !.kind = "restore", !.version = none.version, !.content = none.content,
                           !.force = none.force]
      BY <1>3a
    <3> QED
      BY <1>3a, <3>1
  <2> QED
    BY <1>2, <1>5, <2>1 DEF BeginRestore
<1> QED
  BY <1>3, <1>4, <1>5

LEMMA LoadKeeps ==
    ASSUME Truth, NEW o \in Operators, LoadAssets(o)
    PROVE  Keeps
<1>1. PICK c : c = [commands[o] EXCEPT !.pc = "add", !.assets = assets]
  OBVIOUS
<1>2. Does(o, c) /\ UNCHANGED <<assets, assetIds, history, ran, commandsStarted, doubtful, torn>>
  BY <1>1 DEF LoadAssets
<1>3. c \in Commands /\ c.pc = "add"
  <2>1. commands[o] \in Commands /\ assets \in [Versions -> Contents \cup {Unregistered}]
    BY DEF Truth, MigrationTypeOK, Commands
  <2> QED
    BY <1>1, <2>1 DEF Commands
<1>4. Truthful(c)'
  BY <1>3, NothingToRecord DEF Working
<1>5. commandsStarted' \in Nat /\ doubtful' \subseteq Versions
  BY <1>2 DEF Truth, MigrationTypeOK
<1> QED
  BY <1>2, <1>3, <1>4, <1>5, MovesOn

LEMMA PlannedKeeps ==
    ASSUME Truth, NEW o \in Operators, prepareEnvironmentMigrationTarget(o) \/ PlanRestore(o)
    PROVE  Keeps
<1>1. PICK items \in Seq(Items), ok \in BOOLEAN :
        Plans(o, items, ok) /\ (commands[o].kind = "apply" => Rising(items))
  <2>1. commands[o].ids \in Seq(Versions)
    BY DEF Truth, MigrationTypeOK
  <2>2. CASE prepareEnvironmentMigrationTarget(o)
    BY <2>2, ItemsRise DEF prepareEnvironmentMigrationTarget, Truth
  <2>3. CASE PlanRestore(o)
    <3>1. PICK ok \in BOOLEAN :
            ok = (\A i \in DOMAIN commands[o].ids : commands[o].ids[i] \in Registered)
      OBVIOUS
    <3> QED
      BY <2>1, <2>3, <3>1, ItemsOfEdge DEF PlanRestore, Loading, Truth
  <2> QED
    BY <2>2, <2>3
<1>2. /\ UNCHANGED <<assets, assetIds, history, ran, commandsStarted, doubtful, torn>>
      /\ commandsStarted' \in Nat /\ doubtful' \subseteq Versions
  BY <1>1 DEF Plans, Truth, MigrationTypeOK
<1>3. CASE items = << >>
  <2>1. PICK c \in Commands : c = NoCommand
    BY NoCommandType
  <2>2. Truthful(c)'
    BY <2>1, NothingToRecord DEF NoCommand, Working
  <2> QED
    BY <1>1, <1>2, <1>3, <2>1, <2>2, MovesOn DEF Plans
<1>4. CASE items # << >>
  <2>1. PICK kind : kind = commands[o].kind /\ kind \in {"none", "add", "apply", "baseline", "restore"}
    BY DEF Truth, MigrationTypeOK
  <2>2. PICK c : c = [NoCommand EXCEPT !.pc = "query", !.kind = kind, !.items = items, !.ok = ok]
    OBVIOUS
  <2>3. c \in Commands /\ c.pc = "query" /\ c.items = items /\ c.next = 1 /\ c.kind = kind
    BY <2>1, <2>2, NoCommandType DEF Commands, NoCommand
  <2>4. 1 \in 1 .. Len(items) /\ 1 .. 1 - 1 = {}
    BY <1>4
  <2>5. Truthful(c)'
    BY <1>1, <2>1, <2>3, <2>4 DEF Truthful, RecordedBefore, Working
  <2>6. Does(o, c)
    BY <1>1, <1>4, <2>1, <2>2 DEF Plans
  <2> QED
    BY <1>2, <2>3, <2>5, <2>6, MovesOn
<1> QED
  BY <1>3, <1>4

LEMMA AddKeeps ==
    ASSUME Truth, NEW o \in Operators, addEnvironmentMigrationAsset(o)
    PROVE  Keeps
<1>1. UNCHANGED <<history, ran, commandsStarted, doubtful>> /\ commands[o].pc = "add"
  BY DEF addEnvironmentMigrationAsset
<1>2. PICK c \in Commands : c = NoCommand
  BY NoCommandType
<1>3. Truthful(c)'
  BY <1>2, NothingToRecord DEF NoCommand, Working
<1>4. CASE Does(o, NoCommand) /\ UNCHANGED <<assets, assetIds, torn>>
  <2>1. commandsStarted' \in Nat /\ doubtful' \subseteq Versions
    BY <1>1 DEF Truth, MigrationTypeOK
  <2> QED
    BY <1>1, <1>2, <1>3, <1>4, <2>1, MovesOn
<1>5. CASE ~(Does(o, NoCommand) /\ UNCHANGED <<assets, assetIds, torn>>)
  <2>1. PICK held \in Commands : held = commands[o]
    BY DEF Truth, MigrationTypeOK, Commands
  <2>2. /\ held.assets \in [Versions -> Contents \cup {Unregistered}] /\ held.ids \in Seq(Versions)
        /\ held.version \in Versions /\ held.content \in Contents /\ held.torn \subseteq Versions
    BY <1>1, <2>1 DEF Truth, EdgeInv, HoldsGraph, Commands
  <2>3. PICK stored, ids :
          /\ ReplaceGraph(o, stored, ids)
          /\ stored = [held.assets EXCEPT ![held.version] = held.content]
          /\ ids \in {held.ids, Append(held.ids, held.version)}
    BY <1>5, <2>1 DEF addEnvironmentMigrationAsset
  <2>4. /\ stored \in [Versions -> Contents \cup {Unregistered}]
        /\ ids \in Seq(Versions)
    BY <2>2, <2>3
  <2>5. /\ assets' = stored /\ assetIds' = ids /\ torn' = held.torn \ {held.version}
        /\ commands' = [x \in Operators |->
              IF x = o THEN NoCommand
              ELSE IF commands[x].pc = "load"
              THEN [commands[x] EXCEPT !.torn = @ \cup Turned(stored)]
              ELSE commands[x]]
    BY <2>1, <2>3 DEF ReplaceGraph
  <2>6. ASSUME NEW x \in Operators PROVE commands'[x] \in Commands /\ Truthful(commands[x])'
    <3>1. CASE x = o
      <4>1. commands'[x] = c
        BY <1>2, <2>5, <3>1
      <4> QED
        BY <1>2, <4>1, NothingToRecord DEF NoCommand, Working, Truthful
    <3>2. CASE x # o /\ commands[x].pc # "load"
      <4>1. PICK d \in Commands : d = commands[x] /\ commands'[x] = d /\ Truthful(d)
        BY <2>5, <3>2 DEF Truth, MigrationTypeOK, Commands, HistoryInv
      <4>2. Remains
        BY <1>1 DEF Remains
      <4>3. Truthful(d)'
        BY <4>1, <4>2, TruthRemains
      <4> QED
        BY <4>1, <4>3 DEF Truthful, RecordedBefore
    <3>3. CASE x # o /\ commands[x].pc = "load"
      <4>1. PICK d \in Commands : d = commands[x] /\ d.pc = "load"
        BY <3>3 DEF Truth, MigrationTypeOK, Commands
      <4>2. PICK e : e = [d EXCEPT !.torn = d.torn \cup Turned(stored)]
        OBVIOUS
      <4>3. d.torn \cup Turned(stored) \subseteq Versions
        BY DEF Turned, Commands
      <4>4. e \in Commands /\ e.pc = "load"
        BY <4>1, <4>2, <4>3 DEF Commands
      <4>5. commands'[x] = e
        BY <2>5, <3>3, <4>1, <4>2
      <4>6. commands'[x].pc \notin Working \cup {"end"}
        BY <4>4, <4>5 DEF Working
      <4> QED
        BY <4>4, <4>5, <4>6 DEF Truthful, Working
    <3> QED
      BY <3>1, <3>2, <3>3
  <2>7. commands' \in [Operators -> Commands]
    BY <2>5, <2>6
  <2>8. MigrationTypeOK'
    BY <1>1, <2>2, <2>4, <2>5, <2>7 DEF Truth, MigrationTypeOK, Commands
  <2>9. AppliedRan'
    BY <1>1 DEF Truth, HistoryInv, AppliedRan
  <2> QED
    BY <2>6, <2>8, <2>9 DEF Keeps, HistoryInv
<1> QED
  BY <1>4, <1>5

LEMMA StopKeeps ==
    ASSUME Truth, NEW o \in Operators, Kill(o) \/ End(o)
    PROVE  Keeps
<1>1. Does(o, NoCommand) /\ UNCHANGED <<assets, assetIds, history, ran, commandsStarted, torn>>
  BY DEF Kill, End
<1>2. PICK c \in Commands : c = NoCommand
  BY NoCommandType
<1>3. Truthful(c)'
  BY <1>2, NothingToRecord DEF NoCommand, Working
<1>4. doubtful' \subseteq Versions
  <2>1. doubtful \subseteq Versions
    BY DEF Truth, MigrationTypeOK
  <2>2. commands[o].pc = "insert" => Current(o).version \in Versions
    BY CurrentItem DEF Working
  <2> QED
    BY <2>1, <2>2 DEF Kill, End
<1>5. commandsStarted' \in Nat
  BY <1>1 DEF Truth, MigrationTypeOK
<1> QED
  BY <1>1, <1>2, <1>3, <1>4, <1>5, MovesOn

LEMMA QueryKeeps ==
    ASSUME Truth, NEW o \in Operators, QueryHistory(o)
    PROVE  Keeps
<1>1. /\ commands[o].pc = "query"
      /\ UNCHANGED <<assets, assetIds, history, ran, commandsStarted, doubtful, torn>>
  BY DEF QueryHistory
<1>2. PICK d \in Commands : d = commands[o] /\ Truthful(d) /\ Truthful(commands[o])
  BY DEF Truth, MigrationTypeOK, HistoryInv, Commands
<1>3. /\ Remains /\ CommandsShape /\ commands[o].pc \in Working
      /\ commandsStarted' \in Nat /\ doubtful' \subseteq Versions
  BY <1>1 DEF Remains, Truth, RunInv, Working, MigrationTypeOK
<1>4. CASE history[Current(o).version] # NoHistory
  <2>1. PICK ok \in BOOLEAN : ok = (history[Current(o).version].content = Current(o).content)
    OBVIOUS
  <2>2. PICK c : c = Ended(o, ok)
    OBVIOUS
  <2>3. Does(o, c)
    BY <1>4, <2>1, <2>2 DEF QueryHistory
  <2>4. c \in Commands
    BY <2>2, EndedType DEF Truth
  <2>5. ok => history'[Current(o).version].content = Current(o).content
    BY <1>1, <2>1
  <2>6. Truthful(c)'
    BY <1>2, <1>3, <2>2, <2>5, EndTruthful
  <2> QED
    BY <1>1, <1>3, <2>3, <2>4, <2>6, MovesOn
<1>5. CASE history[Current(o).version] = NoHistory
  <2>1. PICK pc \in {"insert", "precondition", "content"} :
          Does(o, Goes(o, pc)) /\ (pc = "insert" => commands[o].kind = "baseline")
    BY <1>5 DEF QueryHistory
  <2>2. PICK c \in Commands : c = Goes(o, pc)
    BY GoesType DEF Truth
  <2>3. /\ c.items = commands[o].items /\ c.next = commands[o].next /\ c.pc = pc
        /\ c.kind = commands[o].kind /\ c.ok = commands[o].ok
    BY <1>3, <2>2 DEF Goes, CommandsShape, CommandFields
  <2>4. Truthful(c)'
    BY <1>1, <1>2, <1>3, <2>1, <2>3, StepTruthful DEF Working
  <2> QED
    BY <1>1, <1>3, <2>1, <2>2, <2>4, MovesOn
<1> QED
  BY <1>4, <1>5

LEMMA PreconditionKeeps ==
    ASSUME Truth, NEW o \in Operators, CheckPrecondition(o)
    PROVE  Keeps
<1>1. /\ commands[o].pc = "precondition"
      /\ UNCHANGED <<assets, assetIds, history, ran, commandsStarted, doubtful, torn>>
  BY DEF CheckPrecondition
<1>2. Truthful(commands[o]) /\ commands[o] \in Commands
  BY DEF Truth, MigrationTypeOK, HistoryInv, Commands
<1>3. /\ Remains /\ CommandsShape /\ commands[o].pc \in Working
      /\ commandsStarted' \in Nat /\ doubtful' \subseteq Versions
  BY <1>1 DEF Remains, Truth, RunInv, Working, MigrationTypeOK
<1>4. CASE Does(o, Goes(o, "content"))
  <2>2. PICK c \in Commands : c = Goes(o, "content")
    BY GoesType DEF Truth
  <2>3. /\ c.items = commands[o].items /\ c.next = commands[o].next /\ c.pc = "content"
        /\ c.kind = commands[o].kind /\ c.ok = commands[o].ok
    BY <1>3, <2>2 DEF Goes, CommandsShape, CommandFields
  <2>4. Truthful(c)'
    BY <1>1, <1>2, <1>3, <2>3, StepTruthful DEF Working
  <2> QED
    BY <1>1, <1>3, <1>4, <2>2, <2>4, MovesOn
<1>5. CASE Does(o, Ended(o, FALSE))
  <2>1. PICK c \in Commands : c = Ended(o, FALSE)
    BY EndedType DEF Truth
  <2>2. Truthful(c)'
    BY <1>2, <1>3, <2>1, EndTruthful
  <2> QED
    BY <1>1, <1>3, <1>5, <2>1, <2>2, MovesOn
<1> QED
  BY <1>4, <1>5 DEF CheckPrecondition

LEMMA RunKeeps ==
    ASSUME Truth, NEW o \in Operators, RunContent(o)
    PROVE  Keeps
<1>1. /\ commands[o].pc = "content" /\ commands[o].pc \in Working
      /\ UNCHANGED <<assets, assetIds, history, commandsStarted, torn>>
  BY DEF RunContent, Working
<1>2. Truthful(commands[o]) /\ commands[o] \in Commands /\ CommandsShape
  BY DEF Truth, MigrationTypeOK, HistoryInv, Commands, RunInv
<1>3. CASE Current(o).content \in Broken
  <2>1. PICK c \in Commands : c = Ended(o, FALSE)
    BY EndedType DEF Truth
  <2>2. Does(o, c) /\ UNCHANGED <<ran, doubtful>>
    BY <1>3, <2>1 DEF RunContent
  <2>3. Remains /\ commandsStarted' \in Nat /\ doubtful' \subseteq Versions
    BY <1>1, <2>2 DEF Remains, Truth, MigrationTypeOK
  <2>4. Truthful(c)'
    BY <1>1, <1>2, <2>1, <2>3, EndTruthful
  <2> QED
    BY <1>1, <2>1, <2>2, <2>3, <2>4, MovesOn
<1>4. CASE Current(o).content \notin Broken
  <2>1. PICK c \in Commands : c = [commands[o] EXCEPT !.pc = "insert"]
    BY <1>2 DEF Commands
  <2>2. PICK n : n = Current(o).version
    OBVIOUS
  <2>3. /\ Does(o, c) /\ ran' = [ran EXCEPT ![n] = @ + 1]
        /\ doubtful' = doubtful \cup Overlapped(o)
    BY <1>4, <2>1, <2>2 DEF RunContent
  <2>4. n \in Versions
    BY <1>1, <2>2, CurrentItem
  <2>5. ran \in [Versions -> Nat] /\ ran[n] \in Nat
    BY <2>4 DEF Truth, MigrationTypeOK
  <2>6. ran' \in [Versions -> Nat] /\ ran'[n] > 0 /\ \A v \in Versions : ran[v] > 0 => ran'[v] > 0
    BY <2>3, <2>4, <2>5
  <2>7. doubtful' \subseteq Versions
    BY <2>2, <2>3, <2>4 DEF Overlapped, Truth, MigrationTypeOK
  <2>8. Remains /\ AppliedRan'
    BY <1>1, <2>6 DEF Remains, AppliedRan, Truth, HistoryInv
  <2>9. /\ c.items = commands[o].items /\ c.next = commands[o].next /\ c.pc = "insert"
        /\ c.kind = commands[o].kind /\ c.ok = commands[o].ok
    BY <1>2, <2>1 DEF CommandsShape, CommandFields
  <2>10. Truthful(c)'
    BY <1>1, <1>2, <2>2, <2>6, <2>9, StepTruthful DEF Working
  <2>11. commands' \in [Operators -> Commands]
    BY <2>1, <2>3, DoesTypes DEF Truth
  <2>12. MigrationTypeOK'
    BY <1>1, <2>6, <2>7, <2>11 DEF Truth, MigrationTypeOK, Commands
  <2>13. CommandFields \subseteq DOMAIN c
    BY <2>1 DEF Commands, CommandFields
  <2> QED
    BY <1>2, <2>3, <2>8, <2>10, <2>12, <2>13, OneMoves DEF Truth, Keeps
<1> QED
  BY <1>3, <1>4

\* The row that a step inserts, if it inserts one.
LEMMA RowRemains ==
    ASSUME Truth, NEW o \in Operators, commands[o].pc = "insert", UNCHANGED ran,
           \/ history' = history
           \/ history' = Recorded(o) /\ history[Current(o).version] = NoHistory
    PROVE  /\ Remains /\ AppliedRan'
           /\ history' \in [Versions -> [status : {"none", "applied", "baseline"},
                                        content : Contents \cup {Unregistered}]]
<1>1. CASE history' = history
  BY <1>1 DEF Remains, AppliedRan, Truth, MigrationTypeOK, HistoryInv
<1>2. CASE history' = Recorded(o) /\ history[Current(o).version] = NoHistory
  <2>1. Current(o) \in Items /\ Current(o).version \in Versions
    BY CurrentItem DEF Working
  <2>2. history' \in [Versions -> [status : {"none", "applied", "baseline"},
                                   content : Contents \cup {Unregistered}]]
    BY <1>2, <2>1, RecordedType DEF Truth
  <2>3. PICK n, row :
          /\ n \in Versions /\ n = Current(o).version
          /\ history' = [history EXCEPT ![n] = row]
          /\ row = [status |-> IF commands[o].kind = "baseline" THEN "baseline" ELSE "applied",
                    content |-> Current(o).content]
    BY <1>2, <2>1 DEF Recorded
  <2>4. history'[n] = row /\ \A v \in Versions : v # n => history'[v] = history[v]
    BY <2>3 DEF Truth, MigrationTypeOK
  <2>5. Remains
    BY <1>2, <2>3, <2>4 DEF Remains
  <2>6. row.status = "applied" => commands[o].kind # "baseline"
    BY <2>3
  <2>7. row.status = "applied" => ran[n] > 0
    BY <2>3, <2>6 DEF Truth, HistoryInv, Truthful, Current
  <2>8. AppliedRan'
    BY <2>4, <2>7 DEF AppliedRan, Truth, HistoryInv
  <2> QED
    BY <2>2, <2>5, <2>8
<1> QED
  BY <1>1, <1>2

LEMMA InsertKeeps ==
    ASSUME Truth, NEW o \in Operators, InsertHistory(o)
    PROVE  Keeps
<1>1. /\ commands[o].pc = "insert" /\ commands[o].pc \in Working
      /\ UNCHANGED <<assets, assetIds, ran, commandsStarted, torn>>
      /\ doubtful' = doubtful \cup Overlapped(o)
  BY DEF InsertHistory, Working
<1>2. Truthful(commands[o]) /\ commands[o] \in Commands /\ CommandsShape
  BY DEF Truth, MigrationTypeOK, HistoryInv, Commands, RunInv
<1>3. PICK ok \in BOOLEAN : ok = (history[Current(o).version] = NoHistory)
  OBVIOUS
<1>4. /\ Does(o, Ended(o, ok))
      /\ ok => history' = Recorded(o) /\ history[Current(o).version] = NoHistory
      /\ ~ok => history' = history
  BY <1>3 DEF InsertHistory
<1>5. PICK c \in Commands : c = Ended(o, ok)
  BY EndedType DEF Truth
<1>6. /\ Remains /\ AppliedRan'
      /\ history' \in [Versions -> [status : {"none", "applied", "baseline"},
                                   content : Contents \cup {Unregistered}]]
  BY <1>1, <1>4, RowRemains
<1>7. Current(o).version \in Versions
  BY <1>1, CurrentItem
<1>8. ok => history'[Current(o).version].content = Current(o).content
  <2>1. PICK n, row :
          /\ n \in Versions /\ n = Current(o).version
          /\ Recorded(o) = [history EXCEPT ![n] = row]
          /\ row = [status |-> IF commands[o].kind = "baseline" THEN "baseline" ELSE "applied",
                    content |-> Current(o).content]
    BY <1>7 DEF Recorded
  <2>2. Recorded(o)[n] = row /\ row.content = Current(o).content
    BY <2>1 DEF Truth, MigrationTypeOK
  <2> QED
    BY <1>4, <2>1, <2>2
<1>9. Truthful(c)'
  BY <1>1, <1>2, <1>5, <1>6, <1>8, EndTruthful
<1>10. commands' \in [Operators -> Commands]
  BY <1>4, <1>5, DoesTypes DEF Truth
<1>11. doubtful' \subseteq Versions
  BY <1>1, <1>7 DEF Overlapped, Truth, MigrationTypeOK
<1>12. MigrationTypeOK'
  BY <1>1, <1>6, <1>10, <1>11 DEF Truth, MigrationTypeOK, Commands
<1>13. CommandFields \subseteq DOMAIN c
  BY <1>5 DEF Commands, CommandFields
<1> QED
  BY <1>2, <1>4, <1>5, <1>6, <1>9, <1>12, <1>13, OneMoves DEF Truth, Keeps

LEMMA LoseKeeps ==
    ASSUME Truth, NEW o \in Operators, LoseConnection(o)
    PROVE  Keeps
<1>1. /\ commands[o].pc = "insert" /\ commands[o].pc \in Working
      /\ UNCHANGED <<assets, assetIds, ran, commandsStarted, torn>>
      /\ doubtful' = doubtful \cup {Current(o).version}
      /\ \/ history' = history
         \/ history' = Recorded(o) /\ history[Current(o).version] = NoHistory
  BY DEF LoseConnection, Working
<1>2. Truthful(commands[o]) /\ commands[o] \in Commands /\ CommandsShape
  BY DEF Truth, MigrationTypeOK, HistoryInv, Commands, RunInv
<1>3. /\ Remains /\ AppliedRan'
      /\ history' \in [Versions -> [status : {"none", "applied", "baseline"},
                                   content : Contents \cup {Unregistered}]]
  BY <1>1, RowRemains
<1>4. Current(o).version \in Versions
  BY <1>1, CurrentItem
<1>5. \E c \in Commands : Does(o, c) /\ Truthful(c)'
  <2>1. CASE commands[o].attempts < MaxAttempts
    <3>1. PICK pc : pc = (IF commands[o].kind = "baseline" THEN "insert" ELSE "content")
      OBVIOUS
    <3>2. PICK d \in Commands : d = commands[o]
      BY <1>2
    <3>3. PICK c : c = [d EXCEPT !.attempts = d.attempts + 1, !.pc = pc]
      OBVIOUS
    <3>4. Does(o, c)
      BY <2>1, <3>1, <3>2, <3>3 DEF LoseConnection
    <3>5. d.attempts + 1 \in 1 .. MaxAttempts /\ pc \in {"insert", "content"}
      BY <2>1, <3>1, <3>2, MigrationConstants DEF Commands
    <3>6. c \in Commands
      BY <3>3, <3>5 DEF Commands
    <3>7. /\ c.items = d.items /\ c.next = d.next /\ c.pc = pc
          /\ c.kind = d.kind /\ c.ok = d.ok
      BY <3>3 DEF Commands
    <3>8. Truthful(d) /\ d.pc = "insert"
      BY <1>1, <1>2, <3>2
    <3>9. d.items \in Seq(Items) /\ d.next \in 1 .. Len(d.items) /\ (d.kind = "apply" => Rising(d.items))
      BY <3>8 DEF Truthful, Working
    <3>10. d.ok => RecordedBefore(d.items, d.next - 1)'
      <4> SUFFICES ASSUME d.ok PROVE RecordedBefore(d.items, d.next - 1)'
        OBVIOUS
      <4>1. RecordedBefore(d.items, d.next - 1) /\ d.next - 1 \in 0 .. Len(d.items)
        BY <3>8, <3>9 DEF Truthful, Working
      <4> QED
        BY <1>3, <3>9, <4>1, RecordedRemain
    <3>11. c.pc = "insert" => c.kind = "baseline"
      BY <3>1, <3>2, <3>7
    <3>12. Truthful(c)'
      BY <3>5, <3>7, <3>9, <3>10, <3>11 DEF Truthful, Working
    <3> QED
      BY <3>4, <3>6, <3>12
  <2>2. CASE ~(commands[o].attempts < MaxAttempts)
    <3>1. PICK c \in Commands : c = Ended(o, FALSE)
      BY EndedType DEF Truth
    <3>2. Truthful(c)'
      BY <1>1, <1>2, <1>3, <3>1, EndTruthful
    <3>3. Does(o, c)
      BY <2>2, <3>1 DEF LoseConnection
    <3> QED
      BY <3>1, <3>2, <3>3
  <2> QED
    BY <2>1, <2>2
<1>6. PICK c \in Commands : Does(o, c) /\ Truthful(c)'
  BY <1>5
<1>7. commands' \in [Operators -> Commands]
  BY <1>6, DoesTypes DEF Truth
<1>8. doubtful' \subseteq Versions
  BY <1>1, <1>4 DEF Truth, MigrationTypeOK
<1>9. MigrationTypeOK'
  BY <1>1, <1>3, <1>7, <1>8 DEF Truth, MigrationTypeOK, Commands
<1>10. CommandFields \subseteq DOMAIN c
  BY <1>6 DEF Commands, CommandFields
<1> QED
  BY <1>2, <1>3, <1>6, <1>9, <1>10, OneMoves DEF Truth, Keeps

-----------------------------------------------------------------------------
LEMMA TruthInit == MigrationInit => Truth
<1> SUFFICES ASSUME MigrationInit PROVE Truth
  OBVIOUS
<1>1. RunInv /\ EdgeInv
  BY RunInit, EdgeInit
<1>2. MigrationTypeOK
  <2>1. commands \in [Operators -> Commands]
    BY NoCommandType DEF MigrationInit
  <2>2. NoHistory \in [status : {"none", "applied", "baseline"}, content : Contents \cup {Unregistered}]
    BY DEF NoHistory
  <2> QED
    BY <2>1, <2>2 DEF MigrationInit, MigrationTypeOK, Commands
<1>3. HistoryInv
  <2>1. \A o \in Operators : commands[o].pc = "idle"
    BY DEF MigrationInit, NoCommand
  <2>2. AppliedRan
    BY DEF MigrationInit, AppliedRan, NoHistory
  <2> QED
    BY <2>1, <2>2 DEF HistoryInv, Truthful, Working
<1> QED
  BY <1>1, <1>2, <1>3 DEF Truth

LEMMA TruthStep == Truth /\ [MigrationNext]_migrationVars => Truth'
<1> SUFFICES ASSUME Truth, [MigrationNext]_migrationVars PROVE Truth'
  OBVIOUS
<1>1. RunInv' /\ EdgeInv'
  BY RunStep, EdgeStep DEF Truth, RunInv
<1>2. Keeps
  <2>1. CASE MigrationNext
    BY <2>1, BeginsKeep, LoadKeeps, PlannedKeeps, AddKeeps, StopKeeps, QueryKeeps, PreconditionKeeps, RunKeeps, InsertKeeps,
       LoseKeeps DEF MigrationNext, runEnvironmentMigrationWithHistory
  <2>2. CASE UNCHANGED migrationVars
    <3>1. MigrationTypeOK'
      BY <2>2 DEF migrationVars, Truth, MigrationTypeOK
    <3>2. HistoryInv'
      BY <2>2 DEF migrationVars, Truth, HistoryInv, AppliedRan, Truthful, RecordedBefore
    <3> QED
      BY <3>1, <3>2 DEF Keeps
  <2> QED
    BY <2>1, <2>2
<1> QED
  BY <1>1, <1>2 DEF Truth, Keeps

\* What the history says has happened: a version recorded as applied ran, and a run that
\* reports ok leaves every one of its items recorded with the checksum it read, whatever
\* other processes, lost connections and kills came in between.
THEOREM HistoriesAreTrue == MigrationSpec => []HistoryIsTrue
<1>1. MigrationInit => Truth
  BY TruthInit
<1>2. Truth /\ [MigrationNext]_migrationVars => Truth'
  BY TruthStep
<1>3. Truth => HistoryIsTrue
  <2> SUFFICES ASSUME Truth PROVE HistoryIsTrue
    OBVIOUS
  <2>1. ASSUME NEW o \in Operators, commands[o].pc = "end", commands[o].ok, NEW i \in DOMAIN commands[o].items
        PROVE  history[commands[o].items[i].version].content = commands[o].items[i].content
    <3>1. commands[o].items \in Seq(Items) /\ RecordedBefore(commands[o].items, Len(commands[o].items))
      BY <2>1 DEF Truth, HistoryInv, Truthful
    <3> QED
      BY <3>1 DEF RecordedBefore
  <2> QED
    BY <2>1 DEF Truth, HistoryInv, AppliedRan, HistoryIsTrue
<1> QED
  BY <1>1, <1>2, <1>3, PTL DEF MigrationSpec

\* "apply" goes up: a version runs when all lower ones of its command are recorded, if none
\* of its items failed; for any number of versions, and commands beside it.
THEOREM LowerVersionsRunFirst == MigrationSpec => LowerVersionsFirst
<1>1. MigrationInit => Truth
  BY TruthInit
<1>2. Truth /\ [MigrationNext]_migrationVars => Truth'
  BY TruthStep
<1> DEFINE Lower ==
      \A o \in Operators :
          commands[o].pc = "content" /\ commands'[o].pc = "insert"
             /\ commands[o].kind = "apply" /\ commands[o].ok =>
              \A v \in Versions :
                  (v < Current(o).version /\ \E i \in DOMAIN commands[o].items :
                                                 commands[o].items[i].version = v)
                      => history[v] # NoHistory
<1>3. Truth => Lower
  <2> SUFFICES ASSUME Truth, NEW o \in Operators, commands[o].pc = "content", commands[o].kind = "apply",
                      commands[o].ok, NEW v \in Versions, v < Current(o).version,
                      NEW i \in DOMAIN commands[o].items, commands[o].items[i].version = v
               PROVE  history[v] # NoHistory
    OBVIOUS
  <2>1. /\ commands[o].items \in Seq(Items) /\ commands[o].next \in 1 .. Len(commands[o].items)
        /\ Rising(commands[o].items) /\ RecordedBefore(commands[o].items, commands[o].next - 1)
    BY DEF Truth, HistoryInv, Truthful, Working
  <2>2. i \in 1 .. Len(commands[o].items) /\ i < commands[o].next
    BY <2>1 DEF Rising, Current
  <2>3. i \in 1 .. commands[o].next - 1
    BY <2>1, <2>2
  <2>4. history[v].content = commands[o].items[i].content
    BY <2>1, <2>3 DEF RecordedBefore
  <2>5. commands[o].items[i] \in Items
    BY <2>1, <2>2
  <2>6. commands[o].items[i].content \in Contents
    BY <2>5 DEF Items
  <2> QED
    BY <2>4, <2>6, MigrationConstants DEF NoHistory, Unregistered
<1>4. Truth /\ [MigrationNext]_migrationVars => [Lower]_migrationVars
  BY <1>3
<1> QED
  BY <1>1, <1>2, <1>4, PTL DEF MigrationSpec, LowerVersionsFirst

\* What commands hold and what is stored keeps its types (MigrationTypeOK), for every number of
\* commands, versions and lost connections.
THEOREM MigrationsKeepTypes == MigrationSpec => []MigrationTypeOK
<1>1. Truth => MigrationTypeOK
  BY DEF Truth
<1> QED
  BY <1>1, TruthInit, TruthStep, PTL DEF MigrationSpec

-----------------------------------------------------------------------------
(* Case runs.                                                              *)

Dirs == {<< >>} \cup {caseRunEvidencePath(id) : id \in RunIds} \cup {<<"temporary", a>> : a \in Attempts}

EveryName == Requested \cup NamesOf("file") \cup NamesOf("kit")

AttemptRecord ==
    [pc : {"new", "before", "after", "run", "case", "evidence", "failed", "ended"},
     kind : {"file", "kit"}, id : RunIds \cup {"none"}, dir : Dirs, todo : SUBSET EveryName,
     summary : Attempts \cup {NoFile}]

\* The shape of what attempts remember and of the files they read back.
Shape ==
    /\ attempts \in [Attempts -> AttemptRecord]
    /\ \A f \in DOMAIN files : files[f] \in Attempts \cup {NoFile}

LegacyId(id) == \E n : id = <<"legacy", n>>

OneRunPerId == \A r, s \in runs : r.id = s.id => r = s

RecordersOwnRun ==
    \A a \in Attempts :
        attempts[a].pc \in {"case", "evidence"} =>
            \E r \in runs : r.id = attempts[a].id /\ r.by = a

RecordersHaveCaseRun ==
    \A a \in Attempts :
        attempts[a].pc = "evidence" =>
            \E c \in caseRuns : c.id = apiCaseRunRecordID(attempts[a].id)

CaseRunsOwned ==
    \A row \in caseRuns :
        \/ LegacyId(row.id)
        \/ \E r \in runs : row.id = apiCaseRunRecordID(r.id) /\ row.by = r.by

EvidenceOwned ==
    \A row \in evidence :
        \/ LegacyId(row.caseRun)
        \/ /\ \E r \in runs : row.caseRun = apiCaseRunRecordID(r.id) /\ row.by = r.by
           /\ \E c \in caseRuns : c.id = row.caseRun

\* The inductive invariant: RowsOfOneAttempt alone says nothing of who will record next.
Owned ==
    /\ OneRunPerId /\ RecordersOwnRun /\ RecordersHaveCaseRun
    /\ CaseRunsOwned /\ EvidenceOwned

-----------------------------------------------------------------------------
\* What a file holds is an attempt or nothing.
LEMMA FileAtType ==
    ASSUME Shape, NEW dir, NEW name
    PROVE  FileAt(dir, name) \in Attempts \cup {NoFile}
BY DEF Shape, FileAt

\* An attempt that advances to a record leaves records.
LEMMA AdvanceType ==
    ASSUME Shape, NEW a \in Attempts, NEW t \in AttemptRecord, Advance(a, t)
    PROVE  attempts' \in [Attempts -> AttemptRecord]
BY DEF Shape, Advance

\* A stopped attempt is a record.
LEMMA StoppedType ==
    ASSUME NEW t \in AttemptRecord, NEW pc \in {"failed", "ended"}
    PROVE  Stopped(t, pc) \in AttemptRecord
BY DEF Stopped, AttemptRecord

LEMMA StoppedPc == \A t \in AttemptRecord : Stopped(t, "failed").pc = "failed"
BY DEF Stopped, AttemptRecord

\* An attempt with other names left to write or record is a record.
LEMMA TodoType ==
    ASSUME NEW t \in AttemptRecord, NEW todo \in SUBSET EveryName
    PROVE  [t EXCEPT !.todo = todo] \in AttemptRecord
BY DEF AttemptRecord

\* No path and no attempt is anything but what its action set.
LEMMA ShapeInit == CaseRunInit => Shape
BY DEF CaseRunInit, Shape, AttemptRecord, NoCaseRun, Dirs

LEMMA ShapeStep == Shape /\ [CaseRunNext]_caseRunVars => Shape'
<1> SUFFICES ASSUME Shape, [CaseRunNext]_caseRunVars PROVE Shape'
  OBVIOUS
<1>0. \A a \in Attempts : attempts[a] \in AttemptRecord
  BY DEF Shape
<1>1. ASSUME UNCHANGED <<files, attempts>> PROVE Shape'
  BY <1>1 DEF Shape
<1>a. ASSUME NEW a \in Attempts, NEW t \in AttemptRecord, Advance(a, t), UNCHANGED files
      PROVE  Shape'
  BY <1>a, AdvanceType DEF Shape
<1>2. ASSUME NEW a \in Attempts, Run(a) PROVE Shape'
  <2>1. PICK id \in RunIds :
            Advance(a, [NoCaseRun EXCEPT !.pc = "before", !.id = id, !.dir = caseRunEvidencePath(id),
                                         !.todo = Requested])
    BY <1>2 DEF Run
  <2>2. [NoCaseRun EXCEPT !.pc = "before", !.id = id, !.dir = caseRunEvidencePath(id),
                          !.todo = Requested] \in AttemptRecord
    <3>1. caseRunEvidencePath(id) \in Dirs /\ Requested \in SUBSET EveryName
      BY DEF Dirs, EveryName
    <3> QED
      BY <3>1 DEF NoCaseRun, AttemptRecord
  <2> QED
    BY <1>2, <2>1, <2>2, <1>a DEF Run
<1>3. ASSUME NEW a \in Attempts, handleTestKitRun(a) PROVE Shape'
  <2>1. PICK id \in RunIds : \E dir \in {caseRunEvidencePath(id), <<"temporary", a>>} :
            Advance(a, [NoCaseRun EXCEPT !.pc = "after", !.kind = "kit", !.id = id, !.dir = dir,
                                         !.todo = NamesOf("kit")])
    BY <1>3 DEF handleTestKitRun
  <2>a. PICK dir \in {caseRunEvidencePath(id), <<"temporary", a>>} :
            Advance(a, [NoCaseRun EXCEPT !.pc = "after", !.kind = "kit", !.id = id, !.dir = dir,
                                         !.todo = NamesOf("kit")])
    BY <2>1
  <2>2. [NoCaseRun EXCEPT !.pc = "after", !.kind = "kit", !.id = id, !.dir = dir,
                          !.todo = NamesOf("kit")] \in AttemptRecord
    <3>1. dir \in Dirs /\ NamesOf("kit") \in SUBSET EveryName
      BY DEF Dirs, EveryName
    <3> QED
      BY <3>1 DEF NoCaseRun, AttemptRecord
  <2> QED
    BY <1>3, <2>a, <2>2, <1>a DEF handleTestKitRun
<1>4. ASSUME NEW a \in Attempts, writeJSON(a) PROVE Shape'
  <2> DEFINE attempt == attempts[a]
  <2>1. attempt \in AttemptRecord
    BY <1>0
  <2> DEFINE Wrote(name, by) ==
        files' = [f \in DOMAIN files \cup {<<attempt.dir, name>>} |->
                     IF f = <<attempt.dir, name>> THEN by ELSE files[f]]
  <2>2. PICK name :
            \/ Wrote(name, a) /\ Advance(a, [attempt EXCEPT !.todo = @ \ {name}])
            \/ Wrote(name, NoFile) /\ Advance(a, Stopped(attempt, "failed"))
    BY <1>4 DEF writeJSON
  <2>3. \A f \in DOMAIN files' : files'[f] \in Attempts \cup {NoFile}
    BY <2>2 DEF Shape
  <2>4. [attempt EXCEPT !.todo = @ \ {name}] \in AttemptRecord
    BY <2>1 DEF AttemptRecord
  <2>5. Stopped(attempt, "failed") \in AttemptRecord
    BY <2>1, StoppedType
  <2> QED
    BY <2>2, <2>3, <2>4, <2>5, AdvanceType DEF Shape
<1>5. ASSUME NEW a \in Attempts, executeHTTP(a) PROVE Shape'
  <2>1. [attempts[a] EXCEPT !.pc = "after", !.todo = NamesOf("file") \ Requested] \in AttemptRecord
    BY <1>0 DEF AttemptRecord, EveryName
  <2> QED
    BY <1>5, <2>1, <1>a DEF executeHTTP
<1>6. ASSUME NEW a \in Attempts, apiCaseEvidenceSummaries(a) PROVE Shape'
  <2> DEFINE summary == IF attempts[a].kind = "kit" THEN a ELSE FileAt(attempts[a].dir, "request")
  <2>1. summary \in Attempts \cup {NoFile}
    BY FileAtType
  <2>2. [attempts[a] EXCEPT !.pc = "run", !.summary = summary] \in AttemptRecord
    BY <1>0, <2>1 DEF AttemptRecord
  <2> QED
    <3>1. Advance(a, [attempts[a] EXCEPT !.pc = "run", !.summary = summary]) /\ UNCHANGED files
      BY <1>6 DEF apiCaseEvidenceSummaries
    <3> HIDE DEF summary
    <3> QED
      BY <2>2, <3>1, <1>a
<1>7. ASSUME NEW a \in Attempts, recordWorkflowRunForAPICase(a) PROVE Shape'
  <2>1. [attempts[a] EXCEPT !.pc = "case"] \in AttemptRecord
    BY <1>0 DEF AttemptRecord
  <2> QED
    BY <1>7, <2>1, <1>a DEF recordWorkflowRunForAPICase
<1>8. ASSUME NEW a \in Attempts, recordAPICaseRunRow(a) PROVE Shape'
  <2>1. NamesOf(attempts[a].kind) \in SUBSET EveryName
    BY <1>0 DEF AttemptRecord, EveryName
  <2>2. [attempts[a] EXCEPT !.pc = "evidence", !.todo = NamesOf(attempts[a].kind)] \in AttemptRecord
    BY <1>0, <2>1 DEF AttemptRecord
  <2> QED
    BY <1>8, <2>2, <1>a DEF recordAPICaseRunRow
<1>9. ASSUME NEW a \in Attempts, recordAPICaseEvidenceRecords(a) PROVE Shape'
  <2>1. PICK name : Advance(a, RunRecorded(attempts[a], attempts[a].todo \ {name}))
    BY <1>9 DEF recordAPICaseEvidenceRecords
  <2>2. attempts[a].todo \ {name} \in SUBSET EveryName
    BY <1>0 DEF AttemptRecord
  <2>3. RunRecorded(attempts[a], attempts[a].todo \ {name}) \in AttemptRecord
    BY <1>0, <2>2, StoppedType, TodoType DEF RunRecorded
  <2> QED
    BY <1>9, <2>1, <2>3, <1>a DEF recordAPICaseEvidenceRecords
<1>10. ASSUME NEW a \in Attempts, Fail(a) PROVE Shape'
  BY <1>10, <1>0, <1>a, StoppedType DEF Fail
<1>11. CASE ImportLegacyRuntime \/ createRunIfMissing \/ ImportCaseRun \/ ImportEvidence \/ ImportFails
  BY <1>11, <1>1 DEF ImportLegacyRuntime, createRunIfMissing, ImportCaseRun, ImportEvidence, ImportFails
<1>12. CASE UNCHANGED caseRunVars
  BY <1>12, <1>1 DEF caseRunVars
<1> QED
  BY <1>2, <1>3, <1>4, <1>5, <1>6, <1>7, <1>8, <1>9, <1>10, <1>11, <1>12 DEF CaseRunNext

-----------------------------------------------------------------------------
\* Ids of legacy rows are never those of the case run of a run.
LEMMA LegacyIds == \A id, other : LegacyId(id) => id # apiCaseRunRecordID(other)
BY DEF LegacyId, apiCaseRunRecordID

LEMMA CaseRunIds == \A id, other : apiCaseRunRecordID(id) = apiCaseRunRecordID(other) => id = other
BY DEF apiCaseRunRecordID

LEMMA OwnedInit == CaseRunInit => Owned
BY DEF CaseRunInit, Owned, OneRunPerId, RecordersOwnRun, RecordersHaveCaseRun, CaseRunsOwned,
       EvidenceOwned, NoCaseRun

\* A step that leaves the rows alone, and after which its attempt records nothing, keeps the
\* invariant.
LEMMA QuietRunStep ==
    ASSUME Shape, Owned, NEW a \in Attempts, NEW t, Advance(a, t),
           UNCHANGED <<runs, caseRuns, evidence>>,
           t.pc \notin {"case", "evidence"}
    PROVE  Owned'
BY DEF Shape, Owned, OneRunPerId, RecordersOwnRun, RecordersHaveCaseRun, CaseRunsOwned,
       EvidenceOwned, Advance

\* A run row whose id is new keeps what was recorded.
LEMMA NewRunStep ==
    ASSUME Owned, NEW aRun, CreateRun(aRun), UNCHANGED <<caseRuns, evidence, attempts>>
    PROVE  Owned'
<1>1. runs' = runs \cup {aRun} /\ \A r \in runs : r.id # aRun.id
  BY DEF CreateRun, RunIdsOf
<1>2. OneRunPerId'
  BY <1>1 DEF Owned, OneRunPerId
<1>3. RecordersOwnRun' /\ RecordersHaveCaseRun'
  BY <1>1 DEF Owned, RecordersOwnRun, RecordersHaveCaseRun
<1>4. CaseRunsOwned' /\ EvidenceOwned'
  BY <1>1 DEF Owned, CaseRunsOwned, EvidenceOwned
<1> QED
  BY <1>2, <1>3, <1>4 DEF Owned

\* Rows of the import, whose ids are no run's, own nothing.
LEMMA LegacyCaseRunStep ==
    ASSUME Owned, NEW row, caseRuns' = caseRuns \cup {row}, LegacyId(row.id),
           UNCHANGED <<runs, evidence, attempts>>
    PROVE  Owned'
BY DEF Owned, OneRunPerId, RecordersOwnRun, RecordersHaveCaseRun, CaseRunsOwned, EvidenceOwned

LEMMA LegacyEvidenceStep ==
    ASSUME Owned, NEW row, evidence' = evidence \cup {row}, LegacyId(row.caseRun),
           UNCHANGED <<runs, caseRuns, attempts>>
    PROVE  Owned'
BY DEF Owned, OneRunPerId, RecordersOwnRun, RecordersHaveCaseRun, CaseRunsOwned, EvidenceOwned

LEMMA OwnedStep == Shape /\ Owned /\ [CaseRunNext]_caseRunVars => Owned'
<1> SUFFICES ASSUME Shape, Owned, [CaseRunNext]_caseRunVars PROVE Owned'
  OBVIOUS
<1>0. \A a \in Attempts : attempts[a] \in AttemptRecord
  BY DEF Shape
<1>1. ASSUME NEW a \in Attempts, Run(a) PROVE Owned'
  <2>1. PICK id \in RunIds :
            Advance(a, [NoCaseRun EXCEPT !.pc = "before", !.id = id, !.dir = caseRunEvidencePath(id),
                                         !.todo = Requested])
    BY <1>1 DEF Run
  <2>2. [NoCaseRun EXCEPT !.pc = "before", !.id = id, !.dir = caseRunEvidencePath(id),
                          !.todo = Requested].pc = "before"
    BY DEF NoCaseRun
  <2> QED
    BY <1>1, <2>1, <2>2, QuietRunStep DEF Run
<1>2. ASSUME NEW a \in Attempts, handleTestKitRun(a) PROVE Owned'
  <2>1. PICK id \in RunIds : \E dir \in {caseRunEvidencePath(id), <<"temporary", a>>} :
            Advance(a, [NoCaseRun EXCEPT !.pc = "after", !.kind = "kit", !.id = id, !.dir = dir,
                                         !.todo = NamesOf("kit")])
    BY <1>2 DEF handleTestKitRun
  <2>2. \A dir : [NoCaseRun EXCEPT !.pc = "after", !.kind = "kit", !.id = id, !.dir = dir,
                                   !.todo = NamesOf("kit")].pc = "after"
    BY DEF NoCaseRun
  <2> QED
    BY <1>2, <2>1, <2>2, QuietRunStep DEF handleTestKitRun
<1>3. ASSUME NEW a \in Attempts, writeJSON(a) PROVE Owned'
  <2>1. attempts[a].pc \in {"before", "after"} /\ UNCHANGED <<runs, caseRuns, evidence>>
    BY <1>3 DEF writeJSON
  <2>2. PICK name : \/ Advance(a, [attempts[a] EXCEPT !.todo = @ \ {name}])
                    \/ Advance(a, Stopped(attempts[a], "failed"))
    BY <1>3 DEF writeJSON
  <2>3. [attempts[a] EXCEPT !.todo = @ \ {name}].pc = attempts[a].pc
    BY <1>0 DEF AttemptRecord
  <2>4. Stopped(attempts[a], "failed").pc = "failed"
    BY <1>0, StoppedPc
  <2>5. CASE Advance(a, [attempts[a] EXCEPT !.todo = @ \ {name}])
    <3> DEFINE t == [attempts[a] EXCEPT !.todo = @ \ {name}]
    <3>1. Advance(a, t) /\ t.pc \notin {"case", "evidence"}
      BY <2>1, <2>3, <2>5
    <3> HIDE DEF t
    <3> QED
      BY <2>1, <3>1, QuietRunStep
  <2>6. CASE Advance(a, Stopped(attempts[a], "failed"))
    BY <2>1, <2>4, <2>6, QuietRunStep
  <2> QED
    BY <2>2, <2>5, <2>6
<1>4. ASSUME NEW a \in Attempts, executeHTTP(a) PROVE Owned'
  <2> DEFINE t == [attempts[a] EXCEPT !.pc = "after", !.todo = NamesOf("file") \ Requested]
  <2>1. Advance(a, t) /\ UNCHANGED <<runs, caseRuns, evidence>>
    BY <1>4 DEF executeHTTP
  <2>2. t.pc \notin {"case", "evidence"}
    BY <1>0 DEF AttemptRecord
  <2> HIDE DEF t
  <2> QED
    BY <2>1, <2>2, QuietRunStep
<1>5. ASSUME NEW a \in Attempts, apiCaseEvidenceSummaries(a) PROVE Owned'
  <2> DEFINE t == [attempts[a] EXCEPT !.pc = "run",
                      !.summary = IF attempts[a].kind = "kit" THEN a
                                  ELSE FileAt(attempts[a].dir, "request")]
  <2>1. Advance(a, t) /\ UNCHANGED <<runs, caseRuns, evidence>>
    BY <1>5 DEF apiCaseEvidenceSummaries
  <2>2. t.pc \notin {"case", "evidence"}
    BY <1>0 DEF AttemptRecord
  <2> HIDE DEF t
  <2> QED
    BY <2>1, <2>2, QuietRunStep
<1>6. ASSUME NEW a \in Attempts, recordWorkflowRunForAPICase(a) PROVE Owned'
  <2> DEFINE aRun == [id |-> attempts[a].id, by |-> a, dir |-> attempts[a].dir]
  <2>1. runs' = runs \cup {aRun} /\ \A r \in runs : r.id # aRun.id
    BY <1>6 DEF recordWorkflowRunForAPICase, CreateRun, RunIdsOf
  <2>2. /\ attempts' = [attempts EXCEPT ![a] = [attempts[a] EXCEPT !.pc = "case"]]
        /\ UNCHANGED <<caseRuns, evidence>>
    BY <1>6 DEF recordWorkflowRunForAPICase, Advance
  <2>3. OneRunPerId'
    BY <2>1 DEF Owned, OneRunPerId
  <2>4. RecordersOwnRun'
    <3> SUFFICES ASSUME NEW x \in Attempts, attempts'[x].pc \in {"case", "evidence"}
                 PROVE  \E r \in runs' : r.id = attempts'[x].id /\ r.by = x
      BY DEF RecordersOwnRun
    <3>1. CASE x = a
      <4>1. attempts'[a].id = aRun.id /\ aRun.by = a
        BY <1>0, <2>2 DEF Shape, AttemptRecord
      <4> QED
        BY <3>1, <4>1, <2>1
    <3>2. CASE x # a
      <4>1. attempts'[x] = attempts[x]
        BY <3>2, <2>2 DEF Shape
      <4> QED
        BY <4>1, <2>1 DEF Owned, RecordersOwnRun
    <3> QED
      BY <3>1, <3>2
  <2>5. RecordersHaveCaseRun'
    <3> SUFFICES ASSUME NEW x \in Attempts, attempts'[x].pc = "evidence"
                 PROVE  \E c \in caseRuns : c.id = apiCaseRunRecordID(attempts'[x].id)
      BY <2>2 DEF RecordersHaveCaseRun
    <3>1. x # a
      BY <1>0, <2>2 DEF Shape, AttemptRecord
    <3>2. attempts'[x] = attempts[x]
      BY <3>1, <2>2 DEF Shape
    <3> QED
      BY <3>2 DEF Owned, RecordersHaveCaseRun
  <2>6. CaseRunsOwned' /\ EvidenceOwned'
    BY <2>1, <2>2 DEF Owned, CaseRunsOwned, EvidenceOwned
  <2> QED
    BY <2>3, <2>4, <2>5, <2>6 DEF Owned
<1>7. ASSUME NEW a \in Attempts, recordAPICaseRunRow(a) PROVE Owned'
  <2> DEFINE row == [id |-> apiCaseRunRecordID(attempts[a].id), run |-> attempts[a].id, by |-> a,
                     request |-> attempts[a].summary]
  <2>1. caseRuns' = caseRuns \cup {row} /\ UNCHANGED <<runs, evidence>>
    BY <1>7 DEF recordAPICaseRunRow, RecordAPICaseRun
  <2>2. attempts' = [attempts EXCEPT ![a] = [attempts[a] EXCEPT !.pc = "evidence",
                                                 !.todo = NamesOf(attempts[a].kind)]]
    BY <1>7 DEF recordAPICaseRunRow, Advance
  <2>3. /\ attempts'[a].id = attempts[a].id
        /\ \A x \in Attempts \ {a} : attempts'[x] = attempts[x]
    BY <1>0, <2>2 DEF Shape, AttemptRecord
  <2>4. PICK r \in runs : r.id = attempts[a].id /\ r.by = a
    BY <1>7 DEF recordAPICaseRunRow, Owned, RecordersOwnRun
  <2>5. OneRunPerId'
    BY <2>1 DEF Owned, OneRunPerId
  <2>6. RecordersOwnRun'
    BY <2>1, <2>3, <2>4 DEF Owned, RecordersOwnRun
  <2>7. RecordersHaveCaseRun'
    <3> SUFFICES ASSUME NEW x \in Attempts, attempts'[x].pc = "evidence"
                 PROVE  \E c \in caseRuns' : c.id = apiCaseRunRecordID(attempts'[x].id)
      BY DEF RecordersHaveCaseRun
    <3>1. CASE x = a
      <4>1. row \in caseRuns' /\ row.id = apiCaseRunRecordID(attempts[a].id)
        BY <2>1
      <4>2. row.id = apiCaseRunRecordID(attempts'[x].id)
        BY <3>1, <4>1, <2>3
      <4> HIDE DEF row
      <4> QED
        BY <4>1, <4>2
    <3>2. CASE x # a
      BY <3>2, <2>1, <2>3 DEF Owned, RecordersHaveCaseRun
    <3> QED
      BY <3>1, <3>2
  <2>8. CaseRunsOwned'
    BY <2>1, <2>4 DEF Owned, CaseRunsOwned
  <2>9. EvidenceOwned'
    BY <2>1 DEF Owned, EvidenceOwned
  <2> QED
    BY <2>5, <2>6, <2>7, <2>8, <2>9 DEF Owned
<1>8. ASSUME NEW a \in Attempts, recordAPICaseEvidenceRecords(a) PROVE Owned'
  <2>1. PICK name, content :
            /\ Advance(a, RunRecorded(attempts[a], attempts[a].todo \ {name}))
            /\ evidence' \in {evidence, evidence \cup
                  {[id |-> <<attempts[a].id, name>>, run |-> attempts[a].id,
                    caseRun |-> apiCaseRunRecordID(attempts[a].id), by |-> a,
                    name |-> name, dir |-> attempts[a].dir, summary |-> content]}}
    BY <1>8 DEF recordAPICaseEvidenceRecords, RecordEvidence
  <2>2. attempts[a].pc = "evidence" /\ UNCHANGED <<runs, caseRuns>>
    BY <1>8 DEF recordAPICaseEvidenceRecords
  <2>3. PICK r \in runs : r.id = attempts[a].id /\ r.by = a
    BY <2>2 DEF Owned, RecordersOwnRun
  <2>4. PICK c \in caseRuns : c.id = apiCaseRunRecordID(attempts[a].id)
    BY <2>2 DEF Owned, RecordersHaveCaseRun
  <2>5. /\ attempts'[a].id = attempts[a].id
        /\ \A x \in Attempts \ {a} : attempts'[x] = attempts[x]
    BY <1>0, <2>1 DEF Shape, Advance, AttemptRecord, RunRecorded, Stopped
  <2>6. OneRunPerId' /\ CaseRunsOwned'
    BY <2>2 DEF Owned, OneRunPerId, CaseRunsOwned
  <2>7. RecordersOwnRun'
    BY <2>2, <2>3, <2>5 DEF Owned, RecordersOwnRun
  <2>8. RecordersHaveCaseRun'
    BY <2>2, <2>4, <2>5 DEF Owned, RecordersHaveCaseRun
  <2>9. EvidenceOwned'
    BY <2>1, <2>2, <2>3, <2>4 DEF Owned, EvidenceOwned
  <2> QED
    BY <2>6, <2>7, <2>8, <2>9 DEF Owned
<1>9. ASSUME NEW a \in Attempts, Fail(a) PROVE Owned'
  <2>1. Advance(a, Stopped(attempts[a], "failed")) /\ UNCHANGED <<runs, caseRuns, evidence>>
    BY <1>9 DEF Fail
  <2>2. Stopped(attempts[a], "failed").pc = "failed"
    BY <1>0, StoppedPc
  <2> QED
    BY <2>1, <2>2, QuietRunStep
<1>10. CASE ImportLegacyRuntime \/ ImportFails \/ UNCHANGED caseRunVars
  BY <1>10 DEF ImportLegacyRuntime, ImportFails, caseRunVars, Owned, OneRunPerId, RecordersOwnRun,
               RecordersHaveCaseRun, CaseRunsOwned, EvidenceOwned
<1>11. CASE createRunIfMissing
  <2>1. CASE UNCHANGED runs
    BY <1>11, <2>1 DEF createRunIfMissing, Owned, OneRunPerId, RecordersOwnRun,
               RecordersHaveCaseRun, CaseRunsOwned, EvidenceOwned
  <2>2. ASSUME NEW aRun, CreateRun(aRun) PROVE Owned'
    BY <1>11, <2>2, NewRunStep DEF createRunIfMissing
  <2> QED
    BY <1>11, <2>1, <2>2 DEF createRunIfMissing
<1>12. CASE ImportCaseRun
  <2> DEFINE row == [id |-> <<"legacy", importer.row>>, run |-> LegacyRow.run, by |-> Importer,
                     request |-> NoFile]
  <2>1. caseRuns' = caseRuns \cup {row} /\ UNCHANGED <<runs, evidence, attempts>>
    BY <1>12 DEF ImportCaseRun, RecordAPICaseRun
  <2>2. LegacyId(row.id)
    BY DEF LegacyId
  <2> HIDE DEF row
  <2> QED
    BY <2>1, <2>2, LegacyCaseRunStep
<1>13. CASE ImportEvidence
  <2> DEFINE row == [id |-> <<"legacy", importer.row>>, run |-> LegacyRow.run,
                     caseRun |-> <<"legacy", importer.row>>, by |-> Importer, name |-> "case-run",
                     dir |-> <<"legacy", importer.row>>, summary |-> NoFile]
  <2>1. evidence' = evidence \cup {row} /\ UNCHANGED <<runs, caseRuns, attempts>>
    BY <1>13 DEF ImportEvidence, RecordEvidence
  <2>2. LegacyId(row.caseRun)
    BY DEF LegacyId
  <2> HIDE DEF row
  <2> QED
    BY <2>1, <2>2, LegacyEvidenceStep
<1> QED
  BY <1>1, <1>2, <1>3, <1>4, <1>5, <1>6, <1>7, <1>8, <1>9, <1>10, <1>11, <1>12, <1>13 DEF CaseRunNext

\* Rows that are owned are of one attempt.
LEMMA OwnedIsRowsOfOneAttempt == Owned => RowsOfOneAttempt
<1> SUFFICES ASSUME Owned, NEW aRun \in runs PROVE
       /\ \A row \in caseRuns : row.id = apiCaseRunRecordID(aRun.id) => row.by = aRun.by
       /\ \A row \in evidence :
              row.caseRun = apiCaseRunRecordID(aRun.id) =>
                  row.by = aRun.by /\ \E c \in caseRuns : c.id = row.caseRun
  BY DEF RowsOfOneAttempt
<1>1. ASSUME NEW row \in caseRuns, row.id = apiCaseRunRecordID(aRun.id) PROVE row.by = aRun.by
  <2>1. PICK r \in runs : row.id = apiCaseRunRecordID(r.id) /\ row.by = r.by
    BY <1>1, LegacyIds DEF Owned, CaseRunsOwned
  <2>2. r = aRun
    BY <1>1, <2>1, CaseRunIds DEF Owned, OneRunPerId
  <2> QED
    BY <2>1, <2>2
<1>2. ASSUME NEW row \in evidence, row.caseRun = apiCaseRunRecordID(aRun.id)
      PROVE  row.by = aRun.by /\ \E c \in caseRuns : c.id = row.caseRun
  <2>1. PICK r \in runs : row.caseRun = apiCaseRunRecordID(r.id) /\ row.by = r.by
    BY <1>2, LegacyIds DEF Owned, EvidenceOwned
  <2>2. r = aRun
    BY <1>2, <2>1, CaseRunIds DEF Owned, OneRunPerId
  <2>3. \E c \in caseRuns : c.id = row.caseRun
    BY <1>2, LegacyIds DEF Owned, EvidenceOwned
  <2> QED
    BY <2>1, <2>2, <2>3
<1> QED
  BY <1>1, <1>2

\* The rows of a run are those of one attempt, for every number of attempts, whatever ids they
\* share, whatever fails, and whatever an import adds (RowsOfOneAttempt): the verdict and the
\* evidence of a run belong together.
THEOREM OneAttemptPerRun == CaseRunSpec => []RowsOfOneAttempt
<1>1. CaseRunInit => Shape /\ Owned
  BY ShapeInit, OwnedInit
<1>2. Shape /\ Owned /\ [CaseRunNext]_caseRunVars => Shape' /\ Owned'
  BY ShapeStep, OwnedStep
<1> QED
  BY <1>1, <1>2, OwnedIsRowsOfOneAttempt, PTL DEF CaseRunSpec

-----------------------------------------------------------------------------
(* What readers are shown.                                                 *)

Recording == {"run", "case", "evidence"}
RecordedPcs == {"evidence", "failed", "ended"}

Began(a) == attempts[a].pc # "new"

\* Nobody else writes into the directory of a.
Apart(a) == \A b \in Attempts \ {a} : Began(b) => attempts[b].dir # attempts[a].dir

\* Where attempts write: the directory of their id, or one of their own.
Placed ==
    \A a \in Attempts :
        Began(a) => attempts[a].dir \in {caseRunEvidencePath(attempts[a].id), <<"temporary", a>>}

FilesPlaced ==
    \A f \in DOMAIN files :
        files[f] \in Attempts => Began(files[f]) /\ attempts[files[f]].dir = f[1]

SummariesOwn ==
    \A a \in Attempts : attempts[a].pc \in Recording /\ Apart(a) => attempts[a].summary = a

CaseRunsOwn ==
    \A row \in caseRuns :
        row.by \in Attempts =>
            /\ row.id = apiCaseRunRecordID(row.run) /\ Began(row.by)
            /\ \E r \in runs : r.id = row.run /\ r.by = row.by
            /\ Apart(row.by) => row.request = row.by

EvidenceOwn ==
    \A row \in evidence :
        row.by \in Attempts =>
            /\ attempts[row.by].pc \in RecordedPcs
            /\ row.dir = attempts[row.by].dir
            /\ Apart(row.by) => row.summary = row.by /\ FileAt(row.dir, row.name) = row.by

Shown == Placed /\ FilesPlaced /\ SummariesOwn /\ CaseRunsOwn /\ EvidenceOwn

AttemptStep(a) ==
    \/ Run(a) \/ handleTestKitRun(a) \/ writeJSON(a) \/ executeHTTP(a)
    \/ apiCaseEvidenceSummaries(a) \/ recordWorkflowRunForAPICase(a)
    \/ recordAPICaseRunRow(a) \/ recordAPICaseEvidenceRecords(a) \/ Fail(a)

\* What a step of a does to a: it stays where it began, and what it records later is what
\* it read back.
Stays(a, t) ==
    /\ t.pc # "new"
    /\ Began(a) => t.dir = attempts[a].dir /\ t.id = attempts[a].id
    /\ ~Began(a) => t.dir \in {caseRunEvidencePath(t.id), <<"temporary", a>>}
    /\ attempts[a].pc \in RecordedPcs => t.pc \in RecordedPcs
    /\ t.pc \in Recording =>
          \/ attempts[a].pc \in Recording /\ t.summary = attempts[a].summary
          \/ apiCaseEvidenceSummaries(a)

LEMMA StoppedStays ==
    ASSUME Shape, NEW a \in Attempts, Began(a), NEW pc \in {"failed", "ended"}
    PROVE  Stays(a, Stopped(attempts[a], pc))
<1>1. attempts[a] \in AttemptRecord
  BY DEF Shape
<1>2. /\ Stopped(attempts[a], pc).pc = pc /\ Stopped(attempts[a], pc).dir = attempts[a].dir
      /\ Stopped(attempts[a], pc).id = attempts[a].id
  BY <1>1 DEF Stopped, AttemptRecord
<1> QED
  BY <1>2 DEF Stays, RecordedPcs, Recording

LEMMA StepStays ==
    ASSUME Shape, NEW a \in Attempts, AttemptStep(a)
    PROVE  \E t : Advance(a, t) /\ Stays(a, t)
<1>0. attempts[a] \in AttemptRecord
  BY DEF Shape
<1>1. CASE Run(a)
  <2>1. PICK id \in RunIds :
            Advance(a, [NoCaseRun EXCEPT !.pc = "before", !.id = id, !.dir = caseRunEvidencePath(id),
                                         !.todo = Requested])
    BY <1>1 DEF Run
  <2> DEFINE t == [NoCaseRun EXCEPT !.pc = "before", !.id = id, !.dir = caseRunEvidencePath(id),
                                    !.todo = Requested]
  <2>2. t.pc = "before" /\ t.id = id /\ t.dir = caseRunEvidencePath(id)
    BY DEF NoCaseRun
  <2>3. ~Began(a) /\ attempts[a].pc = "new"
    BY <1>1 DEF Run, Began
  <2>4. Advance(a, t)
    BY <2>1
  <2> HIDE DEF t
  <2> QED
    BY <2>2, <2>3, <2>4 DEF Stays, RecordedPcs, Recording
<1>2. CASE handleTestKitRun(a)
  <2>1. PICK id \in RunIds : \E dir \in {caseRunEvidencePath(id), <<"temporary", a>>} :
            Advance(a, [NoCaseRun EXCEPT !.pc = "after", !.kind = "kit", !.id = id, !.dir = dir,
                                         !.todo = NamesOf("kit")])
    BY <1>2 DEF handleTestKitRun
  <2>2. PICK dir \in {caseRunEvidencePath(id), <<"temporary", a>>} :
            Advance(a, [NoCaseRun EXCEPT !.pc = "after", !.kind = "kit", !.id = id, !.dir = dir,
                                         !.todo = NamesOf("kit")])
    BY <2>1
  <2> DEFINE t == [NoCaseRun EXCEPT !.pc = "after", !.kind = "kit", !.id = id, !.dir = dir,
                                    !.todo = NamesOf("kit")]
  <2>3. t.pc = "after" /\ t.id = id /\ t.dir = dir
    BY DEF NoCaseRun
  <2>4. ~Began(a) /\ attempts[a].pc = "new"
    BY <1>2 DEF handleTestKitRun, Began
  <2>5. Advance(a, t)
    BY <2>2
  <2> HIDE DEF t
  <2> QED
    BY <2>3, <2>4, <2>5 DEF Stays, RecordedPcs, Recording
<1>3. CASE writeJSON(a)
  <2>1. attempts[a].pc \in {"before", "after"} /\ Began(a)
    BY <1>3 DEF writeJSON, Began
  <2>2. PICK name : \/ Advance(a, [attempts[a] EXCEPT !.todo = @ \ {name}])
                    \/ Advance(a, Stopped(attempts[a], "failed"))
    BY <1>3 DEF writeJSON
  <2> DEFINE t == [attempts[a] EXCEPT !.todo = @ \ {name}]
  <2>3. t.pc = attempts[a].pc /\ t.dir = attempts[a].dir /\ t.id = attempts[a].id
    BY <1>0 DEF AttemptRecord
  <2>4. Stays(a, t)
    <3> HIDE DEF t
    <3> QED
      BY <2>1, <2>3 DEF Stays, RecordedPcs, Recording
  <2> QED
    BY <2>1, <2>2, <2>4, StoppedStays
<1>4. CASE executeHTTP(a)
  <2> DEFINE t == [attempts[a] EXCEPT !.pc = "after", !.todo = NamesOf("file") \ Requested]
  <2>1. Advance(a, t) /\ attempts[a].pc = "before" /\ Began(a)
    BY <1>4 DEF executeHTTP, Began
  <2>2. t.pc = "after" /\ t.dir = attempts[a].dir /\ t.id = attempts[a].id
    BY <1>0 DEF AttemptRecord
  <2> HIDE DEF t
  <2> QED
    BY <2>1, <2>2 DEF Stays, RecordedPcs, Recording
<1>5. CASE apiCaseEvidenceSummaries(a)
  <2> DEFINE t == [attempts[a] EXCEPT !.pc = "run",
                      !.summary = IF attempts[a].kind = "kit" THEN a
                                  ELSE FileAt(attempts[a].dir, "request")]
  <2>1. Advance(a, t) /\ attempts[a].pc = "after" /\ Began(a)
    BY <1>5 DEF apiCaseEvidenceSummaries, Began
  <2>2. t.pc = "run" /\ t.dir = attempts[a].dir /\ t.id = attempts[a].id
    BY <1>0 DEF AttemptRecord
  <2> HIDE DEF t
  <2> QED
    BY <1>5, <2>1, <2>2 DEF Stays, RecordedPcs
<1>6. CASE recordWorkflowRunForAPICase(a)
  <2> DEFINE t == [attempts[a] EXCEPT !.pc = "case"]
  <2>1. Advance(a, t) /\ attempts[a].pc = "run" /\ Began(a)
    BY <1>6 DEF recordWorkflowRunForAPICase, Began
  <2>2. /\ t.pc = "case" /\ t.dir = attempts[a].dir /\ t.id = attempts[a].id
        /\ t.summary = attempts[a].summary
    BY <1>0 DEF AttemptRecord
  <2> HIDE DEF t
  <2> QED
    BY <2>1, <2>2 DEF Stays, RecordedPcs, Recording
<1>7. CASE recordAPICaseRunRow(a)
  <2> DEFINE t == [attempts[a] EXCEPT !.pc = "evidence", !.todo = NamesOf(attempts[a].kind)]
  <2>1. Advance(a, t) /\ attempts[a].pc = "case" /\ Began(a)
    BY <1>7 DEF recordAPICaseRunRow, Began
  <2>2. /\ t.pc = "evidence" /\ t.dir = attempts[a].dir /\ t.id = attempts[a].id
        /\ t.summary = attempts[a].summary
    BY <1>0 DEF AttemptRecord
  <2> HIDE DEF t
  <2> QED
    BY <2>1, <2>2 DEF Stays, RecordedPcs, Recording
<1>8. CASE recordAPICaseEvidenceRecords(a)
  <2>1. PICK name : Advance(a, RunRecorded(attempts[a], attempts[a].todo \ {name}))
    BY <1>8 DEF recordAPICaseEvidenceRecords
  <2>2. attempts[a].pc = "evidence" /\ Began(a)
    BY <1>8 DEF recordAPICaseEvidenceRecords, Began
  <2> DEFINE t == [attempts[a] EXCEPT !.todo = attempts[a].todo \ {name}]
  <2>3. /\ t.pc = "evidence" /\ t.dir = attempts[a].dir /\ t.id = attempts[a].id
        /\ t.summary = attempts[a].summary
    BY <1>0, <2>2 DEF AttemptRecord
  <2>4. Stays(a, t)
    <3> HIDE DEF t
    <3> QED
      BY <2>2, <2>3 DEF Stays, RecordedPcs, Recording
  <2> QED
    BY <2>1, <2>2, <2>4, StoppedStays DEF RunRecorded
<1>9. CASE Fail(a)
  <2>1. Advance(a, Stopped(attempts[a], "failed")) /\ Began(a)
    BY <1>9 DEF Fail, Began
  <2> QED
    BY <2>1, StoppedStays
<1> QED
  BY <1>1, <1>2, <1>3, <1>4, <1>5, <1>6, <1>7, <1>8, <1>9 DEF AttemptStep

\* What began stays where it is, and only less apart.
LEMMA Moved ==
    ASSUME Shape, NEW a \in Attempts, NEW t, Advance(a, t), Stays(a, t)
    PROVE  /\ attempts'[a] = t /\ \A x \in Attempts \ {a} : attempts'[x] = attempts[x]
           /\ Began(a)'
           /\ \A x \in Attempts :
                 /\ Began(x) => Began(x)' /\ attempts'[x].dir = attempts[x].dir
                 /\ Began(x) /\ Apart(x)' => Apart(x)
                 /\ attempts[x].pc \in RecordedPcs => attempts'[x].pc \in RecordedPcs
<1>1. attempts'[a] = t /\ \A x \in Attempts \ {a} : attempts'[x] = attempts[x]
  BY DEF Shape, Advance
<1>2. Began(a)'
  BY <1>1 DEF Stays, Began
<1>3. \A x \in Attempts : Began(x) => Began(x)' /\ attempts'[x].dir = attempts[x].dir
  BY <1>1, <1>2 DEF Stays, Began
<1>4. \A x \in Attempts : Began(x) /\ Apart(x)' => Apart(x)
  BY <1>3 DEF Apart
<1>5. \A x \in Attempts : attempts[x].pc \in RecordedPcs => attempts'[x].pc \in RecordedPcs
  BY <1>1 DEF Stays
<1> QED
  BY <1>1, <1>2, <1>3, <1>4, <1>5

\* A file in a directory is by an attempt that writes there.
LEMMA FileIsPlaced ==
    ASSUME Shape, FilesPlaced, NEW dir, NEW name, FileAt(dir, name) # NoFile
    PROVE  /\ FileAt(dir, name) \in Attempts /\ Began(FileAt(dir, name))
           /\ attempts[FileAt(dir, name)].dir = dir
<1>1. <<dir, name>> \in DOMAIN files /\ FileAt(dir, name) = files[<<dir, name>>]
  BY DEF FileAt
<1>2. FileAt(dir, name) \in Attempts
  BY FileAtType
<1> QED
  BY <1>1, <1>2 DEF FilesPlaced

\* Of an attempt that is apart, it is its own.
LEMMA FileIsOwn ==
    ASSUME Shape, FilesPlaced, NEW a \in Attempts, Apart(a), NEW name,
           FileAt(attempts[a].dir, name) # NoFile
    PROVE  FileAt(attempts[a].dir, name) = a
BY FileIsPlaced DEF Apart

LEMMA WritesOneFile ==
    ASSUME Shape, NEW a \in Attempts, writeJSON(a)
    PROVE  \E name :
              /\ DOMAIN files' = DOMAIN files \cup {<<attempts[a].dir, name>>}
              /\ files'[<<attempts[a].dir, name>>] \in {a, NoFile}
              /\ \A f \in DOMAIN files : f # <<attempts[a].dir, name>> => files'[f] = files[f]
<1> DEFINE Wrote(name, by) ==
      files' = [f \in DOMAIN files \cup {<<attempts[a].dir, name>>} |->
                   IF f = <<attempts[a].dir, name>> THEN by ELSE files[f]]
<1>1. PICK name : Wrote(name, a) \/ Wrote(name, NoFile)
  BY DEF writeJSON
<1>2. PICK by \in {a, NoFile} : Wrote(name, by)
  BY <1>1
<1>3. /\ DOMAIN files' = DOMAIN files \cup {<<attempts[a].dir, name>>}
      /\ files'[<<attempts[a].dir, name>>] \in {a, NoFile}
      /\ \A f \in DOMAIN files : f # <<attempts[a].dir, name>> => files'[f] = files[f]
  BY <1>2
<1> HIDE DEF Wrote
<1> QED
  BY <1>3

LEMMA FileStays ==
    ASSUME Shape, NEW a \in Attempts, writeJSON(a), NEW dir, NEW name, dir # attempts[a].dir
    PROVE  FileAt(dir, name)' = FileAt(dir, name)
<1>1. PICK other :
              /\ DOMAIN files' = DOMAIN files \cup {<<attempts[a].dir, other>>}
              /\ files'[<<attempts[a].dir, other>>] \in {a, NoFile}
              /\ \A f \in DOMAIN files : f # <<attempts[a].dir, other>> => files'[f] = files[f]
  BY WritesOneFile
<1>2. <<dir, name>> # <<attempts[a].dir, other>>
  OBVIOUS
<1>3. <<dir, name>> \in DOMAIN files' <=> <<dir, name>> \in DOMAIN files
  BY <1>1, <1>2
<1>4. <<dir, name>> \in DOMAIN files => files'[<<dir, name>>] = files[<<dir, name>>]
  BY <1>1, <1>2
<1> QED
  BY <1>3, <1>4 DEF FileAt

\* Only writing changes files, and only recording adds rows.
LEMMA StepTables ==
    ASSUME NEW a \in Attempts, AttemptStep(a)
    PROVE  /\ files' = files \/ writeJSON(a)
           /\ runs \subseteq runs'
           /\ caseRuns' = caseRuns \/ recordAPICaseRunRow(a)
           /\ evidence' = evidence \/ recordAPICaseEvidenceRecords(a)
BY DEF AttemptStep, Run, handleTestKitRun, writeJSON, executeHTTP, apiCaseEvidenceSummaries,
       recordWorkflowRunForAPICase, CreateRun, recordAPICaseRunRow, recordAPICaseEvidenceRecords, Fail

LEMMA ShownStep ==
    ASSUME Shape, Owned, Shown, NEW a \in Attempts, AttemptStep(a)
    PROVE  Shown'
<1>1. PICK t : Advance(a, t) /\ Stays(a, t)
  BY StepStays
<1>2. /\ attempts'[a] = t /\ \A x \in Attempts \ {a} : attempts'[x] = attempts[x]
      /\ Began(a)'
      /\ \A x \in Attempts :
            /\ Began(x) => Began(x)' /\ attempts'[x].dir = attempts[x].dir
            /\ Began(x) /\ Apart(x)' => Apart(x)
            /\ attempts[x].pc \in RecordedPcs => attempts'[x].pc \in RecordedPcs
  BY <1>1, Moved
<1>3. /\ files' = files \/ writeJSON(a)
      /\ runs \subseteq runs'
      /\ caseRuns' = caseRuns \/ recordAPICaseRunRow(a)
      /\ evidence' = evidence \/ recordAPICaseEvidenceRecords(a)
  BY StepTables
<1>4. Placed'
  BY <1>1, <1>2 DEF Shown, Placed, Stays, Began
<1>5. FilesPlaced'
  <2>1. CASE files' = files
    BY <1>2, <2>1 DEF Shown, FilesPlaced
  <2>2. CASE writeJSON(a)
    <3>1. PICK name :
              /\ DOMAIN files' = DOMAIN files \cup {<<attempts[a].dir, name>>}
              /\ files'[<<attempts[a].dir, name>>] \in {a, NoFile}
              /\ \A f \in DOMAIN files : f # <<attempts[a].dir, name>> => files'[f] = files[f]
      BY <2>2, WritesOneFile
    <3>2. Began(a) /\ NoFile \notin Attempts
      BY <2>2, CaseRunConstants DEF writeJSON, Began
    <3>3. <<attempts[a].dir, name>>[1] = attempts'[a].dir
      BY <1>2, <3>2
    <3> SUFFICES ASSUME NEW f \in DOMAIN files', files'[f] \in Attempts
                 PROVE  attempts'[files'[f]].pc # "new" /\ attempts'[files'[f]].dir = f[1]
      BY DEF FilesPlaced, Began
    <3>4. CASE f = <<attempts[a].dir, name>>
      <4>1. files'[f] = a
        BY <3>1, <3>2, <3>4
      <4> QED
        BY <1>2, <3>3, <3>4, <4>1 DEF Began
    <3>5. CASE f # <<attempts[a].dir, name>>
      <4>1. f \in DOMAIN files /\ files'[f] = files[f] /\ files[f] \in Attempts
        BY <3>1, <3>5
      <4>2. Began(files[f]) /\ attempts[files[f]].dir = f[1]
        BY <4>1 DEF Shown, FilesPlaced
      <4> QED
        BY <1>2, <4>1, <4>2 DEF Began
    <3> QED
      BY <3>4, <3>5
  <2> QED
    BY <1>3, <2>1, <2>2
<1>6. SummariesOwn'
  <2> SUFFICES ASSUME NEW x \in Attempts, attempts'[x].pc \in Recording, Apart(x)'
               PROVE  attempts'[x].summary = x
    BY DEF SummariesOwn
  <2>1. CASE attempts[x].pc \in Recording /\ attempts'[x].summary = attempts[x].summary
    <3>1. Began(x)
      BY <2>1 DEF Began, Recording
    <3> QED
      BY <1>2, <2>1, <3>1 DEF Shown, SummariesOwn
  <2>2. CASE x = a /\ apiCaseEvidenceSummaries(a)
    <3>1. /\ Began(a) /\ (attempts[a].kind # "kit" => FileAt(attempts[a].dir, "request") # NoFile)
          /\ attempts[a] \in AttemptRecord
      BY <2>2 DEF apiCaseEvidenceSummaries, Began, Shape, AttemptRecord
    <3>2. PICK summary : summary = IF attempts[a].kind = "kit" THEN a ELSE FileAt(attempts[a].dir, "request")
      OBVIOUS
    <3>3. attempts'[a] = [attempts[a] EXCEPT !.pc = "run", !.summary = summary]
      BY <2>2, <3>2 DEF apiCaseEvidenceSummaries, Advance, Shape
    <3>4. attempts'[a].summary = summary
      BY <3>1, <3>3 DEF AttemptRecord
    <3>5. summary = a
      BY <1>2, <2>2, <3>1, <3>2, FileIsOwn DEF Shown
    <3> QED
      BY <2>2, <3>4, <3>5
  <2> QED
    BY <1>1, <1>2, <2>1, <2>2 DEF Stays
<1>7. CaseRunsOwn'
  <2> SUFFICES ASSUME NEW row \in caseRuns', row.by \in Attempts
               PROVE  /\ row.id = apiCaseRunRecordID(row.run) /\ Began(row.by)'
                      /\ \E r \in runs' : r.id = row.run /\ r.by = row.by
                      /\ Apart(row.by)' => row.request = row.by
    BY DEF CaseRunsOwn, Began, Apart
  <2>1. CASE row \in caseRuns
    BY <1>2, <1>3, <2>1 DEF Shown, CaseRunsOwn
  <2>2. CASE row \notin caseRuns
    <3>1. recordAPICaseRunRow(a)
      BY <1>3, <2>2
    <3>2. /\ attempts[a].pc = "case" /\ row.id = apiCaseRunRecordID(attempts[a].id)
          /\ row.run = attempts[a].id /\ row.by = a /\ row.request = attempts[a].summary
      BY <2>2, <3>1 DEF recordAPICaseRunRow, RecordAPICaseRun
    <3>3. Began(a) /\ attempts[a].pc \in Recording
      BY <3>2 DEF Began, Recording
    <3>4. \E r \in runs : r.id = attempts[a].id /\ r.by = a
      BY <3>2 DEF Owned, RecordersOwnRun
    <3> QED
      BY <1>2, <1>3, <3>2, <3>3, <3>4 DEF Shown, SummariesOwn
  <2> QED
    BY <2>1, <2>2
<1>8. EvidenceOwn'
  <2> SUFFICES ASSUME NEW row \in evidence', row.by \in Attempts
               PROVE  /\ attempts'[row.by].pc \in RecordedPcs
                      /\ row.dir = attempts'[row.by].dir
                      /\ Apart(row.by)' => row.summary = row.by /\ FileAt(row.dir, row.name)' = row.by
    BY DEF EvidenceOwn, Apart, FileAt
  <2>1. CASE row \in evidence
    <3>1. /\ attempts[row.by].pc \in RecordedPcs /\ row.dir = attempts[row.by].dir
          /\ Apart(row.by) => row.summary = row.by /\ FileAt(row.dir, row.name) = row.by
      BY <2>1 DEF Shown, EvidenceOwn
    <3>2. Began(row.by)
      BY <3>1 DEF Began, RecordedPcs
    <3>3. ASSUME Apart(row.by) PROVE FileAt(row.dir, row.name)' = FileAt(row.dir, row.name)
      <4>1. CASE files' = files
        BY <4>1 DEF FileAt
      <4>2. CASE writeJSON(a)
        <5>1. attempts[a].pc \in {"before", "after"}
          BY <4>2 DEF writeJSON
        <5>2. a # row.by /\ Began(a)
          BY <3>1, <5>1 DEF RecordedPcs, Began
        <5>3. row.dir # attempts[a].dir
          BY <3>1, <3>3, <5>2 DEF Apart
        <5> QED
          BY <4>2, <5>3, FileStays
      <4> QED
        BY <1>3, <4>1, <4>2
    <3> QED
      BY <1>2, <3>1, <3>2, <3>3
  <2>2. CASE row \notin evidence
    <3>1. recordAPICaseEvidenceRecords(a)
      BY <1>3, <2>2
    <3>2. /\ attempts[a].pc = "evidence" /\ row.by = a /\ row.dir = attempts[a].dir
          /\ row.summary = FileAt(attempts[a].dir, row.name) /\ row.summary # NoFile
          /\ files' = files
      BY <2>2, <3>1 DEF recordAPICaseEvidenceRecords, RecordEvidence
    <3>3. Began(a) /\ attempts[a].pc \in RecordedPcs
      BY <3>2 DEF Began, RecordedPcs
    <3>4. FileAt(row.dir, row.name)' = FileAt(row.dir, row.name)
      BY <3>2 DEF FileAt
    <3>5. Apart(a) => row.summary = a
      BY <3>2, FileIsOwn DEF Shown
    <3> QED
      BY <1>2, <3>2, <3>3, <3>4, <3>5
  <2> QED
    BY <2>1, <2>2
<1> QED
  BY <1>4, <1>5, <1>6, <1>7, <1>8 DEF Shown

\* Nothing that an import adds is of an attempt.
LEMMA ShownOtherwise ==
    ASSUME Shown,
           \/ ImportLegacyRuntime \/ createRunIfMissing \/ ImportCaseRun \/ ImportEvidence
           \/ ImportFails \/ UNCHANGED caseRunVars
    PROVE  Shown'
<1>1. /\ UNCHANGED <<files, attempts>> /\ runs \subseteq runs'
      /\ \A row \in caseRuns' : row \in caseRuns \/ row.by = Importer
      /\ \A row \in evidence' : row \in evidence \/ row.by = Importer
  BY DEF ImportLegacyRuntime, createRunIfMissing, CreateRun, ImportCaseRun, RecordAPICaseRun,
         ImportEvidence, RecordEvidence, ImportFails, caseRunVars
<1>2. Importer \notin Attempts
  BY CaseRunConstants
<1>3. Placed' /\ FilesPlaced' /\ SummariesOwn'
  BY <1>1 DEF Shown, Placed, FilesPlaced, SummariesOwn, Began, Apart
<1>4. CaseRunsOwn'
  BY <1>1, <1>2 DEF Shown, CaseRunsOwn, Began, Apart
<1>5. EvidenceOwn'
  BY <1>1, <1>2 DEF Shown, EvidenceOwn, Began, Apart, FileAt
<1> QED
  BY <1>3, <1>4, <1>5 DEF Shown

LEMMA ShownInit == CaseRunInit => Shown
BY DEF CaseRunInit, Shown, Placed, FilesPlaced, SummariesOwn, CaseRunsOwn, EvidenceOwn, NoCaseRun,
       Began, Recording

\* Under the premise of OwnEvidenceShown an attempt is apart.
LEMMA AloneIsApart ==
    ASSUME Shape, Placed, NEW a \in Attempts, Began(a),
           \A b \in Attempts \ {a} :
               attempts[b].id # attempts[a].id \/ attempts[b].dir[1] = "temporary"
    PROVE  Apart(a)
<1> SUFFICES ASSUME NEW b \in Attempts \ {a}, Began(b), attempts[b].dir = attempts[a].dir
             PROVE  FALSE
  BY DEF Apart
<1>1. /\ attempts[a].dir \in {<<"cases", attempts[a].id>>, <<"temporary", a>>}
      /\ attempts[b].dir \in {<<"cases", attempts[b].id>>, <<"temporary", b>>}
  BY DEF Placed, caseRunEvidencePath
<1>2. attempts[b].dir # <<"temporary", b>>
  <2> SUFFICES ASSUME attempts[b].dir = <<"temporary", b>> PROVE FALSE
    OBVIOUS
  <2>1. <<"temporary", b>> \in {<<"cases", attempts[a].id>>, <<"temporary", a>>}
    BY <1>1
  <2> QED
    BY <2>1
<1>3. attempts[b].dir = <<"cases", attempts[b].id>>
  BY <1>1, <1>2
<1>4. attempts[b].dir[1] = "cases"
  BY <1>3
<1>5. attempts[b].id # attempts[a].id
  BY <1>4
<1>6. <<"cases", attempts[b].id>> \in {<<"cases", attempts[a].id>>, <<"temporary", a>>}
  BY <1>1, <1>3
<1> QED
  BY <1>5, <1>6

LEMMA ShownIsOwn ==
    ASSUME Shape, Owned, Shown
    PROVE  OwnEvidenceShown
<1> SUFFICES ASSUME NEW item \in caseRuns, item.by \in Attempts,
                    \A a \in Attempts \ {item.by} :
                        attempts[a].id # attempts[item.by].id \/ attempts[a].dir[1] = "temporary"
             PROVE  caseEvidencePayload(item) = {item.by}
  BY DEF OwnEvidenceShown
<1>1. /\ item.id = apiCaseRunRecordID(item.run) /\ Began(item.by)
      /\ \E r \in runs : r.id = item.run /\ r.by = item.by
      /\ Apart(item.by) => item.request = item.by
  BY DEF Shown, CaseRunsOwn
<1>2. Apart(item.by)
  BY <1>1, AloneIsApart DEF Shown
<1>3. PICK aRun \in runs : aRun.id = item.run /\ aRun.by = item.by
  BY <1>1
<1>4. \A r \in runs : r.id = item.run => r.by = item.by
  BY <1>3 DEF Owned, OneRunPerId
<1>5. \A r \in evidence : r.caseRun = item.id => r.by = item.by
  <2>1. RowsOfOneAttempt
    BY OwnedIsRowsOfOneAttempt
  <2> QED
    BY <1>1, <1>3, <2>1 DEF RowsOfOneAttempt
<1>6. \A r \in evidence :
        r.caseRun = item.id => r.summary = item.by /\ FileAt(r.dir, r.name) = item.by
  BY <1>2, <1>5 DEF Shown, EvidenceOwn
<1>7. {r.by : r \in {r \in runs : r.id = item.run}} = {item.by}
  BY <1>3, <1>4
<1>8. item.request = item.by
  BY <1>1, <1>2
<1> QED
  BY <1>6, <1>7, <1>8 DEF caseEvidencePayload

\* A reader of a case run is shown only what its own attempt sent and received, as long as no
\* other attempt took its id and its directory (OwnEvidenceShown): for any number of attempts,
\* torn files and imports.
THEOREM ReadersSeeOneAttempt == CaseRunSpec => []OwnEvidenceShown
<1>1. CaseRunInit => Shape /\ Owned /\ Shown
  BY ShapeInit, OwnedInit, ShownInit
<1>2. Shape /\ Owned /\ Shown /\ [CaseRunNext]_caseRunVars => Shape' /\ Owned' /\ Shown'
  <2>1. Shape /\ Owned /\ Shown /\ [CaseRunNext]_caseRunVars => Shown'
    BY ShownStep, ShownOtherwise DEF CaseRunNext, AttemptStep
  <2> QED
    BY <2>1, ShapeStep, OwnedStep
<1> QED
  BY <1>1, <1>2, ShownIsOwn, PTL DEF CaseRunSpec

-----------------------------------------------------------------------------
(* Types of case runs.                                                     *)

\* Who began has an id.
Identified == \A a \in Attempts : Began(a) => attempts[a].id \in RunIds

\* The import is at a row.
Importing ==
    /\ importer \in [pc : {"idle", "row", "case", "evidence"}, row : Nat]
    /\ importer.pc # "idle" => importer.row \in 1 .. Len(LegacyRows)

RowsTyped ==
    /\ \A row \in runs : row.id \in RunIds \cup {r.run : r \in ToSet(LegacyRows)} /\ row.by \in Writers
    /\ \A row \in caseRuns : row.run \in RunIdsOf(runs) /\ row.by \in Writers /\ row.request \in Writers
    /\ \A row \in evidence : row.run \in RunIdsOf(runs) /\ row.by \in Writers /\ row.summary \in Writers

RunTypes == Shape /\ Identified /\ Importing /\ RowsTyped

LEMMA EveryNameIs == EveryName = NamesOf("file")
<1>1. NamesOf("file") = {Names[i] : i \in 1 .. 5}
  BY DEF NamesOf
<1>2. /\ Names[1] = "case" /\ Names[2] = "request" /\ Names[3] = "response"
      /\ Names[4] = "assertions"
  BY DEF Names
<1>3. {"case", "request", "response", "assertions"} \subseteq NamesOf("file")
  <2>1. Names[1] \in NamesOf("file") /\ Names[2] \in NamesOf("file") /\ Names[3] \in NamesOf("file")
        /\ Names[4] \in NamesOf("file")
    BY <1>1
  <2> QED
    BY <1>2, <2>1
<1> QED
  BY <1>3 DEF EveryName, NamesOf, Requested

LEMMA RunTypesInit == CaseRunInit => RunTypes
<1> SUFFICES ASSUME CaseRunInit PROVE RunTypes
  OBVIOUS
<1>1. \A a \in Attempts : attempts[a].pc = "new"
  BY DEF CaseRunInit, NoCaseRun
<1> QED
  BY <1>1, ShapeInit DEF RunTypes, Identified, Began, Importing, RowsTyped, CaseRunInit

\* An attempt takes an id where it begins, and keeps it.
LEMMA IdentifiedStep ==
    ASSUME Shape, Identified, NEW a \in Attempts, AttemptStep(a)
    PROVE  Identified' /\ attempts'[a].pc # "new"
<1>1. PICK t : Advance(a, t) /\ Stays(a, t)
  BY StepStays
<1>2. attempts'[a] = t /\ \A b \in Attempts \ {a} : attempts'[b] = attempts[b]
  BY <1>1 DEF Advance, Shape
<1>3. t.id \in RunIds
  <2>1. CASE Began(a)
    BY <1>1, <2>1 DEF Stays, Identified
  <2>2. CASE Run(a)
    <3>1. PICK id \in RunIds :
              Advance(a, [NoCaseRun EXCEPT !.pc = "before", !.id = id, !.dir = caseRunEvidencePath(id),
                                           !.todo = Requested])
      BY <2>2 DEF Run
    <3> DEFINE r == [NoCaseRun EXCEPT !.pc = "before", !.id = id, !.dir = caseRunEvidencePath(id),
                                      !.todo = Requested]
    <3>2. r.id = id
      BY DEF NoCaseRun
    <3>3. Advance(a, r)
      BY <3>1
    <3> HIDE DEF r
    <3> QED
      BY <1>2, <3>2, <3>3 DEF Advance, Shape
  <2>3. CASE handleTestKitRun(a)
    <3>1. PICK id \in RunIds : \E dir :
              Advance(a, [NoCaseRun EXCEPT !.pc = "after", !.kind = "kit", !.id = id, !.dir = dir,
                                           !.todo = NamesOf("kit")])
      BY <2>3 DEF handleTestKitRun
    <3>2. PICK dir :
              Advance(a, [NoCaseRun EXCEPT !.pc = "after", !.kind = "kit", !.id = id, !.dir = dir,
                                           !.todo = NamesOf("kit")])
      BY <3>1
    <3> DEFINE r == [NoCaseRun EXCEPT !.pc = "after", !.kind = "kit", !.id = id, !.dir = dir,
                                      !.todo = NamesOf("kit")]
    <3>3. r.id = id
      BY DEF NoCaseRun
    <3>4. Advance(a, r)
      BY <3>2
    <3> HIDE DEF r
    <3> QED
      BY <1>2, <3>3, <3>4 DEF Advance, Shape
  <2> QED
    BY <2>1, <2>2, <2>3 DEF AttemptStep, Began, writeJSON, executeHTTP, apiCaseEvidenceSummaries,
       recordWorkflowRunForAPICase, recordAPICaseRunRow, recordAPICaseEvidenceRecords, Fail
<1> QED
  BY <1>1, <1>2, <1>3 DEF Identified, Began, Stays

\* What a step of an attempt records.
LEMMA RowsStep ==
    ASSUME RunTypes, NEW a \in Attempts, AttemptStep(a)
    PROVE  RowsTyped' /\ importer' = importer
<1>0. attempts[a] \in AttemptRecord /\ a \in Writers
  BY DEF RunTypes, Shape, Writers
<1>1. ASSUME UNCHANGED <<runs, caseRuns, evidence>> PROVE RowsTyped'
  BY <1>1 DEF RunTypes, RowsTyped
<1>2. CASE UNCHANGED <<runs, caseRuns, evidence, importer>>
  BY <1>1, <1>2
<1>3. CASE recordWorkflowRunForAPICase(a)
  <2> DEFINE row == [id |-> attempts[a].id, by |-> a, dir |-> attempts[a].dir]
  <2>1. runs' = runs \cup {row} /\ UNCHANGED <<caseRuns, evidence, importer>>
    BY <1>3 DEF recordWorkflowRunForAPICase, CreateRun
  <2>2. row.id \in RunIds /\ row.by = a
    BY <1>3 DEF recordWorkflowRunForAPICase, RunTypes, Identified, Began
  <2> HIDE DEF row
  <2>3. RunIdsOf(runs) \subseteq RunIdsOf(runs')
    BY <2>1 DEF RunIdsOf
  <2> QED
    BY <1>0, <2>1, <2>2, <2>3 DEF RunTypes, RowsTyped
<1>4. CASE recordAPICaseRunRow(a)
  <2> DEFINE row == [id |-> apiCaseRunRecordID(attempts[a].id), run |-> attempts[a].id, by |-> a,
                     request |-> attempts[a].summary]
  <2>1. /\ caseRuns' = caseRuns \cup {row} /\ UNCHANGED <<runs, evidence, importer>>
        /\ row.run \in RunIdsOf(runs)
    BY <1>4 DEF recordAPICaseRunRow, RecordAPICaseRun
  <2>2. row.by = a /\ row.request \in Writers
    BY <1>0 DEF AttemptRecord, Writers
  <2> HIDE DEF row
  <2> QED
    BY <1>0, <2>1, <2>2 DEF RunTypes, RowsTyped
<1>5. CASE recordAPICaseEvidenceRecords(a)
  <2>1. PICK name :
            \/ RecordEvidence([id |-> <<attempts[a].id, name>>, run |-> attempts[a].id,
                               caseRun |-> apiCaseRunRecordID(attempts[a].id), by |-> a, name |-> name,
                               dir |-> attempts[a].dir, summary |-> FileAt(attempts[a].dir, name)])
            \/ UNCHANGED evidence
    BY <1>5 DEF recordAPICaseEvidenceRecords
  <2>2. UNCHANGED <<runs, caseRuns, importer>>
    BY <1>5 DEF recordAPICaseEvidenceRecords
  <2>3. CASE UNCHANGED evidence
    BY <1>1, <2>2, <2>3
  <2> DEFINE row == [id |-> <<attempts[a].id, name>>, run |-> attempts[a].id,
                     caseRun |-> apiCaseRunRecordID(attempts[a].id), by |-> a,
                     name |-> name, dir |-> attempts[a].dir, summary |-> FileAt(attempts[a].dir, name)]
  <2>4. CASE RecordEvidence(row)
    <3>1. evidence' = evidence \cup {row} /\ row.run \in RunIdsOf(runs)
      BY <2>4 DEF RecordEvidence
    <3>2. row.by = a /\ row.summary \in Writers
      BY <1>0, FileAtType DEF RunTypes, Writers
    <3> HIDE DEF row
    <3> QED
      BY <1>0, <2>2, <3>1, <3>2 DEF RunTypes, RowsTyped
  <2> QED
    BY <2>1, <2>3, <2>4
<1>6. ASSUME Run(a) \/ handleTestKitRun(a) PROVE UNCHANGED <<runs, caseRuns, evidence, importer>>
  BY <1>6 DEF Run, handleTestKitRun
<1>7. ASSUME writeJSON(a) PROVE UNCHANGED <<runs, caseRuns, evidence, importer>>
  BY <1>7 DEF writeJSON
<1>8. ASSUME executeHTTP(a) \/ apiCaseEvidenceSummaries(a) \/ Fail(a)
      PROVE  UNCHANGED <<runs, caseRuns, evidence, importer>>
  BY <1>8 DEF executeHTTP, apiCaseEvidenceSummaries, Fail
<1> QED
  BY <1>2, <1>3, <1>4, <1>5, <1>6, <1>7, <1>8 DEF AttemptStep

\* The import goes from row to row, and ends after the last.
LEMMA ImportStep ==
    ASSUME RunTypes,
           \/ ImportLegacyRuntime \/ createRunIfMissing \/ ImportCaseRun \/ ImportEvidence
           \/ ImportFails \/ UNCHANGED caseRunVars
    PROVE  Importing' /\ RowsTyped' /\ UNCHANGED attempts
<1>0. LegacyRows \in Seq([run : STRING, case : BOOLEAN, evidence : BOOLEAN]) /\ Importer \in Writers
      /\ NoFile \in Writers /\ Len(LegacyRows) \in Nat
  BY CaseRunConstants DEF Writers
<1>1. ASSUME NextRow, importer.pc # "idle" PROVE Importing'
  <2>1. importer.row \in 1 .. Len(LegacyRows)
    BY <1>1 DEF RunTypes, Importing
  <2> QED
    BY <1>0, <1>1, <2>1 DEF NextRow, Importing
<1>2. ASSUME NEW pc \in {"case", "evidence"}, importer' = [importer EXCEPT !.pc = pc], importer.pc # "idle"
      PROVE  Importing'
  BY <1>2 DEF RunTypes, Importing
<1>3. CASE ImportLegacyRuntime \/ ImportFails \/ UNCHANGED caseRunVars
  <2>1. RowsTyped' /\ UNCHANGED attempts
    BY <1>3 DEF ImportLegacyRuntime, ImportFails, caseRunVars, RunTypes, RowsTyped
  <2>2. LegacyRows # << >> => 1 \in 1 .. Len(LegacyRows)
    BY <1>0
  <2>3. Importing'
    BY <1>3, <2>2 DEF ImportLegacyRuntime, ImportFails, caseRunVars, RunTypes, Importing
  <2> QED
    BY <2>1, <2>3
<1>4. CASE createRunIfMissing
  <2>1. LegacyRow.run \in {r.run : r \in ToSet(LegacyRows)}
    <3>1. importer.row \in 1 .. Len(LegacyRows)
      BY <1>4 DEF createRunIfMissing, RunTypes, Importing
    <3>2. LegacyRows[importer.row] \in ToSet(LegacyRows)
      BY <1>0, <3>1 DEF ToSet
    <3> QED
      BY <3>2 DEF LegacyRow
  <2>2. Importing'
    BY <1>1, <1>2, <1>4 DEF createRunIfMissing
  <2>3. CASE UNCHANGED runs
    BY <1>4, <2>2, <2>3 DEF createRunIfMissing, RunTypes, RowsTyped
  <2> DEFINE row == [id |-> LegacyRow.run, by |-> Importer, dir |-> <<"legacy", importer.row>>]
  <2>4. CASE runs' = runs \cup {row}
    <3>1. row.id = LegacyRow.run /\ row.by = Importer
      OBVIOUS
    <3> HIDE DEF row
    <3>2. RunIdsOf(runs) \subseteq RunIdsOf(runs')
      BY <2>4 DEF RunIdsOf
    <3> QED
      BY <1>0, <1>4, <2>1, <2>2, <2>4, <3>1, <3>2 DEF createRunIfMissing, RunTypes, RowsTyped
  <2> QED
    BY <1>4, <2>3, <2>4 DEF createRunIfMissing, CreateRun
<1>5. CASE ImportCaseRun
  <2> DEFINE row == [id |-> <<"legacy", importer.row>>, run |-> LegacyRow.run, by |-> Importer,
                     request |-> NoFile]
  <2>1. /\ caseRuns' = caseRuns \cup {row} /\ UNCHANGED <<runs, evidence, attempts>>
        /\ row.run \in RunIdsOf(runs) /\ row.by = Importer /\ row.request = NoFile
    BY <1>5 DEF ImportCaseRun, RecordAPICaseRun
  <2>2. Importing'
    BY <1>1, <1>2, <1>5 DEF ImportCaseRun
  <2> HIDE DEF row
  <2> QED
    BY <1>0, <2>1, <2>2 DEF RunTypes, RowsTyped
<1>6. CASE ImportEvidence
  <2> DEFINE row == [id |-> <<"legacy", importer.row>>, run |-> LegacyRow.run,
                     caseRun |-> <<"legacy", importer.row>>, by |-> Importer, name |-> "case-run",
                     dir |-> <<"legacy", importer.row>>, summary |-> NoFile]
  <2>1. /\ evidence' = evidence \cup {row} /\ UNCHANGED <<runs, caseRuns, attempts>>
        /\ row.run \in RunIdsOf(runs) /\ row.by = Importer /\ row.summary = NoFile
    BY <1>6 DEF ImportEvidence, RecordEvidence
  <2>2. Importing'
    BY <1>1, <1>6 DEF ImportEvidence
  <2> HIDE DEF row
  <2> QED
    BY <1>0, <2>1, <2>2 DEF RunTypes, RowsTyped
<1> QED
  BY <1>3, <1>4, <1>5, <1>6

LEMMA RunTypesStep == RunTypes /\ [CaseRunNext]_caseRunVars => RunTypes'
<1> SUFFICES ASSUME RunTypes, [CaseRunNext]_caseRunVars PROVE RunTypes'
  OBVIOUS
<1>1. Shape'
  BY ShapeStep DEF RunTypes
<1>2. ASSUME NEW a \in Attempts, AttemptStep(a) PROVE RunTypes'
  BY <1>1, <1>2, IdentifiedStep, RowsStep DEF RunTypes, Importing
<1>3. CASE \/ ImportLegacyRuntime \/ createRunIfMissing \/ ImportCaseRun \/ ImportEvidence
           \/ ImportFails \/ UNCHANGED caseRunVars
  BY <1>1, <1>3, ImportStep DEF RunTypes, Identified, Began
<1> QED
  BY <1>2, <1>3 DEF CaseRunNext, AttemptStep

\* Rows name runs that are there and writers that are known (CaseRunTypeOK), for every number
\* of attempts, ids and imported rows.
THEOREM CaseRunsKeepTypes == CaseRunSpec => []CaseRunTypeOK
<1>1. RunTypes => CaseRunTypeOK
  <2> SUFFICES ASSUME RunTypes PROVE CaseRunTypeOK
    OBVIOUS
  <2>1. ASSUME NEW a \in Attempts
        PROVE  /\ attempts[a].pc \in {"new", "before", "after", "run", "case", "evidence", "failed", "ended"}
               /\ attempts[a].todo \subseteq NamesOf("file")
    BY EveryNameIs DEF RunTypes, Shape, AttemptRecord
  <2> QED
    BY <2>1 DEF RunTypes, Shape, Importing, RowsTyped, CaseRunTypeOK
<1> QED
  BY <1>1, RunTypesInit, RunTypesStep, PTL DEF CaseRunSpec

-----------------------------------------------------------------------------
(* Sequences of the members of a set.                                      *)

\* The sequences of the members of a set: each once.
LEMMA SequencesOfSet ==
    ASSUME NEW S, IsFiniteSet(S), NEW s \in SetToSeqs(S)
    PROVE  /\ s \in Seq(S) /\ Len(s) = Cardinality(S) /\ DOMAIN s = 1 .. Cardinality(S)
           /\ \A i, j \in DOMAIN s : s[i] = s[j] => i = j
           /\ \A x \in S : \E i \in DOMAIN s : s[i] = x
<1>1. PICK n : n = Cardinality(S)
  OBVIOUS
<1>2. n \in Nat
  BY <1>1, FS_CardinalityType
<1>3. s \in [1 .. n -> S] /\ \A i, j \in 1 .. n : i # j => s[i] # s[j]
  BY <1>1 DEF SetToSeqs
<1>4. s \in Injection(1 .. n, S)
  BY <1>3 DEF Injection, IsInjective
<1>5. IsFiniteSet(1 .. n) /\ Cardinality(1 .. n) = n
  BY <1>2, FS_Interval
<1>6. s \in Surjection(1 .. n, S)
  BY <1>1, <1>4, <1>5, FS_Injection
<1>7. \A x \in S : \E i \in 1 .. n : s[i] = x
  BY <1>6 DEF Surjection
<1>8. s \in Seq(S) /\ Len(s) = n /\ DOMAIN s = 1 .. n
  BY <1>2, <1>3
<1> QED
  BY <1>1, <1>3, <1>7, <1>8

\* One of them has the members in the order of their numbers.
LEMMA Sorting ==
    ASSUME NEW S, IsFiniteSet(S), NEW f \in [S -> Nat],
           \A x, y \in S : f[x] = f[y] => x = y
    PROVE  \E s \in SetToSeqs(S) : \A i, j \in DOMAIN s : i < j => f[s[i]] < f[s[j]]
<1>1. PICK n : n = Cardinality(S)
  OBVIOUS
<1>2. n \in Nat
  BY <1>1, FS_CardinalityType
<1>3. PICK r : r = [x \in S |-> Cardinality(Before(S, f, x))]
  OBVIOUS
<1>4. /\ r \in [S -> 0 .. n - 1]
      /\ \A x, y \in S : r[x] = r[y] => x = y
      /\ \A i \in 0 .. n - 1 : \E x \in S : r[x] = i
  <2>1. /\ \A x \in S : Cardinality(Before(S, f, x)) \in 0 .. n - 1
        /\ \A x, y \in S : Cardinality(Before(S, f, x)) = Cardinality(Before(S, f, y)) => x = y
        /\ \A i \in 0 .. n - 1 : \E x \in S : Cardinality(Before(S, f, x)) = i
    BY <1>1, Ranks
  <2> QED
    BY <1>3, <2>1
<1>5. ASSUME NEW x \in S, NEW y \in S, r[x] < r[y] PROVE f[x] < f[y]
  <2>1. r[x] \in 0 .. n - 1 /\ r[y] \in 0 .. n - 1 /\ f[x] \in Nat /\ f[y] \in Nat
    BY <1>4
  <2>2. x # y /\ f[x] # f[y]
    BY <1>2, <1>5, <2>1
  <2>3. f[y] < f[x] => r[y] < r[x]
    BY <1>3, BeforeGrows
  <2> QED
    BY <1>2, <1>5, <2>1, <2>2, <2>3
<1>6. PICK s : s = [i \in 1 .. n |-> CHOOSE x \in S : r[x] = i - 1]
  OBVIOUS
<1>7. ASSUME NEW i \in 1 .. n PROVE s[i] \in S /\ r[s[i]] = i - 1
  <2>1. i - 1 \in 0 .. n - 1
    BY <1>2
  <2> QED
    BY <1>4, <1>6, <2>1
<1>8. ASSUME NEW i \in 1 .. n, NEW j \in 1 .. n, i # j PROVE s[i] # s[j]
  <2>1. i - 1 # j - 1
    BY <1>2, <1>8
  <2> QED
    BY <1>7, <2>1
<1>9. s \in SetToSeqs(S)
  <2>1. s \in [1 .. n -> S]
    BY <1>6, <1>7
  <2> QED
    BY <1>1, <1>8, <2>1 DEF SetToSeqs
<1>10. ASSUME NEW i \in 1 .. n, NEW j \in 1 .. n, i < j PROVE f[s[i]] < f[s[j]]
  <2>1. r[s[i]] < r[s[j]]
    BY <1>7, <1>10
  <2> QED
    BY <1>5, <1>7, <2>1
<1>11. DOMAIN s = 1 .. n
  BY <1>6
<1> QED
  BY <1>9, <1>10, <1>11

-----------------------------------------------------------------------------
(* Reports about suites.                                                   *)

SuiteRecord == [run : 1 .. MaxRuns, case : CaseIds, status : RunStatuses \cup {"passed", "failed"}]

SuiteReports ==
    [kind : {"none", "plan", "impact", "priority", "quality"}, signal : Signals \cup {NoImpact},
     limit : Nat, first : Nat]

SuiteReaders ==
    [pc : {"idle", "list", "runs", "configs", "done"}, part : {"coverage", "stability"},
     report : SuiteReports, listed : SUBSET (1 .. MaxRuns), read : SUBSET Nat,
     covered : SUBSET Nat, configs : SUBSET CaseIds, recent : SUBSET Nat, loaded : SUBSET CaseIds]

SuiteCommands ==
    [pc : {"idle", "loaded", "run"}, loaded : SUBSET CaseIds, derived : SUBSET CaseIds,
     todo : Seq(CaseIds), run : 0 .. MaxRuns]

\* A run records one case, and only records of stored runs exist.
RecordsInv ==
    /\ suiteRuns \subseteq 1 .. MaxRuns
    /\ records \in Seq(SuiteRecord)
    /\ \A i \in DOMAIN records : records[i].run \in suiteRuns
    /\ \A i, j \in DOMAIN records : records[i].run = records[j].run => i = j

SuitesTyped ==
    /\ configs \in SUBSET CaseIds
    /\ reader \in SuiteReaders
    /\ reader.read \cup reader.covered \cup reader.recent \subseteq DOMAIN records
    /\ command \in SuiteCommands

\* What was recorded before the report is read: the records in the runs to visit, or read.
ReadSoFar ==
    /\ reader.report.first <= Len(records)
    /\ reader.pc \in {"list", "configs"} => reader.read = {}
    /\ reader.pc = "runs" =>
          \A i \in 1 .. reader.report.first : records[i].run \in reader.listed \/ i \in reader.read
    /\ reader.report.kind # "quality" /\ (reader.part = "stability" \/ reader.pc \in {"configs", "done"}) =>
          1 .. reader.report.first \subseteq reader.covered

SuitesInv == RecordsInv /\ SuitesTyped /\ ReadSoFar

LEMMA SuitesInitInv == CaseSuitesInit => SuitesInv
<1> SUFFICES ASSUME CaseSuitesInit PROVE SuitesInv
  OBVIOUS
<1>1. /\ suiteRuns = {} /\ records = << >> /\ configs = {} /\ reader = NoReader
      /\ command = NoCommandReport
  BY DEF CaseSuitesInit
<1>2. Len(records) = 0 /\ records \in Seq(SuiteRecord) /\ DOMAIN records = {}
  BY <1>1
<1>3. reader \in SuiteReaders
  BY <1>1 DEF NoReader, NoReport, SuiteReaders, SuiteReports
<1>4. command \in SuiteCommands
  BY <1>1, CaseSuitesConstants DEF NoCommandReport, SuiteCommands
<1>5. RecordsInv
  BY <1>1, <1>2 DEF RecordsInv
<1>6. SuitesTyped
  BY <1>1, <1>2, <1>3, <1>4 DEF SuitesTyped, NoReader
<1>7. ReadSoFar
  BY <1>1, <1>2 DEF ReadSoFar, NoReader, NoReport
<1> QED
  BY <1>5, <1>6, <1>7 DEF SuitesInv

-----------------------------------------------------------------------------
\* The cases a report runs.
LEMMA CasesFinite == ASSUME NEW S \in SUBSET CaseIds PROVE IsFiniteSet(S)
BY CaseSuitesConstants, FS_Subset

LEMMA SelectedCases ==
    ASSUME NEW chosen \in SUBSET CaseIds PROVE SelectCases(chosen) \in Seq(CaseIds)
<1> DEFINE Precedes(a, b) == \/ SuiteCases[a].node < SuiteCases[b].node
                             \/ SuiteCases[a].node = SuiteCases[b].node /\ a < b
           R == {p \in chosen \X chosen : Precedes(p[1], p[2])}
<1>1. IsFiniteSet(chosen)
  BY CasesFinite
<1>2. \A a \in chosen : SuiteCases[a].node \in Nat /\ a \in Nat
  BY CaseSuitesConstants
<1>3. \A a, b \in chosen : <<a, b>> \in R <=> Precedes(a, b)
  OBVIOUS
<1>4. PICK f \in [chosen -> Nat] :
          /\ \A x, y \in chosen : f[x] = f[y] => x = y
          /\ \A x, y \in chosen : <<x, y>> \in R <=> f[x] < f[y]
  <2>1. \A x, y, z \in chosen : <<x, y>> \in R /\ <<y, z>> \in R => <<x, z>> \in R
    <3> SUFFICES ASSUME NEW x \in chosen, NEW y \in chosen, NEW z \in chosen,
                        Precedes(x, y), Precedes(y, z)
                 PROVE  Precedes(x, z)
      BY <1>3
    <3> QED
      BY <1>2
  <2>2. \A x \in chosen : <<x, x>> \notin R
    BY <1>2, <1>3
  <2>3. \A x, y \in chosen : x # y => <<x, y>> \in R \/ <<y, x>> \in R
    BY <1>2, <1>3
  <2> HIDE DEF R
  <2> QED
    BY <1>1, <2>1, <2>2, <2>3, NumbersOfOrder
<1>5. \E s \in SetToSeqs(chosen) : \A i, j \in DOMAIN s : i < j => Precedes(s[i], s[j])
  <2>1. PICK s \in SetToSeqs(chosen) : \A i, j \in DOMAIN s : i < j => f[s[i]] < f[s[j]]
    BY <1>1, <1>4, Sorting
  <2>2. \A i \in DOMAIN s : s[i] \in chosen
    BY <1>1, SequencesOfSet
  <2>3. \A i, j \in DOMAIN s : i < j => Precedes(s[i], s[j])
    <3> HIDE DEF Precedes, R
    <3> QED
      BY <1>3, <1>4, <2>1, <2>2
  <2> QED
    BY <2>3
<1>6. SelectCases(chosen) \in SetToSeqs(chosen)
  BY <1>5 DEF SelectCases, SortedBy
<1>7. SelectCases(chosen) \in Seq(chosen)
  BY <1>1, <1>6, SequencesOfSet
<1> QED
  BY <1>7

LEMMA BoundCases ==
    ASSUME NEW workflow PROVE runnableWorkflowCases(workflow) \in Seq(CaseIds)
<1> DEFINE S == {i \in DOMAIN SuiteBindings :
                    SuiteBindings[i].workflow = workflow /\ SuiteBindings[i].case # Unbound}
           bound == SortedBy(S, LAMBDA i, j : i < j)
<1>1. /\ Len(SuiteBindings) \in Nat /\ DOMAIN SuiteBindings = 1 .. Len(SuiteBindings)
      /\ \A i \in DOMAIN SuiteBindings : SuiteBindings[i].case \in CaseIds \cup {Unbound}
  <2>1. PICK W : W = {SuiteBindings[i].workflow : i \in DOMAIN SuiteBindings}
    OBVIOUS
  <2>2. PICK B : B = [workflow : W, node : Nat, case : CaseIds \cup {Unbound}]
    OBVIOUS
  <2>3. SuiteBindings \in Seq(B)
    BY <2>1, <2>2, CaseSuitesConstants
  <2>4. /\ Len(SuiteBindings) \in Nat /\ DOMAIN SuiteBindings = 1 .. Len(SuiteBindings)
        /\ \A i \in DOMAIN SuiteBindings : SuiteBindings[i] \in B
    BY <2>3
  <2> QED
    BY <2>2, <2>4
<1>2. IsFiniteSet(S) /\ S \subseteq Nat
  <2>1. IsFiniteSet(1 .. Len(SuiteBindings)) /\ S \in SUBSET (1 .. Len(SuiteBindings))
    BY <1>1, FS_Interval
  <2> QED
    BY <1>1, <2>1, FS_Subset
<1>3. PICK f \in [S -> Nat] : f = [i \in S |-> i]
  BY <1>2
<1>4. \A x, y \in S : f[x] = f[y] => x = y
  BY <1>3
<1>5. \E s \in SetToSeqs(S) : \A i, j \in DOMAIN s : i < j => s[i] < s[j]
  <2>1. PICK s \in SetToSeqs(S) : \A i, j \in DOMAIN s : i < j => f[s[i]] < f[s[j]]
    <3> HIDE DEF S
    <3> QED
      BY <1>2, <1>4, Sorting
  <2>2. \A i \in DOMAIN s : s[i] \in S
    <3> HIDE DEF S
    <3> QED
      BY <1>2, SequencesOfSet
  <2> QED
    BY <1>3, <2>1, <2>2
<1>6. bound \in SetToSeqs(S)
  BY <1>5 DEF SortedBy
<1>7. bound \in Seq(S)
  <2> HIDE DEF S, bound
  <2> QED
    BY <1>2, <1>6, SequencesOfSet
<1>8. runnableWorkflowCases(workflow) = [i \in DOMAIN bound |-> SuiteBindings[bound[i]].case]
  BY DEF runnableWorkflowCases
<1>9. \A i \in DOMAIN bound : SuiteBindings[bound[i]].case \in CaseIds
  <2> HIDE DEF bound
  <2> QED
    BY <1>1, <1>7
<1>10. Len(bound) \in Nat /\ DOMAIN bound = 1 .. Len(bound)
  <2> HIDE DEF S, bound
  <2> QED
    BY <1>7
<1> HIDE DEF S, bound
<1> QED
  BY <1>8, <1>9, <1>10

-----------------------------------------------------------------------------
\* Making a report: the reader moves, the Store stays.
LEMMA ReaderMoves ==
    ASSUME SuitesInv, NEW next \in SuiteReaders, Reads(next),
           next.read \cup next.covered \cup next.recent \subseteq DOMAIN records,
           ReadSoFar'
    PROVE  SuitesInv'
<1>1. RecordsInv'
  BY DEF SuitesInv, RecordsInv, Reads
<1>2. SuitesTyped'
  BY DEF SuitesInv, SuitesTyped, Reads
<1> QED
  BY <1>1, <1>2 DEF SuitesInv

LEMMA ReportBegins ==
    ASSUME SuitesInv, BeginReport PROVE SuitesInv'
<1>1. PICK kind \in {"plan", "impact", "priority", "quality"},
           signal \in (Signals \cup {NoImpact}), limit \in Limits :
          Reads([NoReader EXCEPT !.pc = IF kind = "quality" THEN "configs" ELSE "list",
                       !.loaded = IF kind = "impact" THEN configs ELSE {},
                       !.report = [kind |-> kind, signal |-> signal, limit |-> limit,
                                   first |-> Len(records)]])
  BY DEF BeginReport
<1>2. PICK next : next = [NoReader EXCEPT !.pc = IF kind = "quality" THEN "configs" ELSE "list",
                       !.loaded = IF kind = "impact" THEN configs ELSE {},
                       !.report = [kind |-> kind, signal |-> signal, limit |-> limit,
                                   first |-> Len(records)]]
  OBVIOUS
<1>3. Len(records) \in Nat /\ limit \in Nat /\ configs \in SUBSET CaseIds
  BY CaseSuitesConstants DEF SuitesInv, RecordsInv, SuitesTyped
<1>4. next.report \in SuiteReports
  BY <1>2, <1>3 DEF NoReader, SuiteReports
<1>5. next \in SuiteReaders
  BY <1>2, <1>3, <1>4 DEF NoReader, SuiteReaders
<1>6. /\ next.report.first = Len(records) /\ next.report.kind = kind
      /\ next.read = {} /\ next.covered = {} /\ next.recent = {} /\ next.part = "coverage"
      /\ next.pc = IF kind = "quality" THEN "configs" ELSE "list"
  BY <1>2 DEF NoReader
<1>7. reader' = next /\ UNCHANGED records
  BY <1>1, <1>2 DEF Reads
<1>8. ReadSoFar'
  BY <1>3, <1>6, <1>7 DEF ReadSoFar
<1>9. Reads(next)
  BY <1>1, <1>2
<1> QED
  BY <1>5, <1>6, <1>8, <1>9, ReaderMoves

LEMMA ReportReads ==
    ASSUME SuitesInv, ListRuns \/ ListAPICaseRuns \/ RecordsForCaseIDs \/ ReadExecutionConfigs
    PROVE  SuitesInv'
<1>0. /\ reader \in SuiteReaders /\ suiteRuns \subseteq 1 .. MaxRuns /\ configs \in SUBSET CaseIds
      /\ records \in Seq(SuiteRecord) /\ Len(records) \in Nat /\ DOMAIN records = 1 .. Len(records)
      /\ reader.read \cup reader.covered \cup reader.recent \subseteq DOMAIN records
      /\ reader.report.first \in Nat /\ reader.report.first <= Len(records)
  BY DEF SuitesInv, RecordsInv, SuitesTyped, ReadSoFar, SuiteReaders, SuiteReports
<1>1. CASE ListRuns
  <2>1. PICK next : next = [reader EXCEPT !.pc = "runs", !.listed = suiteRuns]
    OBVIOUS
  <2>2. reader.pc = "list" /\ Reads(next)
    BY <1>1, <2>1 DEF ListRuns
  <2>3. next \in SuiteReaders
    BY <1>0, <2>1 DEF SuiteReaders
  <2>4. /\ next.report = reader.report /\ next.pc = "runs" /\ next.part = reader.part
        /\ next.listed = suiteRuns /\ next.read = reader.read /\ next.covered = reader.covered
        /\ next.recent = reader.recent
    BY <1>0, <2>1 DEF SuiteReaders
  <2>5. reader' = next /\ UNCHANGED records
    BY <2>2 DEF Reads
  <2>6. ReadSoFar'
    <3>1. \A i \in 1 .. reader.report.first : records[i].run \in suiteRuns
      BY <1>0 DEF SuitesInv, RecordsInv
    <3> QED
      BY <2>2, <2>4, <2>5, <3>1 DEF SuitesInv, ReadSoFar
  <2> QED
    BY <1>0, <2>2, <2>3, <2>4, <2>6, ReaderMoves
<1>2. CASE ListAPICaseRuns
  <2>0. PICK aRun : aRun = NextRun
    OBVIOUS
  <2>a. PICK listed, read :
             /\ listed = reader.listed \ {aRun}
             /\ read = reader.read \cup {i \in DOMAIN records : records[i].run = aRun}
    OBVIOUS
  <2>b. listed \in SUBSET (1 .. MaxRuns) /\ read \in SUBSET Nat /\ read \subseteq DOMAIN records
    BY <1>0, <2>a DEF SuiteReaders
  <2>1. PICK next : next = [reader EXCEPT !.listed = listed, !.read = read]
    OBVIOUS
  <2>2. reader.pc = "runs" /\ Reads(next)
    BY <1>2, <2>0, <2>a, <2>1 DEF ListAPICaseRuns
  <2>3. next \in SuiteReaders
    BY <1>0, <2>b, <2>1 DEF SuiteReaders
  <2>4. /\ next.report = reader.report /\ next.pc = "runs" /\ next.part = reader.part
        /\ next.listed = reader.listed \ {aRun}
        /\ next.read = reader.read \cup {i \in DOMAIN records : records[i].run = aRun}
        /\ next.covered = reader.covered /\ next.recent = reader.recent
    BY <1>0, <2>a, <2>1, <2>2 DEF SuiteReaders
  <2>5. reader' = next /\ UNCHANGED records
    BY <2>2 DEF Reads
  <2>6. ReadSoFar'
    <3>1. \A i \in 1 .. reader.report.first :
             records[i].run \in reader.listed \ {aRun}
               \/ i \in reader.read \cup {k \in DOMAIN records : records[k].run = aRun}
      BY <1>0, <2>2 DEF SuitesInv, ReadSoFar
    <3> QED
      BY <2>2, <2>4, <2>5, <3>1 DEF SuitesInv, ReadSoFar
  <2> QED
    BY <1>0, <2>2, <2>3, <2>4, <2>6, ReaderMoves
<1>3. CASE RecordsForCaseIDs
  <2>1. reader.pc = "runs" /\ reader.listed = {}
    BY <1>3 DEF RecordsForCaseIDs
  <2>2. 1 .. reader.report.first \subseteq reader.read
    BY <2>1 DEF SuitesInv, ReadSoFar
  <2>3. CASE reader.part = "coverage"
    <3>1. PICK next : next = [reader EXCEPT !.pc = "configs", !.covered = reader.read, !.read = {}]
      OBVIOUS
    <3>2. Reads(next)
      BY <1>3, <2>3, <3>1 DEF RecordsForCaseIDs
    <3>3. next \in SuiteReaders
      BY <1>0, <3>1 DEF SuiteReaders
    <3>4. /\ next.report = reader.report /\ next.pc = "configs" /\ next.part = reader.part
          /\ next.read = {} /\ next.covered = reader.read /\ next.recent = reader.recent
      BY <1>0, <3>1 DEF SuiteReaders
    <3>5. reader' = next /\ UNCHANGED records
      BY <3>2 DEF Reads
    <3>6. ReadSoFar'
      BY <1>0, <2>2, <3>4, <3>5 DEF ReadSoFar
    <3> QED
      BY <1>0, <3>2, <3>3, <3>4, <3>6, ReaderMoves
  <2>4. CASE reader.part # "coverage"
    <3>1. PICK next : next = [reader EXCEPT !.pc = "done", !.recent = reader.read, !.read = {}]
      OBVIOUS
    <3>2. Reads(next)
      BY <1>3, <2>4, <3>1 DEF RecordsForCaseIDs
    <3>3. next \in SuiteReaders
      BY <1>0, <3>1 DEF SuiteReaders
    <3>4. /\ next.report = reader.report /\ next.pc = "done" /\ next.part = reader.part
          /\ next.read = {} /\ next.covered = reader.covered /\ next.recent = reader.read
      BY <1>0, <3>1 DEF SuiteReaders
    <3>5. reader' = next /\ UNCHANGED records
      BY <3>2 DEF Reads
    <3>6. ReadSoFar'
      <4>1. reader.part = "stability"
        BY <1>0, <2>4 DEF SuiteReaders
      <4> QED
        BY <3>4, <3>5, <4>1 DEF SuitesInv, ReadSoFar
    <3> QED
      BY <1>0, <3>2, <3>3, <3>4, <3>6, ReaderMoves
  <2> QED
    BY <2>3, <2>4
<1>4. CASE ReadExecutionConfigs
  <2>1. reader.pc = "configs"
    BY <1>4 DEF ReadExecutionConfigs
  <2>2. CASE reader.report.kind = "priority"
    <3>1. PICK next : next = [reader EXCEPT !.pc = "list", !.part = "stability", !.configs = configs]
      OBVIOUS
    <3>2. Reads(next)
      BY <1>4, <2>2, <3>1 DEF ReadExecutionConfigs
    <3>3. next \in SuiteReaders
      BY <1>0, <3>1 DEF SuiteReaders
    <3>4. /\ next.report = reader.report /\ next.pc = "list" /\ next.part = "stability"
          /\ next.read = reader.read /\ next.covered = reader.covered /\ next.recent = reader.recent
      BY <1>0, <3>1 DEF SuiteReaders
    <3>5. reader' = next /\ UNCHANGED records
      BY <3>2 DEF Reads
    <3>6. ReadSoFar'
      BY <2>1, <2>2, <3>4, <3>5 DEF SuitesInv, ReadSoFar
    <3> QED
      BY <1>0, <3>2, <3>3, <3>4, <3>6, ReaderMoves
  <2>3. CASE reader.report.kind # "priority"
    <3>1. PICK next : next = [reader EXCEPT !.pc = "done", !.configs = configs]
      OBVIOUS
    <3>2. Reads(next)
      BY <1>4, <2>3, <3>1 DEF ReadExecutionConfigs
    <3>3. next \in SuiteReaders
      BY <1>0, <3>1 DEF SuiteReaders
    <3>4. /\ next.report = reader.report /\ next.pc = "done" /\ next.part = reader.part
          /\ next.read = reader.read /\ next.covered = reader.covered /\ next.recent = reader.recent
      BY <1>0, <3>1 DEF SuiteReaders
    <3>5. reader' = next /\ UNCHANGED records
      BY <3>2 DEF Reads
    <3>6. ReadSoFar'
      BY <2>1, <3>4, <3>5 DEF SuitesInv, ReadSoFar
    <3> QED
      BY <1>0, <3>2, <3>3, <3>4, <3>6, ReaderMoves
  <2> QED
    BY <2>2, <2>3
<1> QED
  BY <1>1, <1>2, <1>3, <1>4

-----------------------------------------------------------------------------
\* What changes the Store.
LEMMA RunsGrow ==
    ASSUME SuitesInv, UNCHANGED <<reader, records>>,
           suiteRuns \subseteq suiteRuns', suiteRuns' \subseteq 1 .. MaxRuns,
           configs' \in SUBSET CaseIds, command' \in SuiteCommands
    PROVE  SuitesInv'
<1>1. RecordsInv'
  BY DEF SuitesInv, RecordsInv
<1>2. SuitesTyped'
  BY DEF SuitesInv, SuitesTyped
<1>3. ReadSoFar'
  BY DEF SuitesInv, ReadSoFar
<1> QED
  BY <1>1, <1>2, <1>3 DEF SuitesInv

LEMMA RecordsGrow ==
    ASSUME SuitesInv, NEW aRun, NEW c \in CaseIds, NEW status \in RunStatuses \cup {"passed", "failed"},
           RecordSuiteCaseRun(aRun, c, status), command' \in SuiteCommands
    PROVE  SuitesInv'
<1>0. /\ records \in Seq(SuiteRecord) /\ Len(records) \in Nat /\ DOMAIN records = 1 .. Len(records)
      /\ suiteRuns \subseteq 1 .. MaxRuns
      /\ \A i \in DOMAIN records : records[i].run \in suiteRuns
      /\ \A i, j \in DOMAIN records : records[i].run = records[j].run => i = j
  BY DEF SuitesInv, RecordsInv
<1>1. PICK record : record = [run |-> aRun, case |-> c, status |-> status]
  OBVIOUS
<1>2. /\ aRun \in suiteRuns /\ (\A i \in DOMAIN records : records[i].run # aRun)
      /\ records' = Append(records, record) /\ UNCHANGED <<suiteRuns, configs, reader>>
  BY <1>1 DEF RecordSuiteCaseRun
<1>3. record \in SuiteRecord /\ record.run = aRun
  BY <1>0, <1>1, <1>2 DEF SuiteRecord
<1>4. /\ records' \in Seq(SuiteRecord) /\ Len(records') = Len(records) + 1
      /\ DOMAIN records' = 1 .. Len(records) + 1
      /\ \A i \in DOMAIN records : records'[i] = records[i]
      /\ records'[Len(records) + 1] = record
  BY <1>0, <1>2, <1>3
<1>5. DOMAIN records' = DOMAIN records \cup {Len(records) + 1}
  BY <1>0, <1>4
<1>6. RecordsInv'
  <2>1. \A i \in DOMAIN records' : records'[i].run \in suiteRuns
    BY <1>0, <1>2, <1>3, <1>4, <1>5
  <2>2. \A i, j \in DOMAIN records' : records'[i].run = records'[j].run => i = j
    BY <1>0, <1>2, <1>3, <1>4, <1>5
  <2> QED
    BY <1>0, <1>2, <1>4, <2>1, <2>2 DEF RecordsInv
<1>7. SuitesTyped'
  BY <1>2, <1>5 DEF SuitesInv, SuitesTyped
<1>8. ReadSoFar'
  <2>1. reader.report.first <= Len(records) /\ reader.report.first \in Nat
    BY DEF SuitesInv, ReadSoFar, SuitesTyped, SuiteReaders, SuiteReports
  <2>2. \A i \in 1 .. reader.report.first : i \in DOMAIN records /\ records'[i] = records[i]
    BY <1>0, <1>4, <2>1
  <2>3. reader.report.first <= Len(records')
    BY <1>0, <1>4, <2>1
  <2> QED
    BY <1>2, <2>2, <2>3 DEF SuitesInv, ReadSoFar
<1> QED
  BY <1>6, <1>7, <1>8 DEF SuitesInv

LEMMA SuiteRunCreated ==
    ASSUME SuitesInv, NEW aRun \in 1 .. MaxRuns, CreateSuiteRun(aRun), command' \in SuiteCommands
    PROVE  SuitesInv'
<1>1. suiteRuns' = suiteRuns \cup {aRun} /\ UNCHANGED <<records, configs, reader>>
  BY DEF CreateSuiteRun
<1>2. suiteRuns \subseteq 1 .. MaxRuns /\ configs \in SUBSET CaseIds
  BY DEF SuitesInv, RecordsInv, SuitesTyped
<1> QED
  BY <1>1, <1>2, RunsGrow

LEMMA NoCommandReportIs == NoCommandReport \in SuiteCommands
BY CaseSuitesConstants DEF NoCommandReport, SuiteCommands

LEMMA BatchesRecord ==
    ASSUME SuitesInv, BatchesRun \/ AddExecutionConfig PROVE SuitesInv'
<1>0. command \in SuiteCommands /\ configs \in SUBSET CaseIds /\ suiteRuns \subseteq 1 .. MaxRuns
  BY DEF SuitesInv, SuitesTyped, RecordsInv
<1>1. CASE BatchesRun
  <2>1. PICK aRun \in 1 .. MaxRuns :
          \/ CreateSuiteRun(aRun)
          \/ \E c \in CaseIds, status \in RunStatuses : RecordSuiteCaseRun(aRun, c, status)
    BY <1>1 DEF BatchesRun
  <2>2. command' \in SuiteCommands
    BY <1>0, <1>1 DEF BatchesRun
  <2> QED
    BY <2>1, <2>2, SuiteRunCreated, RecordsGrow
<1>2. CASE AddExecutionConfig
  <2>1. configs' \in SUBSET CaseIds /\ UNCHANGED <<suiteRuns, records, reader, command>>
    BY <1>0, <1>2 DEF AddExecutionConfig
  <2> QED
    BY <1>0, <2>1, RunsGrow
<1> QED
  BY <1>1, <1>2

\* Loading what a report command needs.
LEMMA LoadedIs ==
    ASSUME NEW loaded \in SUBSET CaseIds, NEW derived \in SUBSET CaseIds, NEW todo \in Seq(CaseIds)
    PROVE  Loaded(loaded, derived, todo) \in SuiteCommands
BY NoCommandReportIs DEF Loaded, SuiteCommands

LEMMA DerivedCases ==
    ASSUME NEW loaded, NEW todo \in Seq(CaseIds)
    PROVE  deriveInterfaceNodeCaseConfigs(loaded, todo) \in SUBSET CaseIds
<1>1. ToSet(todo) \in SUBSET CaseIds
  BY DEF ToSet
<1> QED
  BY <1>1 DEF deriveInterfaceNodeCaseConfigs

LEMMA BundleLoaded ==
    ASSUME SuitesInv, NEW todo \in Seq(CaseIds), NEW derives, LoadReportBundle(todo, derives)
    PROVE  SuitesInv'
<1>1. PICK derived \in SUBSET CaseIds : command' = Loaded(configs, derived, todo)
  <2>1. PICK derived : derived = IF derives THEN deriveInterfaceNodeCaseConfigs(configs, todo) ELSE {}
    OBVIOUS
  <2> QED
    BY <2>1, DerivedCases DEF LoadReportBundle
<1>2. /\ configs \in SUBSET CaseIds /\ suiteRuns \subseteq 1 .. MaxRuns
      /\ UNCHANGED <<suiteRuns, records, configs, reader>>
  BY DEF SuitesInv, SuitesTyped, RecordsInv, LoadReportBundle
<1>3. command' \in SuiteCommands
  BY <1>1, <1>2, LoadedIs
<1> QED
  BY <1>2, <1>3, RunsGrow

LEMMA ReportCommandsLoad ==
    ASSUME SuitesInv,
           runCaseSuiteReport \/ runInterfaceNodeCaseReport \/ runWorkflowReport \/ runCaseSuiteImpactReport
    PROVE  SuitesInv'
<1>1. CASE runCaseSuiteReport
  BY <1>1, SelectedCases, BundleLoaded DEF runCaseSuiteReport
<1>2. CASE runInterfaceNodeCaseReport
  <2>1. PICK node \in SuiteNodes :
          LoadReportBundle(SelectCases({c \in CaseIds : SuiteCases[c].node = node}), TRUE)
    BY <1>2 DEF runInterfaceNodeCaseReport
  <2>2. {c \in CaseIds : SuiteCases[c].node = node} \in SUBSET CaseIds
    OBVIOUS
  <2>3. PICK todo : todo = SelectCases({c \in CaseIds : SuiteCases[c].node = node})
    OBVIOUS
  <2>4. todo \in Seq(CaseIds)
    BY <2>2, <2>3, SelectedCases
  <2> QED
    BY <2>1, <2>3, <2>4, BundleLoaded
<1>3. CASE runWorkflowReport
  BY <1>3, BoundCases, BundleLoaded DEF runWorkflowReport
<1>4. CASE runCaseSuiteImpactReport
  <2>a. PICK actions \in {{}, {"run", "rerun"}} :
          command' = Loaded(reader.loaded,
                         deriveInterfaceNodeCaseConfigs(reader.loaded, PlanSelected(actions)),
                         PlanSelected(actions))
    BY <1>4 DEF runCaseSuiteImpactReport
  <2>b. PICK todo : todo = PlanSelected(actions)
    OBVIOUS
  <2>1. /\ todo = PlanSelected(actions)
        /\ command' = Loaded(reader.loaded, deriveInterfaceNodeCaseConfigs(reader.loaded, todo), todo)
    BY <2>a, <2>b
  <2>2. todo \in Seq(CaseIds)
    <3>1. PICK S : S = {c \in Ready :
             actions = {} \/ SuggestedAction(c, Executable, LatestStatus(reader.covered, c)) \in actions}
      OBVIOUS
    <3>2. Ready \subseteq CaseIds
      BY DEF Ready, Chosen, Impacted, collectImpact
    <3>3. S \in SUBSET CaseIds /\ todo = SelectCases(S)
      BY <2>1, <3>1, <3>2 DEF PlanSelected
    <3> QED
      BY <3>3, SelectedCases
  <2>3. /\ configs \in SUBSET CaseIds /\ suiteRuns \subseteq 1 .. MaxRuns
        /\ reader.loaded \in SUBSET CaseIds
        /\ UNCHANGED <<suiteRuns, records, configs, reader>>
    BY <1>4 DEF SuitesInv, SuitesTyped, RecordsInv, SuiteReaders, runCaseSuiteImpactReport
  <2>4. command' \in SuiteCommands
    BY <2>1, <2>2, <2>3, DerivedCases, LoadedIs
  <2> QED
    BY <2>3, <2>4, RunsGrow
<1> QED
  BY <1>1, <1>2, <1>3, <1>4

LEMMA ReportCommandsRun ==
    ASSUME SuitesInv,
           executeCaseSuiteReport \/ postTestKitRunBatch \/ EndCommandReport \/ CommandReportFails
    PROVE  SuitesInv'
<1>0. /\ command \in SuiteCommands /\ configs \in SUBSET CaseIds /\ suiteRuns \subseteq 1 .. MaxRuns
      /\ command.loaded \in SUBSET CaseIds /\ command.derived \in SUBSET CaseIds
      /\ command.todo \in Seq(CaseIds)
  BY DEF SuitesInv, SuitesTyped, RecordsInv, SuiteCommands
<1>1. CASE executeCaseSuiteReport
  <2>1. command' \in SuiteCommands
    BY <1>0, <1>1 DEF executeCaseSuiteReport, SuiteCommands
  <2>2. configs' \in SUBSET CaseIds /\ UNCHANGED <<suiteRuns, records, reader>>
    BY <1>0, <1>1 DEF executeCaseSuiteReport
  <2> QED
    BY <1>0, <2>1, <2>2, RunsGrow
<1>2. CASE postTestKitRunBatch
  <2>1. command.todo # << >>
    BY <1>2 DEF postTestKitRunBatch
  <2>2. CASE command.run = 0
    <3>1. PICK aRun \in 1 .. MaxRuns : CreateSuiteRun(aRun) /\ command' = [command EXCEPT !.run = aRun]
      BY <1>2, <2>2 DEF postTestKitRunBatch
    <3>2. aRun \in 0 .. MaxRuns
      OBVIOUS
    <3>3. command' \in SuiteCommands
      BY <1>0, <3>1, <3>2 DEF SuiteCommands
    <3> QED
      BY <3>1, <3>3, SuiteRunCreated
  <2>3. CASE command.run # 0
    <3>1. Head(command.todo) \in CaseIds /\ Tail(command.todo) \in Seq(CaseIds)
      BY <1>0, <2>1
    <3>2. PICK status \in executeTestKitCase(Head(command.todo)), stops \in BOOLEAN :
            /\ RecordSuiteCaseRun(command.run, Head(command.todo), status)
            /\ command' = [command EXCEPT !.run = 0,
                                          !.todo = IF stops THEN << >> ELSE Tail(command.todo)]
      BY <1>2, <2>3 DEF postTestKitRunBatch
    <3>3. status \in {"passed", "failed"}
      BY DEF executeTestKitCase
    <3>4. PICK todo \in Seq(CaseIds) : todo = IF stops THEN << >> ELSE Tail(command.todo)
      <4>1. << >> \in Seq(CaseIds)
        OBVIOUS
      <4>2. (IF stops THEN << >> ELSE Tail(command.todo)) \in Seq(CaseIds)
        BY <3>1, <4>1
      <4> QED
        BY <4>2
    <3>5. 0 \in 0 .. MaxRuns
      BY CaseSuitesConstants
    <3>6. command' \in SuiteCommands
      BY <1>0, <3>2, <3>4, <3>5 DEF SuiteCommands
    <3> QED
      BY <3>1, <3>2, <3>3, <3>6, RecordsGrow
  <2> QED
    BY <2>2, <2>3
<1>3. CASE EndCommandReport
  <2>1. command' \in SuiteCommands
    BY <1>3, NoCommandReportIs DEF EndCommandReport
  <2>2. CASE UNCHANGED <<suiteRuns, records, configs, reader>>
    BY <1>0, <2>1, <2>2, RunsGrow
  <2>3. CASE \E aRun \in 1 .. MaxRuns : CreateSuiteRun(aRun)
    BY <2>1, <2>3, SuiteRunCreated
  <2> QED
    BY <1>3, <2>2, <2>3 DEF EndCommandReport
<1>4. CASE CommandReportFails
  <2>1. command' \in SuiteCommands /\ UNCHANGED <<suiteRuns, records, configs, reader>>
    BY <1>4, NoCommandReportIs DEF CommandReportFails
  <2> QED
    BY <1>0, <2>1, RunsGrow
<1> QED
  BY <1>1, <1>2, <1>3, <1>4

LEMMA SuitesNextInv == SuitesInv /\ [CaseSuitesNext]_suiteVars => SuitesInv'
<1> SUFFICES ASSUME SuitesInv, [CaseSuitesNext]_suiteVars PROVE SuitesInv'
  OBVIOUS
<1>1. CASE CaseSuitesNext
  BY <1>1, ReportBegins, ReportReads, BatchesRecord, ReportCommandsLoad, ReportCommandsRun
  DEF CaseSuitesNext
<1>2. CASE UNCHANGED suiteVars
  BY <1>2 DEF suiteVars, SuitesInv, RecordsInv, SuitesTyped, ReadSoFar
<1> QED
  BY <1>1, <1>2

LEMMA SuitesInvHolds == CaseSuitesSpec => []SuitesInv
<1> QED
  BY SuitesInitInv, SuitesNextInv, PTL DEF CaseSuitesSpec

\* Reports, records and commands keep their types.
THEOREM SuitesKeepTypes == CaseSuitesSpec => []CaseSuitesTypeOK
<1>1. SuitesInv => CaseSuitesTypeOK
  <2> SUFFICES ASSUME SuitesInv PROVE CaseSuitesTypeOK
    OBVIOUS
  <2>1. \A i \in DOMAIN records : records[i] \in SuiteRecord
    BY DEF SuitesInv, RecordsInv
  <2> QED
    BY <2>1 DEF SuitesInv, RecordsInv, SuitesTyped, SuiteRecord, SuiteReaders, SuiteCommands,
                CaseSuitesTypeOK
<1> QED
  BY <1>1, SuitesInvHolds, PTL

-----------------------------------------------------------------------------
(* What a report shows of a case.                                          *)

OfCase(read, c) == {i \in read : records[i].case = c}

\* Records are put in the order of their runs, the newest first.
LEMMA GroupedByCase ==
    ASSUME SuitesInv, NEW read \in SUBSET (DOMAIN records), NEW c
    PROVE  /\ recordsGroupedByCase(read, c) \in SetToSeqs(OfCase(read, c))
           /\ recordsGroupedByCase(read, c) \in Seq(OfCase(read, c))
           /\ \A i, j \in DOMAIN recordsGroupedByCase(read, c) : i < j =>
                 RecordNewer(recordsGroupedByCase(read, c)[i], recordsGroupedByCase(read, c)[j])
           /\ \A i \in OfCase(read, c) : \E k \in DOMAIN recordsGroupedByCase(read, c) :
                 recordsGroupedByCase(read, c)[k] = i
<1>0. PICK S : S = OfCase(read, c)
  OBVIOUS
<1>1. /\ records \in Seq(SuiteRecord) /\ Len(records) \in Nat /\ DOMAIN records = 1 .. Len(records)
      /\ \A i, j \in DOMAIN records : records[i].run = records[j].run => i = j
  BY DEF SuitesInv, RecordsInv
<1>2. S \subseteq DOMAIN records /\ IsFiniteSet(S)
  <2>1. IsFiniteSet(1 .. Len(records)) /\ S \in SUBSET (1 .. Len(records))
    BY <1>0, <1>1, FS_Interval DEF OfCase
  <2> QED
    BY <1>1, <2>1, FS_Subset
<1>3. \A i \in S : records[i].run \in 1 .. MaxRuns
  <2>1. \A i \in S : records[i] \in SuiteRecord
    BY <1>1, <1>2
  <2> QED
    BY <2>1 DEF SuiteRecord
<1>4. MaxRuns \in Nat
  BY CaseSuitesConstants
<1>5. PICK f \in [S -> Nat] : f = [i \in S |-> MaxRuns - records[i].run]
  <2>1. \A i \in S : MaxRuns - records[i].run \in Nat
    BY <1>3, <1>4
  <2> QED
    BY <2>1
<1>6. \A x, y \in S : f[x] = f[y] => x = y
  BY <1>1, <1>2, <1>3, <1>4, <1>5
<1>7. \A x, y \in S : f[x] < f[y] => RecordNewer(x, y)
  BY <1>3, <1>4, <1>5 DEF RecordNewer
<1>8. \E s \in SetToSeqs(S) : \A i, j \in DOMAIN s : i < j => RecordNewer(s[i], s[j])
  <2>1. PICK s \in SetToSeqs(S) : \A i, j \in DOMAIN s : i < j => f[s[i]] < f[s[j]]
    BY <1>2, <1>6, Sorting
  <2>2. \A i \in DOMAIN s : s[i] \in S
    BY <1>2, SequencesOfSet
  <2> QED
    BY <1>7, <2>1, <2>2
<1>9. PICK list : list = recordsGroupedByCase(read, c)
  OBVIOUS
<1>10. list = CHOOSE s \in SetToSeqs(S) : \A i, j \in DOMAIN s : i < j => RecordNewer(s[i], s[j])
  BY <1>0, <1>9 DEF recordsGroupedByCase, SortedBy, OfCase
<1>11. list \in SetToSeqs(S) /\ \A i, j \in DOMAIN list : i < j => RecordNewer(list[i], list[j])
  BY <1>8, <1>10
<1>12. list \in Seq(S) /\ \A x \in S : \E i \in DOMAIN list : list[i] = x
  BY <1>2, <1>11, SequencesOfSet
<1> QED
  BY <1>0, <1>9, <1>11, <1>12

LEMMA StatusOfNewest ==
    ASSUME SuitesInv, NEW read \in SUBSET (DOMAIN records), NEW c
    PROVE  /\ OfCase(read, c) = {} => LatestStatus(read, c) = "not-run"
           /\ OfCase(read, c) # {} =>
                \E i \in OfCase(read, c) :
                   /\ LatestStatus(read, c) = records[i].status
                   /\ \A j \in OfCase(read, c) : j # i => RecordNewer(i, j)
<1>1. PICK list, S : list = recordsGroupedByCase(read, c) /\ S = OfCase(read, c)
  OBVIOUS
<1>2. /\ list \in Seq(S)
      /\ \A i, j \in DOMAIN list : i < j => RecordNewer(list[i], list[j])
      /\ \A i \in S : \E k \in DOMAIN list : list[k] = i
  BY <1>1, GroupedByCase
<1>3. LatestStatus(read, c) = IF list = << >> THEN "not-run" ELSE records[list[1]].status
  BY <1>1 DEF LatestStatus
<1>4. CASE S = {}
  <2>1. list = << >>
    BY <1>2, <1>4
  <2> QED
    BY <1>1, <1>3, <1>4, <2>1
<1>5. CASE S # {}
  <2>1. list # << >> /\ Len(list) \in Nat /\ DOMAIN list = 1 .. Len(list)
    BY <1>2, <1>5
  <2>2. 1 \in DOMAIN list /\ list[1] \in S
    BY <1>2, <2>1
  <2>3. ASSUME NEW j \in S, j # list[1] PROVE RecordNewer(list[1], j)
    <3>1. PICK k \in DOMAIN list : list[k] = j
      BY <1>2
    <3>2. 1 < k
      BY <2>1, <2>3, <3>1
    <3> QED
      BY <1>2, <2>2, <3>1, <3>2
  <2>4. LatestStatus(read, c) = records[list[1]].status
    BY <1>3, <2>1
  <2> QED
    BY <1>1, <1>5, <2>2, <2>3, <2>4
<1> QED
  BY <1>4, <1>5

\* The newest of the records that were read decides.
LEMMA NewestDecides ==
    ASSUME SuitesInv, NEW read \in SUBSET (DOMAIN records), NEW c, NEW i \in OfCase(read, c),
           \A j \in OfCase(read, c) : j # i => RecordNewer(i, j)
    PROVE  LatestStatus(read, c) = records[i].status
<1>1. PICK n \in OfCase(read, c) :
          /\ LatestStatus(read, c) = records[n].status
          /\ \A j \in OfCase(read, c) : j # n => RecordNewer(n, j)
  BY StatusOfNewest
<1>2. \A j \in OfCase(read, c) : records[j].run \in Nat
  <2>1. \A j \in OfCase(read, c) : records[j] \in SuiteRecord
    BY DEF SuitesInv, RecordsInv, OfCase
  <2> QED
    BY <2>1, CaseSuitesConstants DEF SuiteRecord
<1>3. n = i
  <2> SUFFICES ASSUME n # i PROVE FALSE
    OBVIOUS
  <2>1. RecordNewer(i, n) /\ RecordNewer(n, i)
    BY <1>1
  <2> QED
    BY <1>2, <2>1 DEF RecordNewer
<1> QED
  BY <1>1, <1>3

\* A record made during the report is the newest of its case at that moment.
LEMMA StatusWhenRecorded ==
    ASSUME SuitesInv, NEW c, RecordedInOrder(c), NEW i \in DOMAIN records, records[i].case = c,
           i > reader.report.first
    PROVE  i \in During /\ LatestStatus(1 .. i, c) = records[i].status
<1>1. /\ Len(records) \in Nat /\ DOMAIN records = 1 .. Len(records) /\ reader.report.first \in Nat
  BY DEF SuitesInv, RecordsInv, SuitesTyped, SuiteReaders, SuiteReports
<1>2. 1 .. i \in SUBSET (DOMAIN records) /\ i \in OfCase(1 .. i, c)
  BY <1>1 DEF OfCase
<1>3. ASSUME NEW j \in OfCase(1 .. i, c), j # i PROVE RecordNewer(i, j)
  <2>1. j < i /\ records[j].case = c /\ j \in DOMAIN records
    BY <1>1, <1>3 DEF OfCase
  <2> QED
    BY <2>1 DEF RecordedInOrder
<1>4. i \in During
  BY <1>1 DEF During
<1> QED
  BY <1>2, <1>3, <1>4, NewestDecides

\* Whatever was recorded between and within its reads, a report shows of a case whose runs are
\* recorded in order what was true of it at one moment.
LEMMA CoverageIsOfOneMoment ==
    ASSUME SuitesInv, NEW c, RecordedInOrder(c), 1 .. reader.report.first \subseteq reader.covered
    PROVE  \E n \in During : LatestStatus(1 .. n, c) = LatestStatus(reader.covered, c)
<1>1. /\ Len(records) \in Nat /\ DOMAIN records = 1 .. Len(records) /\ reader.report.first \in Nat
      /\ reader.report.first <= Len(records) /\ reader.covered \in SUBSET (DOMAIN records)
  BY DEF SuitesInv, RecordsInv, SuitesTyped, SuiteReaders, SuiteReports, ReadSoFar
<1>2. PICK first : first = reader.report.first
  OBVIOUS
<1>3. 1 .. first \in SUBSET (DOMAIN records) /\ first \in During
  BY <1>1, <1>2 DEF During
<1>4. OfCase(1 .. first, c) \subseteq OfCase(reader.covered, c)
  BY <1>2 DEF OfCase
<1>5. CASE OfCase(reader.covered, c) = {}
  <2>1. OfCase(1 .. first, c) = {}
    BY <1>4, <1>5
  <2> QED
    BY <1>1, <1>3, <1>5, <2>1, StatusOfNewest
<1>6. CASE OfCase(reader.covered, c) # {}
  <2>1. PICK i \in OfCase(reader.covered, c) :
            /\ LatestStatus(reader.covered, c) = records[i].status
            /\ \A j \in OfCase(reader.covered, c) : j # i => RecordNewer(i, j)
    BY <1>1, <1>6, StatusOfNewest
  <2>2. i \in DOMAIN records /\ records[i].case = c
    BY <1>1 DEF OfCase
  <2>3. CASE i > first
    BY <1>2, <2>1, <2>2, <2>3, StatusWhenRecorded
  <2>4. CASE ~(i > first)
    <3>1. i \in OfCase(1 .. first, c)
      BY <1>1, <1>2, <2>2, <2>4 DEF OfCase
    <3>2. \A j \in OfCase(1 .. first, c) : j # i => RecordNewer(i, j)
      BY <1>4, <2>1
    <3> QED
      BY <1>3, <2>1, <3>1, <3>2, NewestDecides
  <2> QED
    BY <2>3, <2>4
<1> QED
  BY <1>5, <1>6

\* A case that is unstable has a failed record among those that were read.
LEMMA UnstableFailed ==
    ASSUME SuitesInv, NEW read \in SUBSET (DOMAIN records), NEW c, Unstable(read, c)
    PROVE  \E i \in OfCase(read, c) : records[i].status = "failed"
<1>1. PICK list, S : list = recordsGroupedByCase(read, c) /\ S = OfCase(read, c)
  OBVIOUS
<1>2. list \in Seq(S)
  BY <1>1, GroupedByCase
<1>3. PICK m : m = IF Len(list) > StabilityLimit THEN StabilityLimit ELSE Len(list)
  OBVIOUS
<1>4. m \in Nat /\ m <= Len(list) /\ Len(list) \in Nat
  BY <1>2, <1>3, CaseSuitesConstants
<1>5. PICK recent : recent = SubSeq(list, 1, m)
  OBVIOUS
<1>6. DOMAIN recent = 1 .. m /\ \A k \in 1 .. m : recent[k] \in S
  BY <1>2, <1>4, <1>5
<1>7. "failed" \in {records[recent[i]].status : i \in DOMAIN recent}
  BY <1>1, <1>3, <1>5 DEF Unstable
<1> QED
  BY <1>1, <1>6, <1>7

-----------------------------------------------------------------------------
(* Priority lists.                                                         *)

LEMMA PriorityOrder ==
    ASSUME NEW ready \in SUBSET CaseIds, NEW score \in [ready -> Nat]
    PROVE  /\ sortPriorityItems(ready, score) \in Seq(ready)
           /\ \A x \in ready : \E i \in DOMAIN sortPriorityItems(ready, score) :
                 sortPriorityItems(ready, score)[i] = x
           /\ \A i, j \in DOMAIN sortPriorityItems(ready, score) : i < j =>
                 score[sortPriorityItems(ready, score)[i]] >= score[sortPriorityItems(ready, score)[j]]
<1> DEFINE Precedes(a, b) ==
               \/ score[a] > score[b]
               \/ /\ score[a] = score[b]
                  /\ \/ SuiteCases[a].weight > SuiteCases[b].weight
                     \/ /\ SuiteCases[a].weight = SuiteCases[b].weight
                        /\ \/ SuiteCases[a].node < SuiteCases[b].node
                           \/ SuiteCases[a].node = SuiteCases[b].node /\ a < b
           R == {p \in ready \X ready : Precedes(p[1], p[2])}
<1>1. IsFiniteSet(ready)
  BY CasesFinite
<1>2. \A a \in ready : /\ score[a] \in Nat /\ SuiteCases[a].node \in Nat
                       /\ SuiteCases[a].weight \in Nat /\ a \in Nat
  BY CaseSuitesConstants
<1>3. \A a, b \in ready : <<a, b>> \in R <=> Precedes(a, b)
  OBVIOUS
<1>4. PICK f \in [ready -> Nat] :
          /\ \A x, y \in ready : f[x] = f[y] => x = y
          /\ \A x, y \in ready : <<x, y>> \in R <=> f[x] < f[y]
  <2>1. \A x, y, z \in ready : <<x, y>> \in R /\ <<y, z>> \in R => <<x, z>> \in R
    <3> SUFFICES ASSUME NEW x \in ready, NEW y \in ready, NEW z \in ready,
                        Precedes(x, y), Precedes(y, z)
                 PROVE  Precedes(x, z)
      BY <1>3
    <3> QED
      BY <1>2
  <2>2. \A x \in ready : <<x, x>> \notin R
    BY <1>2, <1>3
  <2>3. \A x, y \in ready : x # y => <<x, y>> \in R \/ <<y, x>> \in R
    BY <1>2, <1>3
  <2> HIDE DEF R
  <2> QED
    BY <1>1, <2>1, <2>2, <2>3, NumbersOfOrder
<1>5. \E s \in SetToSeqs(ready) : \A i, j \in DOMAIN s : i < j => Precedes(s[i], s[j])
  <2>1. PICK s \in SetToSeqs(ready) : \A i, j \in DOMAIN s : i < j => f[s[i]] < f[s[j]]
    BY <1>1, <1>4, Sorting
  <2>2. \A i \in DOMAIN s : s[i] \in ready
    BY <1>1, SequencesOfSet
  <2>3. \A i, j \in DOMAIN s : i < j => Precedes(s[i], s[j])
    <3> HIDE DEF Precedes, R
    <3> QED
      BY <1>3, <1>4, <2>1, <2>2
  <2> QED
    BY <2>3
<1>6. PICK list : list = sortPriorityItems(ready, score)
  OBVIOUS
<1>a. list = CHOOSE s \in SetToSeqs(ready) :
                  \A i, j \in DOMAIN s : i < j => Precedes(s[i], s[j])
  BY <1>6 DEF sortPriorityItems, SortedBy
<1>7. list \in SetToSeqs(ready) /\ \A i, j \in DOMAIN list : i < j => Precedes(list[i], list[j])
  <2> HIDE DEF Precedes
  <2> QED
    BY <1>5, <1>a
<1>8. list \in Seq(ready) /\ \A x \in ready : \E i \in DOMAIN list : list[i] = x
  BY <1>1, <1>7, SequencesOfSet
<1>9. \A i, j \in DOMAIN list : i < j => score[list[i]] >= score[list[j]]
  <2>1. \A i \in DOMAIN list : list[i] \in ready
    BY <1>8
  <2> QED
    BY <1>2, <1>7, <2>1
<1> QED
  BY <1>6, <1>8, <1>9

Score(c) == priorityScore(c, LatestStatus(reader.covered, c), Unstable(reader.recent, c), c \in Impacted)

\* A score is made of four parts.
LEMMA ScoreIs ==
    ASSUME NEW c \in CaseIds, NEW status, NEW unstable \in BOOLEAN, NEW impacted \in BOOLEAN
    PROVE  /\ priorityScore(c, status, unstable, impacted) \in Nat
           /\ priorityScore(c, status, unstable, impacted)
                = (IF impacted THEN 100 ELSE 0)
                     + (IF status = "failed" THEN 60 ELSE IF status = "not-run" THEN 30
                        ELSE IF status = "passed" THEN 5 ELSE 0)
                     + (IF unstable THEN 40 ELSE 0) + SuiteCases[c].weight
<1>1. SuiteCases[c].weight \in Nat
  BY CaseSuitesConstants
<1> QED
  BY <1>1 DEF priorityScore

\* The limit cuts off no case of a higher score.
LEMMA CutOffLast ==
    ASSUME NEW c \in Ready \ ToSet(priorityFromParts), NEW other \in ToSet(priorityFromParts),
           reader.report.limit \in Nat
    PROVE  other \in Ready /\ Score(other) >= Score(c)
<1>1. Ready \in SUBSET CaseIds
  BY DEF Ready, Chosen, Impacted, collectImpact
<1>2. PICK score : score = [x \in Ready |-> Score(x)]
  OBVIOUS
<1>3. score \in [Ready -> Nat]
  <2>1. \A x \in Ready : Score(x) \in Nat
    <3> TAKE x \in Ready
    <3>1. x \in CaseIds
      BY <1>1
    <3>2. Unstable(reader.recent, x) \in BOOLEAN /\ (x \in Impacted) \in BOOLEAN
      BY DEF Unstable
    <3> QED
      BY <3>1, <3>2, ScoreIs DEF Score
  <2> QED
    BY <1>2, <2>1
<1>4. PICK sorted : sorted = sortPriorityItems(Ready, score)
  OBVIOUS
<1>5. /\ sorted \in Seq(Ready)
      /\ \A x \in Ready : \E i \in DOMAIN sorted : sorted[i] = x
      /\ \A i, j \in DOMAIN sorted : i < j => score[sorted[i]] >= score[sorted[j]]
  BY <1>1, <1>3, <1>4, PriorityOrder
<1>6. PICK limit : limit = priorityLimit(reader.report.limit, Len(sorted))
  OBVIOUS
<1>7. Len(sorted) \in Nat /\ DOMAIN sorted = 1 .. Len(sorted) /\ limit \in 0 .. Len(sorted)
  BY <1>5, <1>6 DEF priorityLimit
<1>8. priorityFromParts = SubSeq(sorted, 1, limit)
  BY <1>2, <1>4, <1>6 DEF priorityFromParts, Score
<1>9. PICK list : list = SubSeq(sorted, 1, limit)
  OBVIOUS
<1>10. DOMAIN list = 1 .. limit /\ \A i \in 1 .. limit : list[i] = sorted[i]
  BY <1>5, <1>7, <1>9
<1>11. PICK k \in 1 .. limit : sorted[k] = other
  BY <1>8, <1>9, <1>10 DEF ToSet
<1>12. PICK m \in DOMAIN sorted : sorted[m] = c
  BY <1>5
<1>13. k < m
  <2> SUFFICES ASSUME ~(k < m) PROVE FALSE
    OBVIOUS
  <2>1. m \in 1 .. limit
    BY <1>7, <1>11, <1>12
  <2>2. c \in ToSet(list)
    BY <1>10, <1>12, <2>1 DEF ToSet
  <2> QED
    BY <1>8, <1>9, <2>2
<1>14. k \in DOMAIN sorted /\ other \in Ready
  BY <1>5, <1>7, <1>11
<1>15. score[other] >= score[c]
  BY <1>5, <1>11, <1>12, <1>13, <1>14
<1> QED
  BY <1>2, <1>14, <1>15

\* A case that never failed during the report scores less than one that was failed all along,
\* unless it is impacted and the other is not, or weighs more.
LEMMA FailuresScoreHigher ==
    ASSUME SuitesInv, 1 .. reader.report.first \subseteq reader.covered,
           NEW c \in CaseIds, NEW other \in CaseIds,
           \A n \in During : FailedAfter(c, n), RecordedInOrder(c), RecordedInOrder(other),
           SuiteCases[other].weight <= SuiteCases[c].weight,
           other \in Impacted => c \in Impacted,
           \A n \in During : ~FailedAfter(other, n)
    PROVE  Score(other) < Score(c)
<1>1. /\ reader.covered \in SUBSET (DOMAIN records) /\ reader.recent \in SUBSET (DOMAIN records)
      /\ Len(records) \in Nat /\ DOMAIN records = 1 .. Len(records) /\ reader.report.first \in Nat
  BY DEF SuitesInv, SuitesTyped, RecordsInv, SuiteReaders, SuiteReports
<1>2. LatestStatus(reader.covered, c) = "failed"
  BY CoverageIsOfOneMoment DEF FailedAfter
<1>3. PICK status : status = LatestStatus(reader.covered, other)
  OBVIOUS
<1>4. status # "failed"
  BY <1>3, CoverageIsOfOneMoment DEF FailedAfter
<1>5. status = "not-run" => ~Unstable(reader.recent, other)
  <2> SUFFICES ASSUME status = "not-run", Unstable(reader.recent, other) PROVE FALSE
    OBVIOUS
  <2>1. OfCase(reader.covered, other) = {}
    <3> SUFFICES ASSUME OfCase(reader.covered, other) # {} PROVE FALSE
      OBVIOUS
    <3>1. PICK i \in OfCase(reader.covered, other) : status = records[i].status
      BY <1>1, <1>3, StatusOfNewest
    <3>2. records[i] \in SuiteRecord
      BY <1>1 DEF OfCase, SuitesInv, RecordsInv
    <3>3. records[i].status \in RunStatuses \cup {"passed", "failed"}
      BY <3>2 DEF SuiteRecord
    <3> QED
      BY <3>1, <3>3, CaseSuitesConstants
  <2>2. PICK i \in OfCase(reader.recent, other) : records[i].status = "failed"
    BY <1>1, UnstableFailed
  <2>3. i \in DOMAIN records /\ records[i].case = other
    BY <1>1 DEF OfCase
  <2>4. i > reader.report.first
    <3> SUFFICES ASSUME ~(i > reader.report.first) PROVE FALSE
      OBVIOUS
    <3>1. i \in OfCase(reader.covered, other)
      BY <1>1, <2>3 DEF OfCase
    <3> QED
      BY <2>1, <3>1
  <2>5. i \in During /\ FailedAfter(other, i)
    BY <2>2, <2>3, <2>4, StatusWhenRecorded DEF FailedAfter
  <2> QED
    BY <2>5
<1>6. PICK u, v, p, q :
        /\ u = Unstable(reader.recent, other) /\ v = Unstable(reader.recent, c)
        /\ p = (other \in Impacted) /\ q = (c \in Impacted)
  OBVIOUS
<1>7. u \in BOOLEAN /\ v \in BOOLEAN /\ p \in BOOLEAN /\ q \in BOOLEAN
  BY <1>6 DEF Unstable
<1>8. (p => q) /\ (status = "not-run" => ~u)
  BY <1>5, <1>6
<1>9. SuiteCases[c].weight \in Nat /\ SuiteCases[other].weight \in Nat
  BY CaseSuitesConstants
<1>10. Score(other) = (IF p THEN 100 ELSE 0)
                     + (IF status = "failed" THEN 60 ELSE IF status = "not-run" THEN 30
                        ELSE IF status = "passed" THEN 5 ELSE 0)
                     + (IF u THEN 40 ELSE 0) + SuiteCases[other].weight
  <2>1. Score(other) = priorityScore(other, status, u, p)
    BY <1>3, <1>6 DEF Score
  <2> QED
    BY <1>7, <2>1, ScoreIs
<1>11. Score(c) = (IF q THEN 100 ELSE 0) + 60 + (IF v THEN 40 ELSE 0) + SuiteCases[c].weight
  <2>1. Score(c) = priorityScore(c, "failed", v, q)
    BY <1>2, <1>6 DEF Score
  <2> QED
    BY <1>7, <2>1, ScoreIs
<1> QED
  BY <1>4, <1>8, <1>9, <1>10, <1>11

\* A finished report directs its reader to what failed and to what cannot run: a case that was
\* failed all along is not cut off for one that was not, and a blocked case has an action.
THEOREM AdviceStaysSound == CaseSuitesSpec => []AdviceIsSound
<1>1. ASSUME SuitesInv, reader.pc = "done" PROVE FailuresFirst
  <2> SUFFICES ASSUME reader.report.kind = "priority",
                      NEW c \in Ready \ ToSet(priorityFromParts), NEW other \in ToSet(priorityFromParts),
                      \A n \in During : FailedAfter(c, n), RecordedInOrder(c), RecordedInOrder(other),
                      SuiteCases[other].weight <= SuiteCases[c].weight,
                      other \in Impacted => c \in Impacted,
                      \A n \in During : ~FailedAfter(other, n)
               PROVE  FALSE
    BY DEF FailuresFirst
  <2>1. reader.report.limit \in Nat
    BY <1>1 DEF SuitesInv, SuitesTyped, SuiteReaders, SuiteReports
  <2>2. 1 .. reader.report.first \subseteq reader.covered
    BY <1>1 DEF SuitesInv, ReadSoFar
  <2>3. other \in Ready /\ Score(other) >= Score(c)
    BY <2>1, CutOffLast
  <2>4. c \in CaseIds /\ other \in CaseIds
    BY <2>3 DEF Ready, Chosen, Impacted, collectImpact
  <2>5. Score(other) < Score(c)
    BY <1>1, <2>2, <2>4, FailuresScoreHigher
  <2>6. Score(other) \in Nat /\ Score(c) \in Nat
    <3>1. ASSUME NEW x \in CaseIds PROVE Score(x) \in Nat
      <4>1. Unstable(reader.recent, x) \in BOOLEAN /\ (x \in Impacted) \in BOOLEAN
        BY DEF Unstable
      <4> QED
        BY <4>1, ScoreIs DEF Score
    <3> QED
      BY <2>4, <3>1
  <2> QED
    BY <2>3, <2>5, <2>6
<1>2. BlockedCasesGetActions
  <2> SUFFICES ASSUME NEW c \in Chosen \ Ready, ~hasUsableExecutorReference(c)
               PROVE  \E issue \in {"lifecycle", "metadata", "missing-runnable-source",
                          "missing-execution-config"} : <<c, issue>> \in addQualityCaseActions(Chosen, Executable)
    BY DEF BlockedCasesGetActions
  <2>1. inspectionIssues(c, Executable) # {}
    BY DEF Ready
  <2>2. PICK issue \in {"lifecycle", "missing-execution-config"} : issue \in qualityCaseIssues(c, Executable)
    BY <2>1 DEF inspectionIssues, IssueWhen, qualityCaseIssues
  <2>3. <<c, issue>> \in addQualityCaseActions(Chosen, Executable)
    BY <2>2 DEF addQualityCaseActions
  <2> QED
    BY <2>3
<1>3. SuitesInv => AdviceIsSound
  BY <1>1, <1>2 DEF AdviceIsSound
<1> QED
  BY <1>3, SuitesInvHolds, PTL

-----------------------------------------------------------------------------
(* The parts together.                                                     *)

\* A behaviour of the composition is one of every part: a step of another part leaves
\* the state of this one alone.
THEOREM HostSideRunsEveryPart ==
  Spec => MigrationSpec /\ RestoreSpec /\ CaseRunSpec /\ CaseSuitesSpec
<1>1. Init => MigrationInit /\ RestoreInit /\ CaseRunInit /\ CaseSuitesInit
  BY DEF Init
<1>2. [Next]_vars => [MigrationNext]_migrationVars
  BY DEF vars, Next, MigrationPart, RestorePart, CasePart, SuitePart
<1>3. [Next]_vars => [RestoreNext]_restoreVars
  BY DEF vars, Next, MigrationPart, RestorePart, CasePart, SuitePart
<1>4. [Next]_vars => [CaseRunNext]_caseRunVars
  BY DEF vars, Next, MigrationPart, RestorePart, CasePart, SuitePart
<1>5. [Next]_vars => [CaseSuitesNext]_suiteVars
  BY DEF vars, Next, MigrationPart, RestorePart, CasePart, SuitePart
<1> QED
  BY <1>1, <1>2, <1>3, <1>4, <1>5, PTL DEF Spec, MigrationSpec, RestoreSpec, CaseRunSpec, CaseSuitesSpec

\* Type correctness of every part, whichever of them a behaviour exercises.
THEOREM HostSideKeepsTypes == Spec => []HostTypeOK
  BY HostSideRunsEveryPart, MigrationsKeepTypes, RestoresKeepTypes, CaseRunsKeepTypes, SuitesKeepTypes, PTL
     DEF HostTypeOK
=============================================================================
