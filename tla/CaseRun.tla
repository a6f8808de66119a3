------------------------------- MODULE CaseRun -------------------------------
(***************************************************************************)
(* Runs of single API cases: the evidence files they write, the rows they   *)
(* record, and what readers of the evidence are shown.                      *)
(*                                                                         *)
(* A run has an id, named by the user or made of the current second, so two *)
(* runs may share it.  Runs by command, request or batch (kind "file")      *)
(* write into one directory per id before and after the HTTP exchange; runs *)
(* of the test kit write afterwards, into a directory of their own unless   *)
(* one was named.  Then a run row, a case run row and one evidence row per  *)
(* file are inserted, each in its own statement.  The import of a legacy    *)
(* runtime adds rows for runs of the same ids.                              *)
(***************************************************************************)
EXTENDS Naturals, FiniteSets, SequencesExt

CONSTANTS Attempts,    \* executions of a case
          RunIds,      \* ids of runs
          LegacyRows   \* rows of the imported runtime: [run, case, evidence]

Importer == "importer"
NoFile == "none"         \* nothing, or what a write that failed left

ASSUME CaseRunConstants ==
    /\ Importer \notin Attempts /\ NoFile \notin Attempts
    /\ LegacyRows \in Seq([run : STRING, case : BOOLEAN, evidence : BOOLEAN])

VARIABLES files,      \* evidence files: [dir, name] -> who wrote it
          runs,       \* run rows: [id, by, dir]
          caseRuns,   \* case run rows: [id, run, by, request]
          evidence,   \* evidence rows: [id, run, caseRun, by, name, dir, summary]
          attempts,
          importer    \* the import: [pc, row]

caseRunVars == <<files, runs, caseRuns, evidence, attempts, importer>>

Names == <<"case", "request", "response", "assertions", "summary">>
NamesOf(kind) == IF kind = "file" THEN {Names[i] : i \in 1 .. 5}
                 ELSE {"request", "response", "assertions"}
Requested == {"case", "request"}

NoCaseRun == [pc |-> "new", kind |-> "file", id |-> "none", dir |-> <<>>, todo |-> {},
              summary |-> NoFile]

CaseRunInit ==
    /\ files = << >>
    /\ runs = {} /\ caseRuns = {} /\ evidence = {}
    /\ attempts = [a \in Attempts |-> NoCaseRun]
    /\ importer = [pc |-> "idle", row |-> 1]

Advance(a, attempt) == attempts' = [attempts EXCEPT ![a] = attempt]

Stopped(attempt, pc) == [attempt EXCEPT !.pc = pc, !.todo = {}, !.summary = NoFile]

\* Files are written and recorded in the order of Names; the test kit writes in any order.
NextNames(attempt) ==
    LET Place(name) == CHOOSE i \in 1 .. 5 : Names[i] = name
    IN  {name \in attempt.todo : \A other \in attempt.todo : Place(name) <= Place(other)}

FileAt(dir, name) == IF <<dir, name>> \in DOMAIN files THEN files[<<dir, name>>] ELSE NoFile

-----------------------------------------------------------------------------
(* Execution.                                                              *)

\* Mutant: one directory for all runs.
SharedEvidencePath(id) == <<"cases", "all">>
caseRunEvidencePath(id) == <<"cases", id>>

Run(a) ==
    /\ attempts[a].pc = "new"
    /\ \E id \in RunIds :
          Advance(a, [NoCaseRun EXCEPT !.pc = "before", !.id = id, !.dir = caseRunEvidencePath(id),
                                       !.todo = Requested])
    /\ UNCHANGED <<files, runs, caseRuns, evidence, importer>>

\* The test kit sends the request first, and reports also a failed one.
handleTestKitRun(a) ==
    /\ attempts[a].pc = "new"
    /\ \E id \in RunIds, named \in BOOLEAN :
          Advance(a, [NoCaseRun EXCEPT !.pc = "after", !.kind = "kit", !.id = id,
                         !.dir = IF named THEN caseRunEvidencePath(id) ELSE <<"temporary", a>>,
                         !.todo = NamesOf("kit")])
    /\ UNCHANGED <<files, runs, caseRuns, evidence, importer>>

writeJSON(a) ==
    LET attempt == attempts[a]
        Write(name, by) ==
            files' = [f \in DOMAIN files \cup {<<attempt.dir, name>>} |->
                         IF f = <<attempt.dir, name>> THEN by ELSE files[f]]
    IN  /\ attempt.pc \in {"before", "after"} /\ attempt.todo # {}
        /\ \E name \in (IF attempt.kind = "kit" THEN attempt.todo ELSE NextNames(attempt)) :
              \/ /\ Write(name, a)
                 /\ Advance(a, [attempt EXCEPT !.todo = @ \ {name}])
              \/ /\ Write(name, NoFile)
                 /\ Advance(a, Stopped(attempt, "failed"))
        /\ UNCHANGED <<runs, caseRuns, evidence, importer>>

\* Between case.json, request.json and the other files: without a response nothing more
\* is written or recorded.
executeHTTP(a) ==
    LET attempt == attempts[a]
    IN  /\ attempt.pc = "before" /\ attempt.todo = {}
        /\ Advance(a, [attempt EXCEPT !.pc = "after", !.todo = NamesOf("file") \ Requested])
        /\ UNCHANGED <<files, runs, caseRuns, evidence, importer>>

-----------------------------------------------------------------------------
(* Recording.                                                              *)

\* The summary of the request is read back from the file, or kept by the test kit.
apiCaseEvidenceSummaries(a) ==
    LET attempt == attempts[a]
    IN  /\ attempt.pc = "after" /\ attempt.todo = {}
        /\ attempt.kind = "file" => FileAt(attempt.dir, "request") # NoFile
        /\ Advance(a, [attempt EXCEPT !.pc = "run",
                          !.summary = IF attempt.kind = "kit" THEN a ELSE FileAt(attempt.dir, "request")])
        /\ UNCHANGED <<files, runs, caseRuns, evidence, importer>>

RunIdsOf(rows) == {row.id : row \in rows}

\* Mutant: upsert.
ReplaceRun(run) == runs' = {row \in runs : row.id # run.id} \cup {run}
\* Insert: an id that is there is an error.
CreateRun(run) == run.id \notin RunIdsOf(runs) /\ runs' = runs \cup {run}

recordWorkflowRunForAPICase(a) ==
    LET attempt == attempts[a]
    IN  /\ attempt.pc = "run"
        /\ CreateRun([id |-> attempt.id, by |-> a, dir |-> attempt.dir])
        /\ Advance(a, [attempt EXCEPT !.pc = "case"])
        /\ UNCHANGED <<files, caseRuns, evidence, importer>>

\* Insert; the run row must be there.
RecordAPICaseRun(row) ==
    /\ row.id \notin RunIdsOf(caseRuns) /\ row.run \in RunIdsOf(runs)
    /\ caseRuns' = caseRuns \cup {row}

apiCaseRunRecordID(id) == <<"case", id>>

recordAPICaseRunRow(a) ==
    LET attempt == attempts[a]
    IN  /\ attempt.pc = "case"
        /\ RecordAPICaseRun([id |-> apiCaseRunRecordID(attempt.id), run |-> attempt.id, by |-> a,
                             request |-> attempt.summary])
        /\ Advance(a, [attempt EXCEPT !.pc = "evidence", !.todo = NamesOf(attempt.kind)])
        /\ UNCHANGED <<files, runs, evidence, importer>>

RecordEvidence(row) ==
    /\ row.id \notin RunIdsOf(evidence) /\ row.run \in RunIdsOf(runs)
    /\ evidence' = evidence \cup {row}

RunRecorded(attempt, rest) ==
    IF rest = {} THEN Stopped(attempt, "ended") ELSE [attempt EXCEPT !.todo = rest]

\* A missing file is passed over; one that cannot be read ends the recording.
recordAPICaseEvidenceRecords(a) ==
    LET attempt == attempts[a]
    IN  /\ attempt.pc = "evidence"
        /\ \E name \in NextNames(attempt) :
              LET content == FileAt(attempt.dir, name)
                  rest == attempt.todo \ {name}
              IN  \/ /\ content # NoFile
                     /\ RecordEvidence([id |-> <<attempt.id, name>>, run |-> attempt.id,
                                        caseRun |-> apiCaseRunRecordID(attempt.id), by |-> a,
                                        name |-> name, dir |-> attempt.dir, summary |-> content])
                     /\ Advance(a, RunRecorded(attempt, rest))
                  \/ /\ <<attempt.dir, name>> \notin DOMAIN files /\ attempt.kind = "file"
                     /\ Advance(a, RunRecorded(attempt, rest))
                     /\ UNCHANGED evidence
        /\ UNCHANGED <<files, runs, caseRuns, importer>>

\* No response, a timeout, an error of the Store or of a file, or the process is killed.
Fail(a) ==
    /\ attempts[a].pc \notin {"new", "failed", "ended"}
    /\ Advance(a, Stopped(attempts[a], "failed"))
    /\ UNCHANGED <<files, runs, caseRuns, evidence, importer>>

-----------------------------------------------------------------------------
(* Import of a legacy runtime.                                             *)

ImportLegacyRuntime ==
    /\ importer.pc = "idle" /\ LegacyRows # << >>
    /\ importer' = [pc |-> "row", row |-> 1]
    /\ UNCHANGED <<files, runs, caseRuns, evidence, attempts>>

LegacyRow == LegacyRows[importer.row]

NextRow ==
    importer' = IF importer.row = Len(LegacyRows) THEN [pc |-> "idle", row |-> 1]
                ELSE [pc |-> "row", row |-> importer.row + 1]

\* A run that is there is kept.
createRunIfMissing ==
    /\ importer.pc = "row"
    /\ \/ LegacyRow.run \in RunIdsOf(runs) /\ UNCHANGED runs
       \/ CreateRun([id |-> LegacyRow.run, by |-> Importer, dir |-> <<"legacy", importer.row>>])
    /\ IF LegacyRow.case THEN importer' = [importer EXCEPT !.pc = "case"] ELSE NextRow
    /\ UNCHANGED <<files, caseRuns, evidence, attempts>>

ImportCaseRun ==
    /\ importer.pc = "case"
    /\ RecordAPICaseRun([id |-> <<"legacy", importer.row>>, run |-> LegacyRow.run, by |-> Importer,
                         request |-> NoFile])
    /\ IF LegacyRow.evidence THEN importer' = [importer EXCEPT !.pc = "evidence"] ELSE NextRow
    /\ UNCHANGED <<files, runs, evidence, attempts>>

ImportEvidence ==
    /\ importer.pc = "evidence"
    /\ RecordEvidence([id |-> <<"legacy", importer.row>>, run |-> LegacyRow.run,
                       caseRun |-> <<"legacy", importer.row>>, by |-> Importer, name |-> "case-run",
                       dir |-> <<"legacy", importer.row>>, summary |-> NoFile])
    /\ NextRow
    /\ UNCHANGED <<files, runs, caseRuns, attempts>>

\* An error, such as a row of an earlier import, ends the import.
ImportFails ==
    /\ importer.pc # "idle"
    /\ importer' = [pc |-> "idle", row |-> 1]
    /\ UNCHANGED <<files, runs, caseRuns, evidence, attempts>>

CaseRunNext ==
    \/ \E a \in Attempts :
          \/ Run(a) \/ handleTestKitRun(a) \/ writeJSON(a) \/ executeHTTP(a)
          \/ apiCaseEvidenceSummaries(a) \/ recordWorkflowRunForAPICase(a)
          \/ recordAPICaseRunRow(a) \/ recordAPICaseEvidenceRecords(a) \/ Fail(a)
    \/ ImportLegacyRuntime \/ createRunIfMissing \/ ImportCaseRun \/ ImportEvidence \/ ImportFails

CaseRunSpec == CaseRunInit /\ [][CaseRunNext]_caseRunVars

-----------------------------------------------------------------------------
(* Reading.                                                                *)

\* The writers of the run, the case run, the recorded summaries and the files a reader of a
\* case run is shown.
caseEvidencePayload(item) ==
    LET records == {r \in evidence : r.caseRun = item.id /\ r.name \in {"request", "response"}}
    IN  {run.by : run \in {r \in runs : r.id = item.run}} \cup {item.by, item.request}
            \cup {r.summary : r \in records} \cup {FileAt(r.dir, r.name) : r \in records}

-----------------------------------------------------------------------------
(* Properties.                                                             *)

Writers == Attempts \cup {Importer, NoFile}

\* Type correctness.
CaseRunTypeOK ==
    /\ \A f \in DOMAIN files : files[f] \in Attempts \cup {NoFile}
    /\ \A row \in runs : row.id \in RunIds \cup {r.run : r \in ToSet(LegacyRows)} /\ row.by \in Writers
    /\ \A row \in caseRuns : row.run \in RunIdsOf(runs) /\ row.by \in Writers /\ row.request \in Writers
    /\ \A row \in evidence : row.run \in RunIdsOf(runs) /\ row.by \in Writers /\ row.summary \in Writers
    /\ \A a \in Attempts :
          /\ attempts[a].pc \in {"new", "before", "after", "run", "case", "evidence", "failed", "ended"}
          /\ attempts[a].todo \subseteq NamesOf("file")
    /\ importer.pc \in {"idle", "row", "case", "evidence"}

\* Of several attempts with one id, and of an import of that id, one inserts the run row, and
\* only it records the case run and the evidence of that run, whatever failed in between:
\* the verdict a run shows is never that of one attempt beside the evidence of another.
RowsOfOneAttempt ==
    \A run \in runs :
        /\ \A row \in caseRuns : row.id = apiCaseRunRecordID(run.id) => row.by = run.by
        /\ \A row \in evidence :
              row.caseRun = apiCaseRunRecordID(run.id) =>
                  row.by = run.by /\ \E c \in caseRuns : c.id = row.caseRun

\* As long as no other attempt outside a directory of its own took its id, a run shows its readers only what its
\* own attempt sent and received: files of other ids, torn files, rows of an attempt with the
\* same id and imported rows are never shown.
OwnEvidenceShown ==
    \A item \in caseRuns :
        item.by \in Attempts
        /\ (\A a \in Attempts \ {item.by} :
               attempts[a].id # attempts[item.by].id \/ attempts[a].dir[1] = "temporary")
            => caseEvidencePayload(item) = {item.by}
=============================================================================
