-------------------------- MODULE VerificationGate --------------------------
(***************************************************************************)
(* What the Environment Catalog promises to those who discover             *)
(* environments, with no commands, no Store rows and no interleavings:     *)
(* a run comes to prove a workflow, once and for good, and an environment  *)
(* is listed as verified only with a run that proves its workflow.         *)
(***************************************************************************)
CONSTANTS Env, Workflow, RunId, NoRun, Absent

VARIABLES
  listing,  \* what the catalog lists for each environment
  proof     \* the runs that passed the gate, with the workflow they prove

Entry == [workflow: Workflow, run: RunId \cup {NoRun}, verified: BOOLEAN]

Init ==
  /\ listing = [e \in Env |-> Absent]
  /\ proof = {}

\* Run r has passed, with its acceptance report for wf, evidence and topology.
Prove(r, wf) ==
  /\ \A other \in Workflow : <<r, other>> \notin proof
  /\ proof' = proof \cup {<<r, wf>>}
  /\ UNCHANGED listing

\* An entry is written in one piece, by any command.
List(e, entry) ==
  /\ entry.verified => <<entry.run, entry.workflow>> \in proof
  /\ listing' = [listing EXCEPT ![e] = entry]
  /\ UNCHANGED proof

Next ==
  \/ \E r \in RunId, wf \in Workflow : Prove(r, wf)
  \/ \E e \in Env, entry \in Entry : List(e, entry)

Spec == Init /\ [][Next]_<<listing, proof>>
=============================================================================
