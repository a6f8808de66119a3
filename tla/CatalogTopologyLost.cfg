SPECIFICATION Spec
CONSTANTS
  e1 = e1
  wf1 = wf1
  wf2 = wf2
  Env = {e1}
  Workflow = {wf1}
  Config = {c1}
  BatchId = {b1}
  SavedId = {}
  Writer = {w1}
  Claim <- NoClaims
  SavedRun <- NoSavedRuns
  Timed = {}
  RegisterLabel = {"draft"}
  NoRun = NoRun
  NoRow = NoRow
  NoWorkflow = NoWorkflow
INVARIANT VerifiedHasCompleteTopology
