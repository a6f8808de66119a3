SPECIFICATION FairSpec
CONSTANTS
  e1 = e1
  wf1 = wf1
  wf2 = wf2
  Env = {e1}
  Workflow = {wf1}
  Config = {c1}
  BatchId = {b1}
  SavedId = {}
  Writer = {w1, w2}
  Claim <- TwoClaims
  SavedRun <- NoSavedRuns
  Timed = {b1}
  RegisterLabel = {"draft"}
  NoRun = NoRun
  NoRow = NoRow
  NoWorkflow = NoWorkflow
INVARIANTS TypeOK VerifiedRunAccepted
PROPERTIES GateSpec RestoreEnds
