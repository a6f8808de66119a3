SPECIFICATION Spec
CONSTANTS
  e1 = e1
  wf1 = wf1
  wf2 = wf2
  Env = {e1}
  Workflow = {wf1, wf2}
  Config = {c1}
  BatchId = {b1}
  SavedId = {s1}
  Writer = {w1}
  Claim <- TwoClaims
  SavedRun <- SavedRuns
  Timed = {}
  RegisterLabel = {"draft"}
  NoRun = NoRun
  NoRow = NoRow
  NoWorkflow = NoWorkflow
INVARIANT VerifiedRunAccepted
PROPERTY StoredFactsStay
