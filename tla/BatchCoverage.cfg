SPECIFICATION Spec
CONSTANTS
  c1 = c1
  c2 = c2
  Batch = {b1}
  Case = {c1, c2}
  Binding <- TwoSteps
  Selection <- NoSelection
  Timed = {c1}
  MaxCases = 2
  NoBatch = NoBatch
  Unborn = Unborn
  Gone = Gone
INVARIANT AcceptanceCoversWorkflow
