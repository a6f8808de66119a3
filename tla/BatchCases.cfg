SPECIFICATION Spec
CONSTANTS
  c1 = c1
  c2 = c2
  Batch = {b1}
  Case = {c1, c2}
  Binding <- ThreeSteps
  Selection <- TwoSelections
  Timed = {c1}
  MaxCases = 3
  NoBatch = NoBatch
  Unborn = Unborn
  Gone = Gone
INVARIANTS TypeOK PassedIsRecorded AcceptedIsProven ExportsArePassed
PROPERTY ClientSpec
