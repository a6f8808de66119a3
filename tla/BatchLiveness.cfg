SPECIFICATION FairSpec
CONSTANTS
  c1 = c1
  c2 = c2
  Batch = {b1, b2}
  Case = {c1, c2}
  Binding <- OneStep
  Selection <- OtherCase
  Timed = {c1}
  MaxCases = 1
  NoBatch = NoBatch
  Unborn = Unborn
  Gone = Gone
PROPERTY TimedBatchEnds
