SPECIFICATION Spec
CONSTANTS
  o1 = o1
  m1 = m1
  i1 = i1
  i2 = i2
  Orders = {o1}
  Resting = {}
  Manual = {}
  Imports = {i1}
  Passes = {"loop", "tool"}
  None = None
  MaxFaults = 2
  MaxEvents = 0
INVARIANTS
  OwnOrdersNeverImported
  GraceProtectsPlacing
  ClosedOnlyAfterAGoodRead
PROPERTY
  KeepsLedger
