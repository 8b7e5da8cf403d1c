SPECIFICATION Spec
CONSTANTS
  o1 = o1
  m1 = m1
  i1 = i1
  i2 = i2
  Orders = {o1}
  Resting = {o1}
  Manual = {}
  Imports = {i1}
  Passes = {"loop"}
  None = None
  MaxFaults = 0
  MaxEvents = 0
INVARIANT RestingOrdersAreNotClosed
