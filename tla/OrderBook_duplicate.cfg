SPECIFICATION Spec
CONSTANTS
  o1 = o1
  m1 = m1
  i1 = i1
  i2 = i2
  Orders = {}
  Resting = {}
  Manual = {m1}
  Imports = {i1,i2}
  Passes = {"loop","tool"}
  None = None
  MaxFaults = 0
  MaxEvents = 0
INVARIANT OneRowPerPosition
