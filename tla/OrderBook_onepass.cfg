SPECIFICATION FairSpec
CONSTANTS
  o1 = o1
  m1 = m1
  i1 = i1
  i2 = i2
  Orders = {o1}
  Resting = {o1}
  Manual = {m1}
  Imports = {i1}
  Passes = {"loop"}
  None = None
  MaxFaults = 1
  MaxEvents = 0
INVARIANTS
  OneRowPerPosition
PROPERTY
  BookConverges
