CONSTANTS
  i1 = i1
  i2 = i2
  t1 = t1
  t2 = t2
  t3 = t3
  Instance <- MCInstance
  Tag <- MCTag
  Version <- MCVersion
  Declared <- MCDeclared
  MaxStarts = 4
  MaxFaults = 2
SPECIFICATION Spec
CHECK_DEADLOCK FALSE
INVARIANTS
  TypeOK
  OneRowUnlessOverlapped
  RegisteredUnlessDisturbed
SYMMETRY MCSymmetry
