CONSTANTS
  s1 = s1
  s2 = s2
  c1 = c1
  c2 = c2
  good = good
  other = other
  bad = bad
  bucket = bucket
  Slot <- MCSlot
  Config <- MCConfig
  First = c1
  Content <- MCContent
  LocalContent <- MCLocal
  UsableContent <- MCUsable
  NumChunks = 2
  FileName = 3
  MaxCalls = 2
  MaxEdits = 0
  MaxFaults = 0
  None = None
SPECIFICATION Spec
CHECK_DEADLOCK FALSE
INVARIANT OrderlyUploadStored
SYMMETRY MCSymmetry
