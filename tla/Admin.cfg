CONSTANTS
  root = root
  deptA = deptA
  deptB = deptB
  deptC = deptC
  p1 = p1
  p2 = p2
  s1 = s1
  s2 = s2
  r1 = r1
  r2 = r2
  Dept <- MCDept
  RootDept = root
  DeptOrder <- MCDeptOrder
  NoDept = NoDept
  User <- MCPair
  DeptSlot <- MCSlot
  DeptMaxCalls = 2
  DictInstance <- MCPair
  DictCode <- MCDictCode
  ItemCode <- MCItemCode
  ItemValue <- MCItemValue
  DictVersion <- MCVersion
  DictDeclared <- MCDeclared
  MaxDictStarts = 3
  MaxDictEdits = 1
  MaxDictFaults = 1
  NoDict = "none"
  FormKey <- MCPair
  NoKey = NoKey
  FormSlot <- MCSlot
  MaxFormCalls = 3
  CacheKey <- MCCacheKey
  NoEntry = NoEntry
  CacheSlot <- MCSlot
  CacheMethod <- MCCacheMethod
  MaxCacheCalls = 3
SPECIFICATION AdminSpec
CHECK_DEADLOCK FALSE
INVARIANTS
  AdminTypeOK
  NobodyLost
  CountsExactly
  TreeFaithful
  OneItemUnlessOverlapped
  DeclaredUnlessDisturbed
  KeysUniqueUnlessOverlapped
  CategoryKeptUnlessCrossed
  FreshUnlessDisturbed
SYMMETRY MCSymmetry
