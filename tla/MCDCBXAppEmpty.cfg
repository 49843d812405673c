CONSTANTS
  Features = {"APP"}
  c1 = c1
  c0 = c0
  Cfgs = {c0, c1}
  ZeroCfg = c0
  DefaultCfg = c1
  LowBitFlag = "Mismatch"
  MaxSeq = 6
  A = A
  B = B
  Newer = A
  NewerVersion = 0
  Nodes = {A, B}
  NoFrame = NoFrame
  DcbxSubtype = 2
  CtrlMaxVersion <- MCCtrlMaxVersion
  FeatMaxVersion <- MCFeatMaxVersion
  AdminSet <- MCAdminSet
  InitAdmin <- MCPayloadInitAdmin
  DrvResults = {TRUE}
  MaxChanges = 1
  MaxExpiries = 0
  MaxRestarts = 0
  RestartNodes = {}
  InitSaved <- MCNoSaved
  RxFaults <- MCNoFaults
SPECIFICATION Spec
INVARIANT PersistedIsLocal
