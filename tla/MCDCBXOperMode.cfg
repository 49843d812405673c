\* The feature invariant of the data model against a local disable.
CONSTANTS
  Features = {"PFC"}
  c1 = c1
  c2 = c2
  Cfgs = {c1, c2}
  ZeroCfg = c1
  DefaultCfg = c1
  LowBitFlag = "Mismatch"
  MaxSeq = 6
  A = A
  B = B
  Newer = A
  NewerVersion = 0
  Nodes = {A, B}
  NoFrame = NoFrame
  DcbxSubtype = 2
  CtrlMaxVersion <- MCCtrlMaxVersion
  FeatMaxVersion <- MCFeatMaxVersion
  AdminSet <- MCAdminSet
  InitAdmin <- MCInitAdmin
  DrvResults = {TRUE}
  MaxChanges = 1
  MaxExpiries = 0
  MaxRestarts = 0
  RestartNodes = {}
  InitSaved <- MCNoSaved
  RxFaults <- MCNoFaults
SPECIFICATION Spec
INVARIANT OperModeNeedsEnable
