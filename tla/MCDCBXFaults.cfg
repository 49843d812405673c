CONSTANTS
  Features = {"PFC"}
  c1 = c1
  c2 = c2
  Cfgs = {c1, c2}
  ZeroCfg = c1
  DefaultCfg = c1
  LowBitFlag = "Mismatch"
  MaxSeq = 7
  A = A
  B = B
  Newer = A
  NewerVersion = 0
  Nodes = {A, B}
  NoFrame = NoFrame
  DcbxSubtype = 2
  CtrlMaxVersion <- MCCtrlMaxVersion
  FeatMaxVersion <- MCFeatMaxVersion
  AdminSet <- MCAdminSet
  InitAdmin <- MCInitAdmin
  DrvResults = {TRUE}
  MaxChanges = 0
  MaxExpiries = 1
  MaxRestarts = 1
  RestartNodes = {A}
  InitSaved <- MCLeftoverSaved
  RxFaults <- MCNoFaults
SPECIFICATION Spec
CONSTRAINT MCOneFault
INVARIANT SeqNoBounded
INVARIANT OperAgreement
PROPERTY Convergence
