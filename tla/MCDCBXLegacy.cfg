CONSTANTS
  Features = {"PFC"}
  c1 = c1
  c2 = c2
  Cfgs = {c1, c2}
  ZeroCfg = c1
  DefaultCfg = c1
  LowBitFlag = "Mismatch"
  MaxSeq = 6
  A = A
  B = B
  Newer = A
  NewerVersion = 0
  Nodes = {A, B}
  NoFrame = NoFrame
  DcbxSubtype = 1
  CtrlMaxVersion <- MCCtrlMaxVersion
  FeatMaxVersion <- MCFeatMaxVersion
  AdminSet <- MCAdminSet
  InitAdmin <- MCInitAdmin
  DrvResults = {TRUE, FALSE}
  MaxChanges = 1
  MaxExpiries = 0
  MaxRestarts = 0
  RestartNodes = {}
  InitSaved <- MCNoSaved
  RxFaults <- MCNoFaults
SPECIFICATION Spec
INVARIANT SeqNoBounded
INVARIANT AckChain
INVARIANT OperAgreement
INVARIANT FeatureIdempotent
\* Convergence holds here too (checked once: 697,208 distinct states, about
\* five minutes with the liveness check); it is checked in link_current,
\* link_features and link_faults, and left out here to keep the run short.
