\* Two interfaces and a list bound one past them, so that a duplicate
\* entry would fit.
CONSTANTS
    p1 = p1
    p2 = p2
    Names = {p1, p2}
    NoSetting = NoSetting
    AdminStatus <- MCAdminStatus
    disabled = "disabled"
    TxStatus <- MCTxStatus
    MaxPorts = 3
SYMMETRY MCSymmetry
SPECIFICATION Spec
PROPERTY AdminChangeFlagged
