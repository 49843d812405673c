\* Two interfaces, a TLV id of each module and one neither handles, and
\* an address inet_pton accepts beside one it rejects.
CONSTANTS
    p1 = p1
    p2 = p2
    Names = {p1, p2}
    NoSetting = NoSetting
    AdminStatus <- MCCmdAdminStatus
    disabled = "disabled"
    TxStatus <- MCCmdTxStatus
    MaxPorts = 2
    sysName = sysName
    macPhy = macPhy
    other = other
    BasmanTlvs = {sysName}
    Dot3Tlvs = {macPhy}
    TlvIds = {sysName, macPhy, other}
    Families = {"ipv4"}
    Addrs = {"192.0.2.1", "300.1"}
    Parses <- MCParses
SYMMETRY MCSymmetry
CONSTRAINT MCNoHwReset
SPECIFICATION CmdSpec
PROPERTY SettingChangeFlagged
