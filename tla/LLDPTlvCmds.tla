----------------------------- MODULE LLDPTlvCmds ----------------------------
(***************************************************************************)
(* The daemon's settlv handlers of the basic-management and IEEE 802.3     *)
(* modules (src/lldp_basman_cmds.c, src/lldp_8023_cmds.c) over the port    *)
(* list of LLDPPorts.  A handler writes the configuration file and then    *)
(* calls somethingChangedLocal(cmd->ifname) so that the port announces the *)
(* new setting.  tlvcfg is the file's tlvTxEnable entry of each interface  *)
(* and TLV, addrcfg its management-address entry of each interface and     *)
(* address family.  The gettlv handlers only format a reply and change    *)
(* nothing.                                                               *)
(***************************************************************************)
EXTENDS LLDPPorts

CONSTANTS
    BasmanTlvs,   \* the TLV ids the basic-management tlvTxEnable accepts
    Dot3Tlvs,     \* the TLV ids the 802.3 tlvTxEnable accepts
    TlvIds,       \* the TLV ids a command may carry
    Families,     \* the address families of set_arg_ipv4 and set_arg_ipv6
    Addrs,        \* argument strings of the address setters
    Parses        \* Parses[fam]: the strings inet_pton accepts for fam

ASSUME BasmanTlvs \cup Dot3Tlvs \subseteq TlvIds
ASSUME Parses \in [Families -> SUBSET Addrs]

\* The argvalue strings of a tlvTxEnable command, compared with strcasecmp.
ArgValues == {"yes", "no", "maybe"}

VARIABLES
    tlvcfg,   \* tlvTxEnable per interface and TLV id: TRUE, FALSE, NoSetting
    addrcfg   \* management address per interface and family, or NoSetting

cmdVars == << ports, config, tlvcfg, addrcfg >>

CmdInit ==
    /\ Init
    /\ tlvcfg \in [Names -> [TlvIds -> {NoSetting}]]
    /\ addrcfg \in [Names -> [Families -> {NoSetting}]]

\* A port step of LLDPPorts, which leaves the TLV settings alone.
PortStep == Next /\ UNCHANGED << tlvcfg, addrcfg >>

\* Variant (bug model): the setting written but the port not flagged.
set_arg_tlvtxenable_NoFlag(handled, ifname, tlvid, argvalue) ==
    /\ tlvid \in handled
    /\ argvalue \in {"yes", "no"}
    /\ tlvcfg' = [tlvcfg EXCEPT ![ifname][tlvid] = (argvalue = "yes")]
    /\ UNCHANGED << ports, config, addrcfg >>

\* set_arg_tlvtxenable of the module whose TLV ids are handled: another id
\* is cmd_not_applicable, an argvalue other than yes or no is cmd_invalid,
\* and a failed set_cfg is cmd_failed, all without a change (stuttering);
\* otherwise the setting is written and the port flagged.
set_arg_tlvtxenable(handled, ifname, tlvid, argvalue) ==
    /\ tlvid \in handled
    /\ argvalue \in {"yes", "no"}
    /\ tlvcfg' = [tlvcfg EXCEPT ![ifname][tlvid] = (argvalue = "yes")]
    /\ ports' = somethingChangedLocal(ports, ifname)
    /\ UNCHANGED << config, addrcfg >>

\* set_arg_tlvtxenable of the 802.3 module (src/lldp_8023_cmds.c): the
\* same checks, write and flag as the basic-management handler, over the
\* 802.3 TLV ids.
dot3_set_arg_tlvtxenable(ifname, tlvid, argvalue) ==
    set_arg_tlvtxenable(Dot3Tlvs, ifname, tlvid, argvalue)

\* set_arg_ipv4 and set_arg_ipv6: the command must be for the management
\* address TLV, and an address inet_pton rejects is cmd_bad_params; then as
\* set_arg_tlvtxenable with set_config_setting.
set_arg_addr(fam, ifname, addr) ==
    /\ addr \in Parses[fam]
    /\ addrcfg' = [addrcfg EXCEPT ![ifname][fam] = addr]
    /\ ports' = somethingChangedLocal(ports, ifname)
    /\ UNCHANGED << config, tlvcfg >>

CmdNext ==
    \/ PortStep
    \/ \E n \in Names, t \in TlvIds, v \in ArgValues :
         \/ set_arg_tlvtxenable(BasmanTlvs, n, t, v)
         \/ dot3_set_arg_tlvtxenable(n, t, v)
    \/ \E f \in Families, n \in Names, a \in Addrs : set_arg_addr(f, n, a)

CmdSpec == CmdInit /\ [][CmdNext]_cmdVars

-----------------------------------------------------------------------------

\* A listed port whose TLV settings a command changes is left flagged for
\* a new frame, so that what it advertises follows the configuration; a
\* setting for an interface that is not listed waits for add_port.
SettingChangeFlagged ==
    [][\A n \in Names :
         (/\ Listed(n) /\ Find(ports', n) # 0
          /\ << tlvcfg[n], addrcfg[n] >> # << tlvcfg'[n], addrcfg'[n] >>)
         => ports'[Find(ports', n)].localChange]_cmdVars

=============================================================================
