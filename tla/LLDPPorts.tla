------------------------------ MODULE LLDPPorts -----------------------------
(***************************************************************************)
(* The daemon's list of LLDP ports, src/lldp/ports.c, and the local-change *)
(* flag that somethingChangedLocal (src/lldp_tlv.c) raises on a port.      *)
(*                                                                         *)
(* ports is the linked list from porthead, first element first.  A port   *)
(* keeps the fields these functions write and that outlive the call:      *)
(* adminStatus, portEnabled, hw_resetting and tx.localChange.  The timers,*)
(* the rx/tx state machines (run_tx_sm, run_rx_sm, rxInitializeLLDP,      *)
(* txInitializeLLDP) and the MSAP and frame buffers are not under src/;   *)
(* the one step of them modelled is the transmit that consumes a local    *)
(* change (spec.md section 5, LLDP transmit trigger).  config is the      *)
(* configuration file's adminStatus entry per interface, or NoSetting.    *)
(***************************************************************************)
EXTENDS Naturals, Sequences, SequencesExt

CONSTANTS
    Names,        \* interface names
    AdminStatus,  \* the values of enum portAdminStatus
    disabled,     \* the one of them that is 0, what memset leaves
    TxStatus,     \* the admin statuses under which the port transmits
    NoSetting,    \* no adminStatus entry in the configuration file
    MaxPorts      \* bound on the length of the list

ASSUME disabled \in AdminStatus /\ TxStatus \subseteq AdminStatus
ASSUME NoSetting \notin AdminStatus /\ "" \notin Names /\ MaxPorts \in Nat

\* The ifname argument of set_lldp_port_admin: a name, or "" for all ports.
AdminTargets == Names \cup {""}

VARIABLES
    ports,    \* the port list from porthead
    config    \* the adminStatus setting of each interface in the config file

vars == << ports, config >>

Port == [name : Names, adminStatus : AdminStatus, portEnabled : BOOLEAN,
         hw_resetting : BOOLEAN, localChange : BOOLEAN]

\* The walk from porthead that every function of ports.c does: the index
\* of the first port named n, or 0 when the walk reaches NULL.
Find(ps, n) == SelectInSeq(ps, LAMBDA p : p.name = n)

Listed(n) == Find(ports, n) # 0

\* somethingChangedLocal(ifname): the first port named ifname gets
\* tx.localChange = 1; no such port, no change.
somethingChangedLocal(ps, ifname) ==
    LET i == Find(ps, ifname) IN
    IF i = 0 THEN ps ELSE [ps EXCEPT ![i].localChange = TRUE]

\* The port add_port links in.  The struct is zeroed, so adminStatus is
\* disabled unless init_cfg succeeds (cfgOk) and get_config_setting finds
\* an entry.
NewPort(n, cfgOk) ==
    [name         |-> n,
     adminStatus  |-> IF cfgOk /\ config[n] # NoSetting THEN config[n]
                      ELSE disabled,
     portEnabled  |-> FALSE,
     hw_resetting |-> FALSE,
     localChange  |-> FALSE]

Init ==
    /\ ports = << >>
    /\ config \in [Names -> AdminStatus \cup {NoSetting}]

\* add_port(n): a port already listed is success without a change;
\* otherwise a new port goes to the head of the list, unless malloc,
\* strdup or l2_packet_init fails (allocOk = FALSE), which frees it.
add_port(n) ==
    /\ Len(ports) < MaxPorts
    /\ \E allocOk, cfgOk \in BOOLEAN :
         ports' = IF Listed(n) \/ ~allocOk THEN ports
                  ELSE << NewPort(n, cfgOk) >> \o ports
    /\ UNCHANGED config

\* remove_port(n): unlink the first port named n and free it; -1 and no
\* change when there is none.
remove_port(n) ==
    LET i == Find(ports, n) IN
    /\ ports' = IF i = 0 THEN ports ELSE RemoveAt(ports, i)
    /\ UNCHANGED config

\* The ports set_lldp_port_admin(ifname, admin) visits: with "" every port
\* except those with an explicit setting in the config file; otherwise the
\* first port named ifname.
AdminVisited(ifname) ==
    IF ifname = ""
    THEN {i \in DOMAIN ports : config[ports[i].name] = NoSetting}
    ELSE {Find(ports, ifname)} \ {0}

\* set_lldp_port_admin(ifname, admin): each visited port whose status
\* differs takes admin, and somethingChangedLocal(ifname) is called with
\* the argument as given.
set_lldp_port_admin(ifname, admin) ==
    LET chg == {i \in AdminVisited(ifname) : ports[i].adminStatus # admin}
        set == [i \in DOMAIN ports |->
                  IF i \in chg THEN [ports[i] EXCEPT !.adminStatus = admin]
                  ELSE ports[i]]
    IN /\ ports' = IF chg = {} THEN set ELSE somethingChangedLocal(set, ifname)
       /\ UNCHANGED config

\* set_lldp_port_enable_state(n, enable).
set_lldp_port_enable_state(n, enable) ==
    LET i == Find(ports, n) IN
    /\ ports' = IF i = 0 THEN ports
                ELSE [ports EXCEPT ![i].portEnabled = enable]
    /\ UNCHANGED config

\* set_port_hw_resetting(n, resetting).
set_port_hw_resetting(n, resetting) ==
    LET i == Find(ports, n) IN
    /\ ports' = IF i = 0 THEN ports
                ELSE [ports EXCEPT ![i].hw_resetting = resetting]
    /\ UNCHANGED config

\* reinit_port(n): the port's state is reset as add_port sets it, except
\* adminStatus, which is kept.
reinit_port(n) ==
    LET i == Find(ports, n) IN
    /\ ports' = IF i = 0 THEN ports
                ELSE [ports EXCEPT ![i].hw_resetting = FALSE,
                                   ![i].portEnabled = FALSE]
    /\ UNCHANGED config

\* The transmit state machine sends a frame for the local change on an
\* enabled port whose admin status allows transmitting.
TxFrame(n) ==
    LET i == Find(ports, n) IN
    /\ i # 0
    /\ ports[i].localChange
    /\ ports[i].portEnabled
    /\ ports[i].adminStatus \in TxStatus
    /\ ports' = [ports EXCEPT ![i].localChange = FALSE]
    /\ UNCHANGED config

Next ==
    \/ \E n \in Names : add_port(n) \/ remove_port(n) \/ reinit_port(n)
                        \/ TxFrame(n)
    \/ \E n \in AdminTargets, a \in AdminStatus : set_lldp_port_admin(n, a)
    \/ \E n \in Names, b \in BOOLEAN :
         set_lldp_port_enable_state(n, b) \/ set_port_hw_resetting(n, b)

Spec == Init /\ [][Next]_vars

-----------------------------------------------------------------------------

TypeOK ==
    /\ ports \in Seq(Port) /\ Len(ports) <= MaxPorts
    /\ config \in [Names -> AdminStatus \cup {NoSetting}]

\* A port whose adminStatus set_lldp_port_admin changes gets its local
\* change flag, so that the transmit state machine announces the new
\* status (spec.md section 5: mark_dirty signals that a new frame should
\* be sent), whether the change was asked for this port or for all ports.
AdminChangeFlagged ==
    [][\A n \in Names :
         (/\ Listed(n) /\ Find(ports', n) # 0
          /\ ports'[Find(ports', n)].adminStatus
                # ports[Find(ports, n)].adminStatus)
         => ports'[Find(ports', n)].localChange]_vars

=============================================================================
