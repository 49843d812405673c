--------------------------- MODULE MCLLDPTlvCmds ----------------------------
(***************************************************************************)
(* Model-checking instance of LLDPTlvCmds: one TLV id per module, one the  *)
(* daemon does not handle, and one address family with a good and a bad   *)
(* argument.                                                               *)
(***************************************************************************)
EXTENDS LLDPTlvCmds, MCLLDPPorts

\* Two admin statuses, one of which transmits, keep the port list small.
MCCmdAdminStatus == {"disabled", "enabledRxTx"}
MCCmdTxStatus == {"enabledRxTx"}

\* hw_resetting is neither read nor written by the command handlers, and
\* the port-list run explores it; here ports keep it clear.
MCNoHwReset == \A i \in DOMAIN ports : ~ports[i].hw_resetting

MCParses == [f \in Families |-> {"192.0.2.1"}]

=============================================================================
