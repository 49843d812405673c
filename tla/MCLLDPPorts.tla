---------------------------- MODULE MCLLDPPorts -----------------------------
(***************************************************************************)
(* Model-checking instance of LLDPPorts: the four values of enum           *)
(* portAdminStatus and two interfaces named in the .cfg files.              *)
(***************************************************************************)
EXTENDS LLDPPorts, TLC

MCAdminStatus == {"disabled", "enabledTxOnly", "enabledRxOnly", "enabledRxTx"}
MCTxStatus == {"enabledTxOnly", "enabledRxTx"}

\* The interfaces are interchangeable: config is chosen over every setting.
MCSymmetry == Permutations(Names)

=============================================================================
