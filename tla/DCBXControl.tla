---------------------------- MODULE DCBXControl ----------------------------
(***************************************************************************)
(* The control protocol state machine, run_control_protocol() of           *)
(* src/dcb_protocol.c, with FeaturesSynched() and update_feature_syncd().  *)
(* It is the stop-and-wait part of DCBX: SeqNo counts the updates this     *)
(* side sent, AckNo is the last peer SeqNo acknowledged, MyAckNo the last  *)
(* own SeqNo the peer acknowledged.  A new update (SeqNo + 1) is issued    *)
(* only when SeqNo = MyAckNo.                                              *)
(*                                                                         *)
(* The call to somethingChangedLocal() only flags the port for an LLDP     *)
(* transmission; the transmission itself is an action of DCBXLink.         *)
(***************************************************************************)
EXTENDS DCBXFeature

\* FeaturesSynched(): every feature that entered Listen has been
\* acknowledged (Syncd) and its TLV built since the last change (tlv_sent).
FeaturesSynched(s) ==
  \A f \in Features :
    s.feat[f].State = "Listen" => s.feat[f].Syncd /\ s.feat[f].tlv_sent

\* Variant (bug model): only force-sending features count as synchronised.
UpdateFeatureSyncdForceOnly(s) ==
  [s EXCEPT !.feat = [f \in Features |->
     IF s.feat[f].force_send
     THEN [s.feat[f] EXCEPT !.Syncd = TRUE] ELSE s.feat[f]]]

\* update_feature_syncd(): features that are not advertised, or that are
\* force-sending after a duplicate TLV, count as synchronised.
UpdateFeatureSyncd(s) ==
  [s EXCEPT !.feat = [f \in Features |->
     IF ~s.feat[f].Advertise \/ s.feat[f].force_send
     THEN [s.feat[f] EXCEPT !.Syncd = TRUE] ELSE s.feat[f]]]

\* Variant (bug model): a new SeqNo without waiting for the acknowledgement.
SendNoWait(s) ==
  IF ~FeaturesSynched(s)
  THEN [UpdateFeatureSyncd(s) EXCEPT !.ctrl.SeqNo = @ + 1]
  ELSE s

\* The "send:" tail: issue a new sequence number when nothing is
\* outstanding and some feature still has to be synchronised.
Send(s) ==
  IF s.ctrl.SeqNo = s.ctrl.MyAckNo /\ ~FeaturesSynched(s)
  THEN [UpdateFeatureSyncd(s) EXCEPT !.ctrl.SeqNo = @ + 1]
  ELSE s

\* Variant (bug model): the peer's version is taken instead of the lower.
CtrlVersionPeer(c, pc) == pc.Max_version

\* The version the control protocol runs at: the lower of the two builds'.
CtrlVersion(c, pc) == Min({pc.Max_version, c.Max_version})

\* Variant (bug model): MyAckNo taken from the peer's SeqNo field.
CtrlAckSeq(c, pc) ==
  LET acked == [c EXCEPT !.MyAckNo = pc.SeqNo]
  IN IF /\ (acked.AckNo # pc.SeqNo \/ acked.MyAckNo = 0)
        /\ "TooManyNghbrs" \notin pc.Error_Flag
     THEN [acked EXCEPT !.AckNo = pc.SeqNo] ELSE acked

\* The acknowledgement step: take the peer's AckNo as MyAckNo, and
\* acknowledge the peer's SeqNo if it is new (or nothing was acknowledged
\* yet) and the peer is not one of too many neighbours.
CtrlAck(c, pc) ==
  LET acked == [c EXCEPT !.MyAckNo = pc.AckNo]
  IN IF /\ (acked.AckNo # pc.SeqNo \/ acked.MyAckNo = 0)
        /\ "TooManyNghbrs" \notin pc.Error_Flag
     THEN [acked EXCEPT !.AckNo = pc.SeqNo] ELSE acked

\* The peer's TLVs expired: restart the exchange from sequence number 0 at
\* the local version and mark the peer record Reset.
ExpiredReset(s) ==
  [s EXCEPT !.ctrl.SeqNo = 0, !.ctrl.AckNo = 0, !.ctrl.MyAckNo = 0,
            !.ctrl.Oper_version = s.ctrl.Max_version,
            !.pctrl.RxDCBTLVState = "Reset"]

\* The remote-change ladder of the Listen state, steps before "send:".
\* node_st is the dcbx_st of the local PG record (get_pg()), which decides
\* whether the peer-expired reset retransmits.
RemoteCtrl(s, node_st) ==
  LET c  == s.ctrl
      pc == s.pctrl
  IN
  IF pc.RxDCBTLVState = "Expired"
  THEN IF node_st = dcbx_subtype2 THEN ExpiredReset(s) ELSE Send(ExpiredReset(s))
  ELSE IF "DupCtrl" \in pc.Error_Flag
  THEN Send(s)
  ELSE IF c.Oper_version # CtrlVersion(c, pc)
  THEN Send([s EXCEPT !.ctrl.Oper_version = CtrlVersion(c, pc)])
  ELSE IF c.Oper_version # pc.Oper_version
  THEN Send(s)
  ELSE Send([s EXCEPT !.ctrl = CtrlAck(c, pc)])

(***************************************************************************)
(* run_control_protocol(device, EventFlag): Init -> Listen, then either   *)
(* the local-change or the remote-change processing.                      *)
(***************************************************************************)
RunControlProtocol(s, ev, node_st) ==
  LET s1 == IF s.ctrl.State = "Init"
            THEN [s EXCEPT !.ctrl.Oper_version = s.ctrl.Max_version,
                           !.ctrl.State = "Listen"]
            ELSE s
  IN IF ev = "local" THEN Send(s1) ELSE RemoteCtrl(s1, node_st)

=============================================================================
