----------------------------- MODULE DCBXNode ------------------------------
(***************************************************************************)
(* The operations of one DCBX device that a caller invokes: the            *)
(* orchestrator run_dcb_protocol(), the local configuration writes         *)
(* put_pg/put_pfc/put_app/put_llink, the peer writes put_peer_pg etc. of   *)
(* the receive path, and dcbx_add_adapter().  Each is a function from the *)
(* device store to the store after the call; DCBXLink makes them actions.  *)
(***************************************************************************)
EXTENDS DCBXControl

(***************************************************************************)
(* run_dcb_protocol(device, EventFlag, Subtype): run the feature machines  *)
(* of the flagged features fs in the order PG, PFC, APP, LLINK, skipping   *)
(* every later one once a call returned dcb_ctrl_vers_not_compatible; then *)
(* set_hw_all() (a driver push of the operational store, no store change)  *)
(* and the control machine once.  ok[f] is the result of f's push.         *)
(***************************************************************************)
RunDcbProtocol(s, ev, fs, ok, st) ==
  LET step(acc, f) ==
        IF f \notin fs \/ acc.res = "badver" THEN acc
        ELSE RunFeatureProtocol(acc.s, f, ev, ok[f])
      r == FoldLeft(step, [s |-> s, res |-> "ok"], FeatOrder)
  IN RunControlProtocol(r.s, ev, st)

\* The administered attributes of feature f that a local write carries.
AdminOf(s, f) ==
  [en |-> s.feat[f].Enable, will |-> s.feat[f].Willing,
   adv |-> s.feat[f].Advertise, cfg |-> s.cfg[f]]

\* mark_pg_sent, mark_pfc_sent, mark_app_sent, mark_llink_sent: the local
\* record of the feature, when the device has one, has its TLV sent.
MarkSent(s, f) == [s EXCEPT !.feat[f].tlv_sent = TRUE]

(***************************************************************************)
(* The local writes put_pg/put_pfc/put_app/put_llink(device, data), for an *)
(* accepted write a that differs from the stored attributes (an identical *)
(* write returns before any change; one that the rule check or            *)
(* set_persistent() refuses changes nothing).  PutLocal is their common   *)
(* part: remember the old Advertise, take the new flags and the payload   *)
(* pay, clear tlv_sent and run the protocol for this local change of f.   *)
(***************************************************************************)
PutLocal(s, f, a, pay, ok, st) ==
  LET fr == [s.feat[f] EXCEPT !.Advertise_prev = s.feat[f].Advertise,
                              !.Advertise = a.adv, !.Enable = a.en,
                              !.Willing = a.will, !.tlv_sent = FALSE]
  IN RunDcbProtocol([s EXCEPT !.feat[f] = fr, !.cfg[f] = pay],
                    "local", {f}, ok, st)

\* put_pg: the rule check (dcb_check_config) runs first; the writes the
\* model enumerates pass it.  The bandwidth tables are the payload.
PutPg(s, a, ok, st) == PutLocal(s, "PG", a, a.cfg, ok, st)

\* put_pfc: the admin array is the payload.
PutPfc(s, a, ok, st) == PutLocal(s, "PFC", a, a.cfg, ok, st)

\* put_app: the payload (Length, AppData) is copied only when the new
\* Length is nonzero; an empty payload (ZeroCfg) leaves the stored one.
PutApp(s, a, ok, st) ==
  PutLocal(s, "APP", a, IF a.cfg = ZeroCfg THEN s.cfg["APP"] ELSE a.cfg,
           ok, st)

\* put_llink: the llink record is the payload.
PutLlink(s, a, ok, st) == PutLocal(s, "LLINK", a, a.cfg, ok, st)

(***************************************************************************)
(* put_peer_control(): a control TLV flagged as duplicated or received     *)
(* with too many neighbours only updates Error_Flag; otherwise every       *)
(* field is taken.                                                         *)
(***************************************************************************)
PutPeerControl(s, pc) ==
  IF pc.Error_Flag \cap {"DupCtrl", "TooManyNghbrs"} # {}
  THEN [s EXCEPT !.pctrl.Error_Flag = pc.Error_Flag]
  ELSE [s EXCEPT !.pctrl = pc]

\* The common part of put_peer_pg/put_peer_pfc/put_peer_app/put_peer_llink:
\* copy every protocol field of the received feature record and its
\* payload (an identical record returns early, which changes nothing).
PutPeerFeature(s, f, pr, pcfg) ==
  [s EXCEPT !.peer[f] = pr, !.pcfg[f] = pcfg]

\* put_peer_pg: for the current subtype the received percentages are
\* first rebalanced (rebalance_uppcts, not in src/); the payloads of the
\* model are ones it leaves as they are.
PutPeerPg(s, pr, pcfg) == PutPeerFeature(s, "PG", pr, pcfg)

\* put_peer_pfc: the admin array is the payload.
PutPeerPfc(s, pr, pcfg) == PutPeerFeature(s, "PFC", pr, pcfg)

\* put_peer_app: Length and AppData are copied whatever the Length, unlike
\* put_app.
PutPeerApp(s, pr, pcfg) == PutPeerFeature(s, "APP", pr, pcfg)

\* put_peer_llink: the llink record is the payload.
PutPeerLlink(s, pr, pcfg) == PutPeerFeature(s, "LLINK", pr, pcfg)

(***************************************************************************)
(* dcbx_add_adapter(): build the stores (NewStore), run every feature      *)
(* machine once for a local change in the order PG, PFC, APP, LLINK, then *)
(* the control machine.  Unlike run_dcb_protocol there is no set_hw_all.   *)
(***************************************************************************)
AddAdapter(attrs, st, seq, ack, oper0, cmax, fmax, ok) ==
  LET s0 == NewStore(attrs, st, seq, ack, oper0, cmax, fmax)
      s1 == FoldLeft(LAMBDA acc, f : RunFeatureProtocol(acc, f, "local", ok[f]).s,
                     s0, FeatOrder)
  IN RunControlProtocol(s1, "local", st)

=============================================================================
