----------------------------- MODULE DCBXLink ------------------------------
(***************************************************************************)
(* Two DCBX devices at the ends of one link.  Each runs the engine of      *)
(* src/dcb_protocol.c on its own store (DCBXNode); they interact only      *)
(* through LLDP frames carrying the control TLV and one TLV per            *)
(* advertised feature.                                                     *)
(*                                                                         *)
(* The LLDP agent around the engine (the TLV builders and the receive      *)
(* handler of lldp_dcbx.c, the transmit and TTL timers) is not part of     *)
(* src/; its actions are modelled from the specification's account of it: *)
(*  - Transmit builds a frame from the store, marking each feature's TLV  *)
(*    slot as sent (mark_pfc_sent etc.); LLDP retransmits                 *)
(*    periodically, so a frame may be sent at any time;                    *)
(*  - Receive stores the peer control and feature TLVs (put_peer_pfc etc.) *)
(*    and runs the engine for a remote change of every feature;          *)
(*  - Expire is the peer's TTL running out: the peer records are marked   *)
(*    Expired / not present and the engine runs for a remote change;       *)
(*  - Lose drops a frame in flight; a newer frame also replaces an older   *)
(*    one that was not yet received (one slot per direction).              *)
(* Write is a local configuration change (put_pfc etc.).  Whether the     *)
(* driver accepts the pushes of a feature is chosen from DrvResults when   *)
(* the device is added and stays so (a driver that refuses a setting      *)
(* keeps refusing it).                                                     *)
(***************************************************************************)
EXTENDS DCBXNode

CONSTANTS
  Nodes,           \* the two devices
  NoFrame,         \* an empty channel slot
  DcbxSubtype,     \* gdcbx_subtype of both devices
  CtrlMaxVersion,  \* Nodes -> DCB_MAX_VERSION of each build
  FeatMaxVersion,  \* Nodes -> [Features -> DCB_*_MAX_VERSION]
  DefaultCfg,      \* PG payload of the "default" store copied into Oper
  InitAdmin,       \* persisted attribute records a device may start from
  AdminSet,        \* administered attribute records a write may carry
  DrvResults,      \* the results a driver push may return
  MaxChanges,      \* bound on local configuration writes
  MaxExpiries,     \* bound on peer expiries
  MaxRestarts,     \* bound on restarts
  RestartNodes,    \* the devices that may be restarted
  InitSaved,       \* dcbx_states a device may find saved when first added
  RxFaults         \* the sets of error flags the receive path may raise

ASSUME Cardinality(Nodes) = 2
ASSUME DcbxSubtype \in {dcbx_subtype1, dcbx_subtype2}
ASSUME DefaultCfg \in Cfgs
ASSUME InitAdmin \subseteq AdminSet
ASSUME AdminSet \subseteq [en: BOOLEAN, will: BOOLEAN, adv: BOOLEAN, cfg: Cfgs]
ASSUME DrvResults \subseteq BOOLEAN /\ DrvResults # {}
ASSUME RestartNodes \subseteq Nodes
ASSUME RxFaults \subseteq SUBSET PeerErrFlags /\ {} \in RxFaults

VARIABLES
  dcb,        \* dcb[n]: the store of device n
  chan,       \* chan[n]: the frame from n in flight, or NoFrame
  drv,        \* drv[n][f]: whether n's driver accepts pushes of f
  changes,    \* local writes so far
  expiries,   \* peer expiries so far
  saved,      \* saved[n]: the dcbx_state persisted for n (SeqNo, AckNo)
  restarts,   \* daemon restarts so far
  persisted   \* persisted[n][f]: the attributes set_persistent stored

vars == <<dcb, chan, drv, changes, expiries, saved, restarts, persisted>>

Other(n) == CHOOSE m \in Nodes : m # n

\* The feature TLV of an advertised feature.
FeatTlv(s, f) ==
  [Enable |-> s.feat[f].Enable, Willing |-> s.feat[f].Willing,
   Error |-> s.feat[f].Error, Max_version |-> s.feat[f].Max_version,
   Oper_version |-> s.feat[f].Oper_version,
   dcbx_st |-> s.feat[f].dcbx_st, cfg |-> s.cfg[f]]

\* The DCBX TLVs that the builders put into the next LLDP frame of a
\* device: the control TLV and a TLV for each advertised feature.
Frame(s) ==
  [ctrl |-> [SeqNo |-> s.ctrl.SeqNo, AckNo |-> s.ctrl.AckNo,
             Max_version |-> s.ctrl.Max_version,
             Oper_version |-> s.ctrl.Oper_version],
   tlv  |-> [f \in {g \in Features : s.feat[g].Advertise} |-> FeatTlv(s, f)]]

\* The put_peer_* call the receive path makes for a feature TLV.
PutPeer(f, s, pr, pcfg) ==
  CASE f = "PG"    -> PutPeerPg(s, pr, pcfg)
    [] f = "PFC"   -> PutPeerPfc(s, pr, pcfg)
    [] f = "APP"   -> PutPeerApp(s, pr, pcfg)
    [] f = "LLINK" -> PutPeerLlink(s, pr, pcfg)

\* The peer records the receive path stores for a frame.  flt are the
\* error flags it raised on the frame: DupCtrl for a second control TLV,
\* DupFeat for a second TLV of a feature, TooManyNghbrs for frames from
\* more than one neighbour.  The control record carries DupCtrl and
\* TooManyNghbrs, every feature record DupCtrl and DupFeat.
StoreFrame(s, fr, flt) ==
  LET s1 == PutPeerControl(s, fr.ctrl @@
                [RxDCBTLVState |-> "Synced",
                 Error_Flag |-> flt \cap {"DupCtrl", "TooManyNghbrs"}])
      rec(f) == [TLVPresent |-> TRUE, Enable |-> fr.tlv[f].Enable,
                 Willing |-> fr.tlv[f].Willing, Error |-> fr.tlv[f].Error,
                 Max_version |-> fr.tlv[f].Max_version,
                 Oper_version |-> fr.tlv[f].Oper_version,
                 dcbx_st |-> fr.tlv[f].dcbx_st,
                 Error_Flag |-> flt \cap {"DupCtrl", "DupFeat"}]
      store(acc, f) ==
        IF f \in DOMAIN fr.tlv
        THEN PutPeer(f, acc, rec(f), fr.tlv[f].cfg)
        ELSE [acc EXCEPT !.peer[f].TLVPresent = FALSE]
  IN FoldLeft(store, s1, FeatOrder)

\* The store of n right after dcbx_add_adapter() with the persisted
\* attributes adm and the dcbx_state st read by get_dcbx_state.
AddedStore(n, adm, st, okf) ==
  AddAdapter(adm, DcbxSubtype, st.SeqNo, st.AckNo,
             [f \in Features |-> InitOper(f, DefaultCfg)],
             CtrlMaxVersion[n], FeatMaxVersion[n], okf)

\* The device stores right after dcbx_add_adapter() on both ends.
AddedStores(adm, st, okf) ==
  [n \in Nodes |-> AddedStore(n, adm[n], st[n], okf[n])]

Init ==
  /\ drv \in [Nodes -> [Features -> DrvResults]]
  /\ saved \in [Nodes -> InitSaved]
  /\ persisted \in [Nodes -> [Features -> InitAdmin]]
  /\ dcb = AddedStores(persisted, saved, drv)
  /\ chan = [n \in Nodes |-> NoFrame]
  /\ changes = 0
  /\ expiries = 0
  /\ restarts = 0

\* The LLDP transmit path builds a frame; building the DCBX TLVs marks
\* every feature's TLV slot as sent.
Transmit(n) ==
  /\ chan' = [chan EXCEPT ![n] = Frame(dcb[n])]
  /\ dcb' = [dcb EXCEPT ![n] = FoldSet(LAMBDA f, s : MarkSent(s, f), @, Features)]
  /\ UNCHANGED <<drv, changes, expiries, saved, restarts, persisted>>

\* The model explores sequence numbers below MaxSeq: a step that runs the
\* engine of m is taken only while its SeqNo is below the bound.
EngineBound(m) == dcb[m].ctrl.SeqNo < MaxSeq

\* A frame from the peer is waiting and m may run its engine.
RxOffered(m) == chan[Other(m)] # NoFrame /\ EngineBound(m)

\* A frame from the peer arrives: store it, with the error flags the
\* receive path raised on it, and run a remote change.
Receive(m) ==
  LET n == Other(m) IN
  /\ RxOffered(m)
  /\ \E flt \in RxFaults :
       dcb' = [dcb EXCEPT ![m] = RunDcbProtocol(StoreFrame(dcb[m], chan[n], flt),
                                               "remote", Features, drv[m],
                                               DcbxSubtype)]
  /\ chan' = [chan EXCEPT ![n] = NoFrame]
  /\ UNCHANGED <<drv, changes, expiries, saved, restarts, persisted>>

\* The peer's TTL expires: its records are marked expired and absent.
Expire(m) ==
  /\ expiries < MaxExpiries
  /\ EngineBound(m)
  /\ LET s == [dcb[m] EXCEPT
                 !.pctrl.RxDCBTLVState = "Expired",
                 !.peer = [f \in Features |->
                             [dcb[m].peer[f] EXCEPT !.TLVPresent = FALSE]]]
     IN dcb' = [dcb EXCEPT ![m] = RunDcbProtocol(s, "remote", Features,
                                                 drv[m], DcbxSubtype)]
  /\ expiries' = expiries + 1
  /\ UNCHANGED <<chan, drv, changes, saved, restarts, persisted>>

\* A frame in flight is lost.
Lose(n) ==
  /\ chan[n] # NoFrame
  /\ chan' = [chan EXCEPT ![n] = NoFrame]
  /\ UNCHANGED <<dcb, drv, changes, expiries, saved, restarts, persisted>>

\* The local write of feature f that the control interface dispatches.
Put(f, s, a, ok, st) ==
  CASE f = "PG"    -> PutPg(s, a, ok, st)
    [] f = "PFC"   -> PutPfc(s, a, ok, st)
    [] f = "APP"   -> PutApp(s, a, ok, st)
    [] f = "LLINK" -> PutLlink(s, a, ok, st)

\* An accepted local write of feature f with new attributes a: the write
\* differs from the stored attributes, set_persistent stores a, and the
\* put_* handler updates the store and runs the engine.
Write(n) ==
  /\ changes < MaxChanges
  /\ EngineBound(n)
  /\ \E f \in Features, a \in AdminSet :
       /\ a # AdminOf(dcb[n], f)
       /\ persisted' = [persisted EXCEPT ![n][f] = a]
       /\ dcb' = [dcb EXCEPT ![n] = Put(f, dcb[n], a, drv[n], DcbxSubtype)]
  /\ changes' = changes + 1
  /\ UNCHANGED <<chan, drv, expiries, saved, restarts>>

\* dcbx_remove_all at daemon shutdown: clear_dcbx_state, then
\* save_dcbx_state of each device's SeqNo and AckNo, which may fail and
\* leave the state cleared.
SavedState(n, saveOk) ==
  IF saveOk THEN [SeqNo |-> dcb[n].ctrl.SeqNo, AckNo |-> dcb[n].ctrl.AckNo]
            ELSE NoState

\* The store of n is torn down and rebuilt.  Either the daemon stops,
\* through dcbx_remove_all or a crash that skips it, and starts again; or
\* the interface goes down and up, so that dcbx_remove_adapter erases the
\* stores and dcbx_add_adapter rebuilds them while the saved dcbx_state is
\* the one of the last daemon shutdown.  dcbx_add_adapter reads the
\* attributes put_pfc persisted and the saved dcbx_state.  The peer keeps
\* its records, and frames already on the link stay there.
Restart(n) ==
  /\ n \in RestartNodes
  /\ restarts < MaxRestarts
  /\ \E st \in {SavedState(n, TRUE), SavedState(n, FALSE), saved[n]} :
       /\ saved' = [saved EXCEPT ![n] = st]
       /\ dcb' = [dcb EXCEPT ![n] =
                    AddedStore(n, persisted[n], st, drv[n])]
  /\ restarts' = restarts + 1
  /\ UNCHANGED <<chan, drv, changes, expiries, persisted>>

Next ==
  \E n \in Nodes :
    \/ Transmit(n)
    \/ Receive(n)
    \/ Expire(n)
    \/ Lose(n)
    \/ Write(n)
    \/ Restart(n)

(***************************************************************************)
(* LLDP transmits periodically, so a transmission that would change       *)
(* something (a newer frame than the one in flight, or TLV slots not yet  *)
(* marked sent) is not postponed forever: weak fairness of Transmit.  A   *)
(* link does not lose every frame, so a device that is offered frames     *)
(* infinitely often receives one: strong fairness of Receive, since Lose  *)
(* may empty the slot in between.  Receive(m) always changes chan, so     *)
(* ENABLED <<Receive(m)>>_vars is exactly RxOffered(m), and RxFair(m) is  *)
(* SF_vars(Receive(m)) with that predicate in place of ENABLED (TLC would *)
(* otherwise evaluate the whole engine run without caching to decide      *)
(* ENABLED).  Write, Expire, Restart and Lose are environment steps and   *)
(* carry no fairness.                                                     *)
(***************************************************************************)
RxFair(m) == []<>RxOffered(m) => []<><<Receive(m)>>_vars

Fairness ==
  \A n \in Nodes : WF_vars(Transmit(n)) /\ RxFair(n)

Spec == Init /\ [][Next]_vars /\ Fairness

-----------------------------------------------------------------------------
(***************************************************************************)
(* Properties.                                                             *)
(***************************************************************************)

\* The type of every variable.
TypeOK ==
  /\ dcb \in [Nodes -> Store]
  /\ drv \in [Nodes -> [Features -> DrvResults]]
  /\ \A n \in Nodes : chan[n] = NoFrame \/ chan[n].ctrl.SeqNo \in Seqs
  /\ changes \in 0..MaxChanges
  /\ expiries \in 0..MaxExpiries
  /\ saved \in [Nodes -> [SeqNo : Seqs, AckNo : Seqs]]
  /\ restarts \in 0..MaxRestarts
  /\ persisted \in [Nodes -> [Features -> AdminSet]]

\* spec.md section 6: persistence seeds a device's Local store when it is
\* added and is saved on every accepted Local configuration change, so the
\* attributes a restart rebuilds the device from (dcbx_add_adapter reading
\* what put_pfc, put_app etc. gave set_persistent) are the ones its Local
\* store holds: a restart never changes the administered configuration.
PersistedIsLocal ==
  \A n \in Nodes, f \in Features : persisted[n][f] = AdminOf(dcb[n], f)

\* spec.md section 4.3 step 1, and the comment "maintain TOO_MANY_NGHBRS &
\* FEAT_ERR_MULTI_TLV errors" in run_feature_protocol: the sticky MultiTlv
\* and MultiPeer bits of a feature are set exactly while their cause is:
\* a duplicate-TLV flag on the peer's feature record, the too-many-neighbours
\* flag on the peer control record.  Every branch of the feature machine,
\* the one for a feature that is not advertised included, keeps them.
StickyErrorsTracked ==
  \A n \in Nodes, f \in Features :
    LET ef == dcb[n].feat[f].Error_Flag IN
    /\ ("MultiTlv" \in ef)
         = (dcb[n].peer[f].Error_Flag \cap {"DupCtrl", "DupFeat"} # {})
    /\ ("MultiPeer" \in ef) = ("TooManyNghbrs" \in dcb[n].pctrl.Error_Flag)

\* No runaway exchange: with a bounded number of local writes and expiries
\* the stop-and-wait rule of run_control_protocol (a new SeqNo only once
\* the previous one is acknowledged, and only while a feature is unsynced)
\* never uses up the sequence numbers below MaxSeq.
SeqNoBounded == \A n \in Nodes : EngineBound(n)

\* Device m after receiving fr.
AfterRx(m, fr) ==
  RunDcbProtocol(StoreFrame(dcb[m], fr, {}), "remote", Features, drv[m],
                 DcbxSubtype)

\* Nothing is left to exchange: every frame in flight is the sender's
\* current frame, receiving that frame changes nothing at the peer, and
\* building a frame changes nothing at the sender.
Quiescent ==
  \A n \in Nodes :
    /\ chan[n] \in {NoFrame, Frame(dcb[n])}
    /\ AfterRx(Other(n), Frame(dcb[n])) = dcb[Other(n)]
    /\ \A f \in Features : dcb[n].feat[f].tlv_sent

\* The stop-and-wait chain of run_control_protocol, while neither side has
\* reset its counters after an expiry or restarted: what n believes acknowledged
\* (MyAckNo) was acknowledged by m (AckNo), m acknowledged only a SeqNo n
\* issued, and n is at most one update ahead of its acknowledgement.
AckChain ==
  expiries = 0 /\ restarts = 0 =>
    \A n \in Nodes :
      LET m == Other(n) IN
      /\ dcb[n].ctrl.MyAckNo <= dcb[m].ctrl.AckNo
      /\ dcb[m].ctrl.AckNo <= dcb[n].ctrl.SeqNo
      /\ dcb[n].ctrl.SeqNo <= dcb[n].ctrl.MyAckNo + 1

\* spec.md section 4.3a: PG of the current subtype counts as compatible
\* whatever the two tables are, so each end may run its own PG tables.
\* Every other feature runs one payload on both ends when it is on.
PayloadShared(f) == ~(f = "PG" /\ DcbxSubtype = dcbx_subtype2)

\* When the negotiation has settled, the two ends of the link agree on
\* every feature both advertise: the same OperMode, and when it is on the
\* same operational configuration for a feature whose payload is shared
\* (the outcome of the willingness resolution of run_feature_protocol on
\* both sides).
OperAgreement ==
  Quiescent =>
    \A f \in Features :
      (\A n \in Nodes : dcb[n].feat[f].Advertise) =>
        \A n, m \in Nodes :
          /\ dcb[n].feat[f].OperMode = dcb[m].feat[f].OperMode
          /\ dcb[n].feat[f].OperMode /\ PayloadShared(f)
               => dcb[n].oper[f] = dcb[m].oper[f]

\* Version convergence of run_control_protocol and run_feature_protocol:
\* once settled, both ends run the control protocol, and every feature
\* both advertise, at the lower of the two builds' versions.
VersionAgreement ==
  Quiescent =>
    \A n \in Nodes :
      LET m == Other(n) IN
      /\ dcb[n].ctrl.Oper_version =
           Min({dcb[n].ctrl.Max_version, dcb[m].ctrl.Max_version})
      /\ \A f \in Features :
           dcb[n].feat[f].Advertise /\ dcb[m].feat[f].Advertise =>
             dcb[n].feat[f].Oper_version =
               Min({dcb[n].feat[f].Max_version, dcb[m].feat[f].Max_version})

\* The data model's invariant on feature records: OperMode is on only while
\* the feature is enabled and not in error (the side that determines the
\* adoption is the local one once it is disabled).  put_pfc() and the other
\* local writes change Enable and then run run_feature_protocol() for a
\* local change, which leaves OperMode as it was.
OperModeNeedsEnable ==
  \A n \in Nodes, f \in Features :
    dcb[n].feat[f].OperMode => dcb[n].feat[f].Enable /\ ~dcb[n].feat[f].Error

\* spec.md section 8, idempotence: running run_feature_protocol a second
\* time for the same event, with no new peer data, raises no further
\* OperAttr/OperMode events and leaves Syncd, OperMode and Error_Flag as
\* the first run left them.  Asserted of every reachable store.
FeatureIdempotent ==
  \A n \in Nodes, f \in Features, ev \in {"local", "remote"} :
    LET r1 == RunFeatureProtocol(dcb[n], f, ev, drv[n][f])
        r2 == RunFeatureProtocol(r1.s, f, ev, drv[n][f])
    IN  /\ r2.events = {}
        /\ r2.s.feat[f].Syncd = r1.s.feat[f].Syncd
        /\ r2.s.feat[f].OperMode = r1.s.feat[f].OperMode
        /\ r2.s.feat[f].Error_Flag = r1.s.feat[f].Error_Flag

\* Once local writes and expiries stop, the exchange of run_control_protocol
\* and run_feature_protocol comes to rest.
Convergence == <>[]Quiescent

=============================================================================
