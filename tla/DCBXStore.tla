----------------------------- MODULE DCBXStore -----------------------------
(***************************************************************************)
(* The DCBX attribute store of one device (src/dcb_protocol.c): the local  *)
(* feature records with their administered configuration, the peer         *)
(* records filled from received TLVs, the operational configuration, and   *)
(* the local and peer control-protocol records.  The per-family linked     *)
(* lists keyed by device name (pg, peer_pg, oper_pg, pfc, ...) become one  *)
(* record per device whose fields are functions over the feature types.   *)
(*                                                                         *)
(* A feature's payload (PG bandwidth tables, PFC admin array, APP data,    *)
(* LLINK status) is abstracted to a member of Cfgs: the protocol only      *)
(* copies it and compares it for equality.                                 *)
(***************************************************************************)
EXTENDS Integers, Sequences, SequencesExt, FiniteSets

CONSTANTS
  Features,        \* feature types present on the device, e.g. {"PFC"}
  Cfgs,            \* admin configurations a feature payload can hold
  ZeroCfg,         \* the payload of a zero-filled (memset) record
  LowBitFlag,      \* the FEAT_ERR_* flag whose value is 0x01 (see below)
  MaxSeq           \* bound on SeqNo, so that the model is finite

AllFeatures == <<"PG", "PFC", "APP", "LLINK">>

ASSUME Features \subseteq ToSet(AllFeatures) /\ Features # {}
ASSUME ZeroCfg \in Cfgs
ASSUME MaxSeq \in Nat \ {0}

\* The order in which run_dcb_protocol visits the feature machines.
FeatOrder == SelectSeq(AllFeatures, LAMBDA f : f \in Features)

\* Values of dcbx_st: the legacy (CEE pre-standard) and the current variant.
dcbx_subtype1 == 1
dcbx_subtype2 == 2

\* Bits of feature_protocol_attribs.Error_Flag.
FeatErrFlags == {"Mismatch", "Peer", "MultiTlv", "MultiPeer", "Cfg", "NoTlv"}
\* Bits a peer record's Error_Flag can carry (set by the receive path).
PeerErrFlags == {"DupCtrl", "DupFeat", "TooManyNghbrs"}

ASSUME LowBitFlag \in FeatErrFlags

\* RxDCBTLVState of the peer control record.
RxStates == {"None", "Synced", "Expired", "Reset"}

Versions == 0..7
Seqs     == 0..MaxSeq

\* control_protocol_attribs of the local device (dcb_control_prot).
CtrlRec == [State: {"Init", "Listen"}, SeqNo: Seqs, AckNo: Seqs,
            MyAckNo: Seqs, Max_version: Versions, Oper_version: Versions]

\* control_protocol_attribs as stored for the peer (dcb_peer_control_prot).
PeerCtrlRec == [SeqNo: Seqs, AckNo: Seqs, Max_version: Versions,
                Oper_version: Versions, RxDCBTLVState: RxStates,
                Error_Flag: SUBSET PeerErrFlags]

\* feature_protocol_attribs of a local feature record.
FeatRec == [State: {"Init", "Listen"}, Enable: BOOLEAN, Willing: BOOLEAN,
            Advertise: BOOLEAN, Advertise_prev: BOOLEAN,
            PeerWilling: BOOLEAN, Max_version: Versions,
            Oper_version: Versions, Syncd: BOOLEAN, tlv_sent: BOOLEAN,
            force_send: BOOLEAN, OperMode: BOOLEAN, Error: BOOLEAN,
            FeatureSeqNo: 0..(MaxSeq + 1), Error_Flag: SUBSET FeatErrFlags,
            dcbx_st: {dcbx_subtype1, dcbx_subtype2}]

\* The fields of a peer feature record that the protocol reads.
PeerFeatRec == [TLVPresent: BOOLEAN, Enable: BOOLEAN, Willing: BOOLEAN,
                Error: BOOLEAN, Max_version: Versions,
                Oper_version: Versions, dcbx_st: {0, dcbx_subtype1, dcbx_subtype2},
                Error_Flag: SUBSET PeerErrFlags]

\* All records one device keeps.
Store == [ctrl: CtrlRec, pctrl: PeerCtrlRec,
          feat: [Features -> FeatRec], peer: [Features -> PeerFeatRec],
          cfg: [Features -> Cfgs], pcfg: [Features -> Cfgs],
          oper: [Features -> Cfgs]]

(***************************************************************************)
(* init_pg/init_pfc/init_apptlv/init_llink: a local record is seeded from  *)
(* the persisted attributes (Enable, Willing, Advertise, payload) with     *)
(* State = Init, Advertise_prev = tlv_sent = false and the global subtype. *)
(* The remaining protocol fields come from the persisted record, which     *)
(* holds them zeroed.                                                      *)
(***************************************************************************)
InitFeat(en, will, adv, st, maxv) ==
  [State |-> "Init", Enable |-> en, Willing |-> will, Advertise |-> adv,
   Advertise_prev |-> FALSE, PeerWilling |-> FALSE,
   Max_version |-> maxv, Oper_version |-> 0, Syncd |-> FALSE,
   tlv_sent |-> FALSE, force_send |-> FALSE, OperMode |-> FALSE,
   Error |-> FALSE, FeatureSeqNo |-> 0, Error_Flag |-> {}, dcbx_st |-> st]

\* init_peer_pg/..: a zero-filled peer record with TLVPresent = false.
InitPeerFeat ==
  [TLVPresent |-> FALSE, Enable |-> FALSE, Willing |-> FALSE,
   Error |-> FALSE, Max_version |-> 0, Oper_version |-> 0, dcbx_st |-> 0,
   Error_Flag |-> {}]

\* Variant (bug model): MyAckNo restored one behind SeqNo.
InitCtrlPrev(seq, ack, maxv) ==
  [State |-> "Init", SeqNo |-> seq, AckNo |-> ack, MyAckNo |-> seq - 1,
   Max_version |-> maxv, Oper_version |-> 0]

\* No dcbx_state has been saved: get_dcbx_state leaves the zeroed state.
NoState == [SeqNo |-> 0, AckNo |-> 0]

\* init_control_prot: SeqNo and AckNo from the saved dcbx_state,
\* MyAckNo = SeqNo.
InitCtrl(seq, ack, maxv) ==
  [State |-> "Init", SeqNo |-> seq, AckNo |-> ack, MyAckNo |-> seq,
   Max_version |-> maxv, Oper_version |-> 0]

\* init_peer_control_prot: both versions set to the local DCB_MAX_VERSION.
InitPeerCtrl(maxv) ==
  [SeqNo |-> 0, AckNo |-> 0, Max_version |-> maxv,
   Oper_version |-> maxv, RxDCBTLVState |-> "None",
   Error_Flag |-> {}]

\* init_oper_pg, init_oper_pfc, init_oper_apptlv, init_oper_llink: the
\* operational record starts zeroed; init_oper_pg copies the PG tables of
\* the default store, found in the local pg list, while the others look
\* the default store up in their operational list, where add_*_defaults
\* never put one, and keep the zeroed record.
InitOper(f, dflt) == IF f = "PG" THEN dflt ELSE ZeroCfg

\* The store after the add_* calls of dcbx_add_adapter, before any state
\* machine ran: attrs[f] is the persisted [en, will, adv, cfg] of f, oper0
\* the operational payloads init_oper_* start them with (InitOper),
\* cmax the control and fmax[f] the feature protocol versions of the build.
NewStore(attrs, st, seq, ack, oper0, cmax, fmax) ==
  [ctrl  |-> InitCtrl(seq, ack, cmax),
   pctrl |-> InitPeerCtrl(cmax),
   feat  |-> [f \in Features |->
                InitFeat(attrs[f].en, attrs[f].will, attrs[f].adv, st, fmax[f])],
   peer  |-> [f \in Features |-> InitPeerFeat],
   cfg   |-> [f \in Features |-> attrs[f].cfg],
   pcfg  |-> [f \in Features |-> ZeroCfg],
   oper  |-> oper0]

=============================================================================
