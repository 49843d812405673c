---------------------------- MODULE DCBXFeature ----------------------------
(***************************************************************************)
(* The feature protocol state machine, run_feature_protocol() of          *)
(* src/dcb_protocol.c, as a function from a device store to the store    *)
(* after one call.  The decision ladder of the Listen state is kept in    *)
(* the code's order; every goto OperChange / goto ErrProt becomes the     *)
(* end of one branch.                                                     *)
(*                                                                         *)
(* ok is the result of the set_configuration() call the branch makes      *)
(* (the driver push, plus the PG rule check on a remote change): the       *)
(* caller chooses it, since the driver may refuse a configuration.         *)
(***************************************************************************)
EXTENDS DCBXStore

\* set_configuration() returns 0: LLINK and APP (no driver interface
\* compiled in) always succeed.
Pushed(f, ok) == ok \/ f \in {"APP", "LLINK"}

\* The FEAT_ERR_CFG bit a branch sets when the push failed.
CfgBit(f, ok) == IF Pushed(f, ok) THEN {} ELSE {"Cfg"}

\* "maintain TOO_MANY_NGHBRS & FEAT_ERR_MULTI_TLV errors": the flags are
\* saved in a bool Err, so Err & FEAT_ERR_MULTI_PEER keeps a bit only when
\* the flag set was non-empty and that bit is the one with value 0x01.
KeptSticky(ef) ==
  {b \in {"MultiPeer", "MultiTlv"} : ef # {} /\ b = LowBitFlag}

\* LocalPeerCompatible(): PG compares the tables only when the peer speaks
\* the legacy subtype, PFC and APP compare the payload, LLINK never matches.
LocalPeerCompatible(f, lcfg, pcfg, pr) ==
  CASE f = "PG"    -> pr.dcbx_st # dcbx_subtype1 \/ lcfg = pcfg
    [] f = "PFC"   -> lcfg = pcfg
    [] f = "APP"   -> lcfg = pcfg
    [] f = "LLINK" -> FALSE

(***************************************************************************)
(* Branches of the Listen state on a remote change.  Each returns          *)
(* [fr |-> the feature record, src |-> what CopyConfigToOper copied into  *)
(* the operational store: "Local", "Peer" or "Keep" (no copy)].           *)
(***************************************************************************)

\* F4/F5: the feature is not advertised.
NotAdvertising(fr) ==
  [fr |-> [fr EXCEPT !.Error = FALSE, !.Error_Flag = KeptSticky(fr.Error_Flag),
                     !.OperMode = fr.Enable],
   src |-> "Local"]

\* F6.2: the peer's DCBX TLVs expired (current subtype only).
PeerExpired(fr) ==
  [fr |-> [fr EXCEPT !.OperMode = FALSE, !.Syncd = FALSE, !.Error = TRUE,
                     !.FeatureSeqNo = 1,
                     !.Error_Flag = fr.Error_Flag \cup {"NoTlv"}],
   src |-> "Local"]

\* F8: the peer sent no TLV for this feature.
TlvAbsent(fr) ==
  [fr |-> [fr EXCEPT !.OperMode = FALSE, !.Syncd = TRUE,
                     !.Oper_version = fr.Max_version,
                     !.Error = (fr.dcbx_st = dcbx_subtype2),
                     !.Error_Flag = fr.Error_Flag \cup {"NoTlv"}],
   src |-> "Local"]

\* F9.1: multiple DCBX TLVs received.
MultipleTlvs(fr, f, ok) ==
  [fr |-> [fr EXCEPT !.OperMode = FALSE, !.Error = TRUE, !.force_send = TRUE,
                     !.Error_Flag = fr.Error_Flag \cup CfgBit(f, ok)],
   src |-> "Local"]

\* F16, F18, F20, F22: a branch that clears Error_Flag and pushes.  Under
\* the current subtype OperMode is mode2, Syncd becomes !Error and Error is
\* cleared; under the legacy subtype OperMode is mode1 and Error records
\* whether the push failed.
Settled(fr, f, ok, src, mode2, mode1) ==
  [fr |-> IF fr.dcbx_st = dcbx_subtype2
          THEN [fr EXCEPT !.OperMode = mode2, !.Syncd = ~fr.Error,
                          !.Error = FALSE, !.Error_Flag = CfgBit(f, ok)]
          ELSE [fr EXCEPT !.OperMode = mode1, !.Error = ~Pushed(f, ok),
                          !.Error_Flag = CfgBit(f, ok)],
   src |-> src]

\* F23: local and peer configurations are not compatible.  Error_Flag is
\* not cleared first: earlier bits stay.
Incompatible(fr, f, ok) ==
  [fr |-> [fr EXCEPT !.OperMode = FALSE,
                     !.Syncd = IF fr.dcbx_st = dcbx_subtype2 THEN fr.Error
                                                              ELSE fr.Syncd,
                     !.Error = TRUE,
                     !.Error_Flag = fr.Error_Flag \cup CfgBit(f, ok)
                                                 \cup {"Mismatch"}],
   src |-> "Local"]

\* Variant (bug model): a willing side facing an unwilling peer keeps its
\* own configuration.
ResolveKeepLocal(fr, pr, f, ok, lcfg, pcfg) ==
  IF ~fr.Enable \/ ~pr.Enable
  THEN Settled(fr, f, ok, "Local", FALSE, FALSE)
  ELSE IF fr.Willing /\ ~fr.PeerWilling
  THEN Settled(fr, f, ok, "Local", ~pr.Error, TRUE)
  ELSE IF ~fr.Willing /\ fr.PeerWilling
  THEN Settled(fr, f, ok, "Local", ~pr.Error, TRUE)
  ELSE IF LocalPeerCompatible(f, lcfg, pcfg, pr)
  THEN Settled(fr, f, ok, "Local", ~pr.Error, TRUE)
  ELSE Incompatible(fr, f, ok)

\* F15-F23: willingness resolution; fr has Syncd set and PeerWilling copied.
Resolve(fr, pr, f, ok, lcfg, pcfg) ==
  IF ~fr.Enable \/ ~pr.Enable
  THEN Settled(fr, f, ok, "Local", FALSE, FALSE)
  ELSE IF fr.Willing /\ ~fr.PeerWilling
  THEN Settled(fr, f, ok, IF fr.dcbx_st = dcbx_subtype2 /\ pr.Error
                          THEN "Local" ELSE "Peer",
               ~pr.Error, TRUE)
  ELSE IF ~fr.Willing /\ fr.PeerWilling
  THEN Settled(fr, f, ok, "Local", ~pr.Error, TRUE)
  ELSE IF LocalPeerCompatible(f, lcfg, pcfg, pr)
  THEN Settled(fr, f, ok, "Local", ~pr.Error, TRUE)
  ELSE Incompatible(fr, f, ok)

\* Variant (bug model): the legacy subtype drops OperMode on its own error
\* only, not on the peer's.
ErrProtOwnError(d, err, pr, seq) ==
  LET fr1 == [d.fr EXCEPT !.Error_Flag = @ \cup (IF pr.Error THEN {"Peer"}
                                                            ELSE {})]
      fr2 == IF fr1.dcbx_st = dcbx_subtype1 /\ fr1.Error
             THEN [fr1 EXCEPT !.OperMode = FALSE] ELSE fr1
      fr3 == IF err # fr2.Error
             THEN [fr2 EXCEPT !.Syncd = IF fr2.dcbx_st = dcbx_subtype1
                                        THEN FALSE ELSE @,
                              !.FeatureSeqNo = seq + 1]
             ELSE fr2
  IN [d EXCEPT !.fr = fr3]

\* ErrProt: record a peer error, drop OperMode under the legacy subtype
\* when either side is in error, and request a resend when Error changed.
ErrProt(d, err, pr, seq) ==
  LET fr1 == [d.fr EXCEPT !.Error_Flag = @ \cup (IF pr.Error THEN {"Peer"}
                                                            ELSE {})]
      fr2 == IF fr1.dcbx_st = dcbx_subtype1 /\ (fr1.Error \/ pr.Error)
             THEN [fr1 EXCEPT !.OperMode = FALSE] ELSE fr1
      fr3 == IF err # fr2.Error
             THEN [fr2 EXCEPT !.Syncd = IF fr2.dcbx_st = dcbx_subtype1
                                        THEN FALSE ELSE @,
                              !.FeatureSeqNo = seq + 1]
             ELSE fr2
  IN [d EXCEPT !.fr = fr3]

\* The remote-change ladder after the control version check (F6.2-F23).
RemoteLadder(fr, pr, c, pc, f, ok, lcfg, pcfg) ==
  LET minv   == Min({pr.Max_version, fr.Max_version})
      fr1    == [fr EXCEPT !.Error_Flag = @ \ {"NoTlv"}]
      synced == [fr1 EXCEPT !.Syncd = TRUE, !.PeerWilling = pr.Willing]
  IN
  IF fr.dcbx_st = dcbx_subtype2 /\ pc.RxDCBTLVState = "Expired"
  THEN PeerExpired(fr)
  ELSE IF ~pr.TLVPresent
  THEN TlvAbsent(fr)
  ELSE IF ~fr1.Syncd /\ pc.AckNo # fr1.FeatureSeqNo
  THEN [fr |-> fr1, src |-> "Keep"]
  ELSE IF "MultiTlv" \in fr1.Error_Flag
  THEN ErrProt(MultipleTlvs(fr1, f, ok), fr1.Error, pr, c.SeqNo)
  ELSE IF fr1.Oper_version # minv
  THEN [fr |-> [fr1 EXCEPT !.Oper_version = minv, !.Syncd = FALSE,
                           !.FeatureSeqNo = c.SeqNo + 1],
        src |-> "Keep"]
  ELSE IF fr1.Oper_version # pr.Oper_version
  THEN [fr |-> [fr1 EXCEPT !.Syncd = TRUE], src |-> "Keep"]
  ELSE ErrProt(Resolve(synced, pr, f, ok, lcfg, pcfg), fr1.Error, pr, c.SeqNo)

\* CopyConfigToOper for one feature.
CopiedOper(s, f, src) ==
  CASE src = "Local" -> s.cfg[f]
    [] src = "Peer"  -> s.pcfg[f]
    [] src = "Keep"  -> s.oper[f]

\* Variant (bug model): the entry snapshot never taken, so the tail
\* compares with the zeroed old_pfc_opcfg and old_pfc_opmode.
OperChangeNoSnapshot(old, new, f) ==
  { e \in {"OperAttr", "OperMode"} :
      \/ e = "OperAttr" /\ new.oper[f] # ZeroCfg
      \/ e = "OperMode" /\ new.feat[f].OperMode }

\* The OperChange tail: against the operational configuration and OperMode
\* saved at entry (old_pfc_opcfg, old_pfc_opmode), raise EVENT_OPERATTR
\* and EVENT_OPERMODE for pfc_event() and its kin.
OperChange(old, new, f) ==
  { e \in {"OperAttr", "OperMode"} :
      \/ e = "OperAttr" /\ new.oper[f] # old.oper[f]
      \/ e = "OperMode" /\ new.feat[f].OperMode # old.feat[f].OperMode }

(***************************************************************************)
(* run_feature_protocol(device, EventFlag, Subtype) for feature f and an   *)
(* event ev \in {"local", "remote"}.  Returns [s |-> store after the call, *)
(* res |-> "ok" or "badver" (dcb_ctrl_vers_not_compatible)].  The          *)
(* OperChange events sent to the notifier do not change the store.        *)
(***************************************************************************)
RunFeatureProtocol(s, f, ev, ok) ==
  LET c   == s.ctrl
      pc  == s.pctrl
      tooMany == "TooManyNghbrs" \in pc.Error_Flag
      \* entry: MULTI_TLV from the peer's duplicate-TLV flags,
      \* MULTI_PEER (and TLVPresent = false) from too many neighbors
      pr  == [s.peer[f] EXCEPT !.TLVPresent = IF tooMany THEN FALSE ELSE @]
      ef  == (s.feat[f].Error_Flag \ {"MultiTlv", "MultiPeer"})
             \cup (IF s.peer[f].Error_Flag \cap {"DupCtrl", "DupFeat"} # {}
                   THEN {"MultiTlv"} ELSE {})
             \cup (IF tooMany THEN {"MultiPeer"} ELSE {})
      fr0 == [s.feat[f] EXCEPT !.Error_Flag = ef]
      \* DCB_INIT: enter Listen
      isInit == fr0.State = "Init"
      fr1 == IF isInit
             THEN [fr0 EXCEPT !.Oper_version = fr0.Max_version,
                              !.OperMode = FALSE, !.Error = FALSE,
                              !.FeatureSeqNo = c.SeqNo + 1,
                              !.Syncd = ~fr0.Advertise, !.State = "Listen"]
             ELSE fr0
      just_added == isInit /\ ev = "local" /\ f = "PFC"
      \* a local change on a synced feature starts a new exchange
      adv == fr1.Advertise \/ fr1.Advertise_prev
      fr2 == IF ev = "local" /\ fr1.Syncd
             THEN [fr1 EXCEPT !.FeatureSeqNo = c.SeqNo + 1, !.Syncd = ~adv,
                              !.tlv_sent = IF adv THEN @ ELSE TRUE]
             ELSE fr1
      versOk == /\ c.Oper_version = Min({pc.Max_version, c.Max_version})
                /\ c.Oper_version = pc.Oper_version
      d == IF ~fr2.Advertise
           THEN NotAdvertising(fr2)
           ELSE IF ev = "remote"
           THEN RemoteLadder(fr2, pr, c, pc, f, ok, s.cfg[f], s.pcfg[f])
           ELSE [fr |-> fr2, src |-> IF just_added THEN "Local" ELSE "Keep"]
      s1 == [s EXCEPT !.peer[f] = pr]
      s2 == [s1 EXCEPT !.feat[f] = d.fr, !.oper[f] = CopiedOper(s, f, d.src)]
  IN
  IF fr2.Advertise /\ ev = "remote" /\ ~versOk
  THEN [s |-> [s1 EXCEPT !.feat[f] = fr2], res |-> "badver", events |-> {}]
  ELSE [s |-> s2, res |-> "ok", events |-> OperChange(s, s2, f)]

=============================================================================
