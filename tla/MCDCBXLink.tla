---------------------------- MODULE MCDCBXLink -----------------------------
(***************************************************************************)
(* Model-checking instance of DCBXLink: two devices, the features and      *)
(* payloads given in the .cfg files, small bounds on local writes and      *)
(* peer expiries.                                                          *)
(***************************************************************************)
EXTENDS DCBXLink

CONSTANTS
  Newer,          \* the device whose build has the newer protocol versions
  NewerVersion    \* its DCB_MAX_VERSION and feature versions; the other has 0

MCCtrlMaxVersion == [n \in Nodes |-> IF n = Newer THEN NewerVersion ELSE 0]
MCFeatMaxVersion ==
  [n \in Nodes |-> [f \in Features |-> IF n = Newer THEN NewerVersion ELSE 0]]

\* Devices start enabled and advertising, willing or not.
MCInitAdmin == [en: {TRUE}, will: BOOLEAN, adv: {TRUE}, cfg: Cfgs]

\* Devices start enabled and advertising with a non-empty payload.
MCPayloadInitAdmin ==
  [en: {TRUE}, will: BOOLEAN, adv: {TRUE}, cfg: Cfgs \ {ZeroCfg}]

\* Devices start enabled, advertising and not willing, with a non-empty
\* payload; a write may then make a feature willing.
MCUnwillingInitAdmin ==
  [en: {TRUE}, will: {FALSE}, adv: {TRUE}, cfg: Cfgs \ {ZeroCfg}]

\* Every administered attribute record over the payloads of the model.
MCAdminSet == [en: BOOLEAN, will: BOOLEAN, adv: BOOLEAN, cfg: Cfgs]

\* No dcbx_state saved before the devices are first added.
MCNoSaved == {NoState}

\* Either none, or the state a previous daemon run saved after two updates
\* acknowledged by a peer that has since restarted.
MCLeftoverSaved == {NoState, [SeqNo |-> 2, AckNo |-> 2]}

\* At most one fault per behaviour: a daemon restart or a peer expiry.
MCOneFault == restarts + expiries <= 1

\* Frames arrive as sent.
MCNoFaults == {{}}

\* A frame may also arrive with a duplicated feature TLV or from more than
\* one neighbour.
MCDupFaults == {{}, {"DupFeat"}, {"TooManyNghbrs"}}

\* The store lists of dcb_protocol.c for a device of the link, with two
\* APP subtypes (the first is FCoE) and one LLINK subtype.
Adapters(n) == INSTANCE DCBXAdapters
                 WITH AppSubtypes <- {0, 1}, LlinkSubtypes <- {0},
                      FcoeSubtype <- 0, Dev <- n,
                      DefCfgStore <- "default_cfg_attribs"

\* The list check per device, over every pair of dcbx_add_adapter
\* outcomes; constant, so TLC evaluates it once.
RemovesClean == [n \in Nodes |-> Adapters(n)!NoEntryOutlivesDevice]

\* A device's Restart runs dcbx_remove_adapter, which after any two adds,
\* failed ones included, leaves no entry of the device and every default
\* entry (DCBXAdapters).
MCNoEntryOutlivesDevice == \A n \in DOMAIN dcb : RemovesClean[n]

\* The bandwidth-group descriptors of a device: two bwgids, one name besides
\* the default one, histories of five calls.
BwgDesc == INSTANCE DCBXBwgDesc
             WITH BwgIds <- {0, 1}, Names <- {"storage"}, DefaultName <- "",
                  CallBound <- 5
DescsConsistent == BwgDesc!ReadsMatchPersisted

\* For every device of the link, what get_bwg_descrpt returns is what the
\* device will come up with after a restart, unless a put_bwg_descrpt
\* reported a failure (DCBXBwgDesc).
MCReadsMatchPersisted == \A n \in DOMAIN dcb : DescsConsistent

=============================================================================
