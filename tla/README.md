# TLA+ models of the lldpad DCBX engine

This directory holds TLA+ specifications of the DCBX (Data Center Bridging
Exchange) engine of lldpad, `src/dcb_protocol.c`, of the TLV codec,
`src/lldp_tlv.c`, of the daemon's port list, `src/lldp/ports.c`, and of
the settlv command handlers, `src/lldp_basman_cmds.c` and
`src/lldp_8023_cmds.c`. It also holds the TLC configurations that check them. Everything here is checked with TLC: there
are no proofs.

## The system

The DCBX engine keeps one set of records per network device:

- **Local** feature records: the administered configuration of the PG, PFC,
  APP and LLINK features, with their Enable, Willing and Advertise flags.
- **Peer** records: the last TLVs received from the neighbour.
- **Operational** records: the configuration that is pushed to the driver.
- **Control** records: the control-protocol state, local and peer.

Two state machines drive these records:

- **The feature protocol**, `run_feature_protocol`, runs once per feature
  type. On a local or a remote change it resolves willingness, version and
  compatibility. From that it decides the operational configuration,
  OperMode and the error flags.
- **The control protocol**, `run_control_protocol`, is a stop-and-wait
  exchange over SeqNo, AckNo and MyAckNo. It issues a new sequence number
  only when the previous one has been acknowledged and some feature still
  has to be synchronised.

`run_dcb_protocol` is the orchestrator. It runs the flagged feature machines
in the order PG, PFC, APP, LLINK, and it stops early on a control-version
mismatch. Then it pushes the configuration to the hardware and runs the
control machine.

Callers reach the engine in three ways:

- the local writes `put_pg`, `put_pfc`, `put_app` and `put_llink`;
- the receive path: `put_peer_*`, `put_peer_control` and then a
  remote-change `run_dcb_protocol`;
- `dcbx_add_adapter`.

The daemon keeps one `struct port` per interface in a list (`ports.c`).
`add_adapter` and `remove_adapter` add and remove ports. The settlv command
handlers write the configuration file and then call `somethingChangedLocal`,
which flags the port so that the transmit state machine sends a new frame.
`set_lldp_port_admin` changes the admin status of one port or of all
ports.

The LLDP agent around the engine is not in `src/`: frame building and
parsing, the transmit timer and the TTL timer. It is modelled from
`spec.md` (entries marked `spec_modelled` in PROJECT.json).

## Modules

| module | models | state / actions |
|---|---|---|
| `DCBXStore` | The record types, the `init_*` constructors, and the store built by `dcbx_add_adapter` (`NewStore`). `InitOper` gives the operational record `init_oper_*` starts with: the default PG tables for PG, and a zeroed record for PFC, APP and LLINK, because their `init_oper_*` look the default store up in the operational list, where it never is. | A device store is one record. Its fields are functions over the feature types. A payload (PG tables, PFC array, ...) is a member of `Cfgs`, because the protocol only copies payloads and compares them. |
| `DCBXFeature` | `run_feature_protocol`, as a function from a store to the store after one call. | The ladder keeps the code's order: F4/F5, F6.2, F8, the wait for the peer ack, F9.1, the version steps, then F15-F23 (`Resolve`, `Settled`, `Incompatible`) and `ErrProt`. `CopiedOper` is `CopyConfigToOper`. `ok` is the result of `set_configuration`. |
| `DCBXControl` | `run_control_protocol`, `FeaturesSynched`, `update_feature_syncd`. | The peer-expired reset (`ExpiredReset`), the version step (`CtrlVersion`), the acknowledgement step (`CtrlAck`) and the `send:` tail (`Send`). |
| `DCBXNode` | `run_dcb_protocol` (a fold over the feature order), the local writes `put_pg`, `put_pfc`, `put_app`, `put_llink` (`PutPg` ... over their common part `PutLocal`), `put_peer_control`, the peer writes `put_peer_pg` ... (`PutPeerPg` ... over `PutPeerFeature`), `dcbx_add_adapter`. | Pure operators over one store. |
| `DCBXAdapters` | The store lists of `dcb_protocol.c` (`pg`, `pfc`, `pg_desc`, the control, peer and operational lists, and the APP and LLINK lists keyed by subtype) with `*_find`, `*_insert`, `*_erase`, every `add_*` call, `init_dcb_support`, `get_dcb_support`, `dcbx_add_adapter`, `dcbx_remove_adapter` and `add_*_defaults`. | Pure operators. A list is the sequence of its entry keys `<<device, subtype>>`. `Steps` is the order of the `add_*` calls in `dcbx_add_adapter`. An `Outcomes` element names at most one failing step: a store malloc (the call returns false), an entry malloc (`*_insert` returns silently), the capability query, the FCoE `set_persistent`, or a failure before any list is touched. `EngineSlots` are the lookups of the first `run_feature_protocol` and `run_control_protocol` calls; a miss is `ErrNoDevice`. |
| `DCBXBwgDesc` | The bandwidth-group descriptors of one device: `add_bwg_desc` (called by `dcbx_add_adapter`), the `pg_desc` erase of `dcbx_remove_adapter`, `get_bwg_descrpt` and `put_bwg_descrpt`. | Pure operators over a record `[entry, live, persisted]`: whether `pg_desc` has the device's entry, the entry's table, and what `set_persistent` last stored. `Calls` lists the calls with their failing step (an `add_bwg_desc` malloc, `get_persistent`, `set_persistent`). `Trace` runs a history of calls. |
| `DCBXLink` | Two devices joined by one link. | VARIABLES: `dcb` (the two stores), `chan` (one frame slot per direction), `drv` (whether each driver accepts pushes), `saved` (the dcbx_state of each device on disk), `persisted` (the attributes `set_persistent` stored), and the counters `changes`, `expiries` and `restarts`. Actions: `Transmit` (which marks each feature's TLV sent, `mark_*_sent`), `Receive`, `Expire`, `Lose`, `Write`, `Restart`. The constant `RxFaults` lists the sets of error flags the receive path may raise on a frame. |
| `MCDCBXLink` | The model-checking instance. | The protocol versions of the two builds, the admin records a device may start from or be written with, and the dcbx_states it may find saved. |
| `TLVCodec` | `tlv_ok`, `pack_tlv`, `pack_tlv_after`, `unpack_tlv`, `create_ptlv`, `bld_end_tlv`, `pack_end_tlv`. | Pure operators. A TLV is `[type, length, info]`, a packed TLV `[size, tlv]` with `tlv` a byte sequence. The header keeps the code's u16 width: `((type * 512) % 65536) + (length % 512)`, high byte first. A failed malloc is a Boolean argument. |
| `TLVFrame` | A caller building one LLDPDU with `create_ptlv` and `pack_tlv_after` (the transmit path is not in `src/`; modelled from spec section 4.1). | VARIABLES: `frame`, `appended` (the TLVs reported appended) and `calls`. Actions: `NewFrame`, `AppendTlv`. `WireDecode` is a RECURSIVE reference decoder written from the wire format of spec section 5. |
| `MCTLVFrame` | The codec instance. | TLVs over small sets of types, lengths and fill bytes. |
| `TLVList` | The promise of spec section 4.1 `append`: an LLDPDU is a list of TLVs, and an append adds one TLV at the end within `max_length` or changes nothing. | VARIABLE `tlvs`. Actions: `Start`, `Add`. `TLVFrame` instantiates it as `List` with `tlvs <- WireDecode(frame.tlv)`. |
| `LLDPPorts` | The port list: `add_port`, `remove_port`, `set_lldp_port_admin`, `set_lldp_port_enable_state`, `set_port_hw_resetting`, `reinit_port`, and `somethingChangedLocal` from `lldp_tlv.c`. | VARIABLES: `ports` (the list from `porthead`, with adminStatus, portEnabled, hw_resetting and tx.localChange) and `config` (each interface's adminStatus entry in the configuration file). `Find` is the walk every function does. `TxFrame` is the transmit that consumes a local change (spec section 5). |
| `LLDPTlvCmds` | The settlv handlers `set_arg_tlvtxenable` (both modules) and `set_arg_ipv4`/`set_arg_ipv6`, composed with `LLDPPorts`. | Adds VARIABLES `tlvcfg` and `addrcfg`, the configuration entries they write. `CmdNext` is a port step or a handler. |
| `MCLLDPPorts`, `MCLLDPTlvCmds` | The port-list instances. | Two interfaces, the admin statuses, TLV ids of both modules and one neither handles, and symmetry over the interfaces. |

How the code maps onto the actions of `DCBXLink`:

- **Write** is an accepted `put_pg`, `put_pfc`, `put_app` or `put_llink`
  that changes something. `set_persistent` stores the write (`persisted`),
  then the handler updates the store and runs the engine. `put_app` copies
  the payload only when its Length is nonzero (`PutApp`); the model's
  `ZeroCfg` is the empty payload. An identical write, or one the rule check
  or `set_persistent` refuses, changes nothing, so the model does not
  enumerate it.
- **Receive** is `put_peer_control` plus `put_peer_<feature>` for each TLV
  in the frame, followed by `run_dcb_protocol` for a remote change. The
  receive path may flag the frame: a duplicate control or feature TLV, or
  too many neighbours. It sets these flags in the peer records' Error_Flag;
  `RxFaults` says which sets of flags a run allows.
- **Restart** tears a device down and rebuilds it with `dcbx_add_adapter`
  from `persisted` and a dcbx_state. The dcbx_state is the one
  `dcbx_remove_all` just saved, a cleared one (the save failed), or the
  stale one already on disk (an interface bounce, or a crash that skipped
  the save). The peer keeps its records, and frames on the link stay.
- **Expire** is the TTL running out. The peer control record is marked
  Expired, the TLVs are marked absent, and the engine runs.
- **Transmit** builds the frame and marks the TLV slots as sent
  (`mark_pfc_sent`).
- **Lose** empties a slot. A newer frame also overwrites an older one in the
  slot.

The driver's verdict on a feature is chosen once, at Init, and stays fixed:
a driver that rejects a setting keeps rejecting it. A verdict chosen afresh
at each push would let Error flip without end, which no real driver does.

## Runs

The link runs use two devices A and B and two payloads. Unless the table
says otherwise they use the PFC feature and payloads `c1` and `c2`. Both
devices start enabled and advertising. Each may start willing or not, with
either payload, so every willingness case and both the compatible and
incompatible cases occur.

| run | cfg | bounds | checks | shows |
|---|---|---|---|---|
| link_current | MCDCBXLink.cfg | current subtype, 1 write, 0 expiries | TypeOK, SeqNoBounded, AckChain, OperAgreement, FeatureIdempotent, Convergence, MCNoEntryOutlivesDevice, MCReadsMatchPersisted | The stop-and-wait chain holds. SeqNo never runs away. Once settled, both ends agree on OperMode and the operational payload, and they do settle. A repeated feature-machine call changes nothing. `MCNoEntryOutlivesDevice` is checked for each device of the link. Its list part is a constant that TLC computes once: over every pair of `dcbx_add_adapter` calls (each with any one failing step), `dcbx_remove_adapter` afterwards leaves exactly the default entries. `MCReadsMatchPersisted` is checked in the same way over every history of five descriptor calls. What `get_bwg_descrpt` returns is what the device will come up with after a restart, unless a `put_bwg_descrpt` has reported a failure. |
| link_legacy | MCDCBXLegacy.cfg | legacy subtype, drivers may refuse, 1 write | SeqNoBounded, AckChain, OperAgreement, FeatureIdempotent | The legacy error path keeps the ends in agreement even when one driver refuses its push. In that path Error follows `set_configuration`, and ErrProt drops OperMode on either side's error. Convergence also holds under this cfg; it took about five minutes with the liveness check, so the cfg leaves it out and the other DCBX runs check it. |
| link_faults | MCDCBXFaults.cfg | one fault per behaviour (`MCOneFault`): a peer expiry on either device, or 1 restart of A (A and B are configured alike, so B's restart is the mirror case); a dcbx_state left by an earlier run (SeqNo 2, AckNo 2) or none at Init; MaxSeq 7; no writes | SeqNoBounded, OperAgreement, Convergence | After a peer expiry, with its counter reset and stale frames still in flight, or after a restart from a fresh, cleared or stale saved state, with the peer still holding the old incarnation's numbers, the exchange stays bounded, settles and agrees. |
| stale_ack_after_expiry | MCDCBXStaleAck.cfg | current subtype, 1 write, 1 expiry | FeatureIdempotent (expected violation) | See the findings below. |
| link_features | MCDCBXFeatures.cfg | PG, APP and LLINK; payloads `c0` (empty) and `c1`; devices start non-willing; 1 write; A's build at version 1, B's at 0 | SeqNoBounded, OperAgreement, FeatureIdempotent, VersionAgreement, Convergence | Three feature machines share one control exchange and settle. PG keeps each end's tables, and LLINK runs only under asymmetric willingness. The control version and every feature version settle at the lower build's. |
| opermode_after_disable | MCDCBXOperMode.cfg | current subtype, 1 write | OperModeNeedsEnable (expected violation) | See the findings below. |
| app_empty_payload | MCDCBXAppEmpty.cfg | APP; payloads `c0` (empty) and `c1`; 1 write | PersistedIsLocal (expected violation) | See the findings below. |
| tlv_frame | MCTLVFrame.cfg | types {0,1,127}, lengths {0,1,511}, fill bytes {0,255}, MaxFrame 516, 3 calls | WithinBound, FrameDecodes, RoundTrip, ImplementsAppend | Any sequence of `pack_tlv_after` calls, with NULL, the End TLV and malloc failures, builds a frame within its bound that decodes, by the wire format, to exactly the TLVs reported appended. Read back by the wire format, the builder implements the abstract TLV list of `TLVList`. In particular, a TLV that fits, the exact fit included, is appended. |
| tlv_header_truncation | MCTLVTruncate.cfg | types {1,128}, lengths {1,512}, MaxFrame 1100 | RoundTrip (expected violation) | See the findings below. |
| sticky_flags_lost | MCDCBXSticky.cfg | as link_current, with frames that may carry a duplicate feature TLV or too many neighbours | StickyErrorsTracked (expected violation) | See the findings below. |
| admin_all_unflagged | MCPortsAdminAll.cfg | two interfaces, four admin statuses, every config-file setting, list bound 3 | AdminChangeFlagged (expected violation) | See the findings below. |
| tlv_settings | MCLLDPTlvCmds.cfg | two interfaces, two admin statuses, one TLV id per module and one unhandled, one good and one bad address; ports keep hw_resetting clear | SettingChangeFlagged | Interleaved with every port-list operation, an accepted settlv change of a listed port always leaves it flagged for a new frame. |

Properties of the link, defined in `DCBXLink`:

- `Quiescent`: nothing is left to exchange. Every frame in flight is its
  sender's current frame. Receiving that frame would change nothing at the
  peer, since it is a fixed point of the engine. Every TLV slot is marked
  sent.
- `OperAgreement` and `VersionAgreement` are asserted in quiescent states.
- `Convergence == <>[]Quiescent`.
  The payload clause leaves out PG of the current subtype, which spec
  section 4.3a and `LocalPeerCompatible` treat as compatible whatever the
  tables are (`PayloadShared`).
- `AckChain`: MyAckNo(n) <= AckNo(m) <= SeqNo(n) <= MyAckNo(n) + 1. It is
  asserted only while no expiry or restart has happened. After a reset, an
  acknowledgement still in flight legitimately breaks it.
- `FeatureIdempotent`: calling `run_feature_protocol` a second time with no
  new peer data raises no OperAttr/OperMode event and changes no Syncd,
  OperMode or Error_Flag. It tests the event tail against its entry
  snapshot.
- `PersistedIsLocal`: the attributes a restart would rebuild a device from
  are the ones its store holds (spec section 6). It is checked only in
  app_empty_payload. With PFC writes alone it would restate `put_pfc`,
  which stores every field it persists.
- `StickyErrorsTracked`: a feature's MultiTlv bit is set exactly when its
  peer record carries a duplicate-TLV flag, and MultiPeer exactly when the
  peer control record carries too-many-neighbours. This is spec section 4.3
  step 1: the sticky bits are preserved while all other bits are cleared.

Properties of the codec, defined in `TLVFrame`: `WithinBound` (the frame's
size is its byte count and never passes the bound), `FrameDecodes`
(`WireDecode(frame) = appended`), `RoundTrip` (spec section 8:
`unpack(pack(t)) = t` for every appended TLV). `tlv_ok` (src/lldp_tlv.c:52) also
accepts a type-0 TLV with a payload, which spec section 4.1 forbids; that
is a single guard a unit test reaches, so no run is kept for it.

`ImplementsAppend == List!Spec` is the refinement. `List` is
`INSTANCE TLVList WITH tlvs <- WireDecode(frame.tlv), last <- last`. The
TLVs `tlv_ok` accepts are `Addable`, NULL is the absent TLV, and `MaxFrame`
is `MaxLength`. `last` records each call: its TLV, whether its malloc
failed, and whether `pack_tlv_after` returned 0. Every step of the frame
builder must then be a step of the abstract list:

- a new empty list (`create_ptlv`);
- an append that succeeds exactly when the TLV is acceptable, memory
  suffices and the packed list stays within the bound, the exact fit
  included. On success the whole TLV goes after the others; otherwise
  nothing changes.

Through the reported result, the refinement checks what `WithinBound` and
`FrameDecodes` cannot: that a TLV which fits is not refused. The mutant
that writes the bound check at line 112 as `>=` breaks only this
property.

Properties of the port list, defined in `LLDPPorts` and `LLDPTlvCmds`:

- `AdminChangeFlagged`: a port whose adminStatus `set_lldp_port_admin`
  changes gets its local-change flag.
- `SettingChangeFlagged`: a listed port whose TLV settings a settlv handler
  changes gets its local-change flag.

Each property of a passing run has a mutant in PROJECT.json. A mutant is an
operator named `...Variant` in the comments. It changes one mapped definition
the way a plausible bug would: a dropped guard, a wrong field, or a dropped
disjunct. TLC finds the property violated under each mutant.

### Bounds

- **MaxSeq = 6** (7 in link_faults) bounds SeqNo. `EngineBound` is a guard on every action
  that runs the engine. In the correct model SeqNo never goes above 4 (5
  when the versions differ), so the guard never disables a step; the
  invariant `SeqNoBounded` checks that. A mutant that makes the exchange run
  away stops at the bound. There it shows up as a violation of
  `SeqNoBounded` or of `Convergence`, rather than as an unbounded state space.
  A restart legitimately costs up to two more sequence numbers, hence 7.
- **One fault.** With a leftover saved state at Init the one restart
  covers a restart from a fresh, a cleared and a stale dcbx_state.
  link_faults allows one restart and one expiry but, through the state
  constraint `MCOneFault`, only one of them per behaviour: both in one
  behaviour take over 7 minutes, and a write together with a restart over
  10 minutes.
- **MaxChanges** bounds the local writes and **MaxExpiries** the expiries.
  With one write, every transition of Enable, Willing, Advertise and the
  payload is reachable from every negotiated state. Two writes take over 3
  minutes and add no new branch of the code. A write plus an expiry is the
  configuration of stale_ack_after_expiry: there `FeatureIdempotent` fails
  within seconds, and the passing properties over it take over 15 minutes.
- **One feature, except in link_features.** The feature machines of
  different features share only the control protocol and the feature
  order. link_features runs PG, APP and LLINK together, with devices that
  start non-willing (the write reaches the willing cases); with willing
  starts it takes over 3 minutes. The skip after "badver" cannot happen,
  because versions are agreed before features run.
- **Codec.** The types 0, 1 and 127 and the lengths 0, 1 and 511 are the
  edges of the 7-bit and 9-bit header fields; MaxFrame 516 lets two TLVs
  fit exactly and refuses a third. The truncation run uses 128 and 512, the
  first values that do not fit.
- **Ports.** Two interfaces let a lookup skip a port and let one interface
  be listed while the other is not. The list bound is 3, one more than the
  interfaces, so that a duplicate entry would fit. The initial
  configuration ranges over every adminStatus entry, or none, per
  interface. In tlv_settings, ports keep hw_resetting clear (the handlers
  never read it; admin_all_unflagged explores it). That keeps the run
  under two minutes.

- **Adapter lists.** Two APP subtypes (one of them FCoE, whose add also
  persists) and one LLINK subtype show the subtype loops and the keying
  by subtype. Each call has at most one failing step, and two calls of
  `dcbx_add_adapter` are checked, so a retry after every kind of partial
  add is covered. The APP and LLINK loops of the code run over
  `DCB_MAX_APPTLV` and `DCB_MAX_LLKTLV` subtypes in the same way.
- **Descriptors.** Two bwgids, one name besides the default, and every
  history of five calls (adds with each failing malloc, removes, puts with
  each persistence outcome). That is enough for a failed put followed by a
  successful put of the other bwgid, and for a put between a half-done add
  and a remove. Longer names behave the same, since both branches truncate
  to the same buffer size.

### Fairness

`Spec` of `DCBXLink` assumes two things:

- **`WF_vars(Transmit(n))`.** LLDP retransmits periodically, so a
  transmission that would change the frame in flight, or mark TLVs as sent,
  is not postponed forever.
- **Strong fairness on `Receive(n)`** (`RxFair`). A link loses some frames
  but not all, so a device offered frames infinitely often receives one.
  `Lose` may empty the slot in between, which is why the fairness is strong.

`RxFair(m)` is `SF_vars(Receive(m))` with the predicate `RxOffered(m)` in
place of `ENABLED <<Receive(m)>>_vars`. Receive always changes `chan`, so
the two are equal. TLC evaluates `ENABLED` of an action by running the
whole engine without caching, which takes seconds per state.

`Lose`, `Write`, `Expire` and `Restart` are environment steps and carry no
fairness. The port list and the codec models check only safety, and carry
no fairness.

## Findings

**OperMode stays on after a local disable** (run opermode_after_disable,
spec-code divergence):

- `spec.md` section 3 states that OperMode is true only while Error is false
  and Enable is true.
- `put_pfc` (src/dcb_protocol.c:1861) stores Enable = false, then runs the
  feature machine for a local change.
- For an advertised feature, that local-change path never touches OperMode
  (lines 3129-3152 and the tail that follows them).
- TLC's trace: A and B negotiate PFC with OperMode on. Then A writes
  Enable = false with Advertise still on. A now has OperMode true and Enable
  false, and the driver keeps the feature operational.
- OperMode goes false only when A's new SeqNo has been acknowledged and F16
  runs on a remote change. If the peer stops answering, it goes false only
  at the TTL expiry.

**An empty APP write is persisted but not applied** (run
app_empty_payload, spec-code divergence):

- `put_app` gives the whole write to `set_persistent` (line 2010), but
  copies Length and AppData into the store only when Length is nonzero
  (line 2025).
- TLC's trace: A writes APP with an empty payload. The store keeps the old
  payload, and the persisted attributes hold the empty one.
- The next `dcbx_add_adapter` (daemon restart or interface bounce) rebuilds
  A from the persisted attributes, so its APP configuration changes with no
  write. Spec section 6 says persistence seeds the Local store on every
  accepted Local change.

**A stale acknowledgement is taken for a new update after an expiry**
(run stale_ack_after_expiry, spec-code divergence):

- On a peer expiry `run_control_protocol` resets SeqNo, AckNo and MyAckNo
  to 0 (src/dcb_protocol.c:3895-3897). The peer still acknowledges the old
  numbering.
- TLC's trace: A sends SeqNo 1, B acknowledges it, A's peer record
  expires, and the exchange resumes with B's AckNo still 1. A then writes
  an incompatible PFC payload, neither side willing. The write numbers the
  feature's update FeatureSeqNo = SeqNo + 1 = 1.
- The wait for the peer (line 3275) compares the peer's AckNo with
  FeatureSeqNo. The pre-expiry ack of 1 matches, so the remote ladder runs
  although B never saw the change.
- It reaches F23, which sets `Syncd = Error` before raising Error (line
  3496). The first call clears Syncd and raises Error; a second call with
  no new peer data sets Syncd again.
- Spec section 8 says a repeated call with no new peer data leaves Syncd
  unchanged. The feature counts as synchronised although the peer never
  acknowledged its error state.

**The TLV header silently truncates** (run tlv_header_truncation):
`pack_tlv` (src/lldp_tlv.c:67) keeps 7 bits of the type and 9 of the length
in the header, while `size` and the payload copy use the full length.
`unpack(pack(t))` then differs from `t`, against spec section 8.

**Sticky error bits are lost while a feature is not advertised** (run
sticky_flags_lost, spec-code divergence):

- `run_feature_protocol` saves the error bits in a `bool Err`
  (src/dcb_protocol.c:3176), which collapses the flag word to 0 or 1.
- On the F4/F5 path (feature not advertised) it then rebuilds Error_Flag as
  `Err & FEAT_ERR_MULTI_PEER | Err & FEAT_ERR_MULTI_TLV`. That keeps at
  most the bit whose value is 1 (Mismatch), and never MultiPeer or
  MultiTlv.
- TLC's trace: A stops advertising PFC, B transmits, and A receives a frame
  with a duplicate feature TLV. A's Error_Flag does not report it.
- Spec section 4.3 step 1 says the sticky MultiPeer/MultiTlv bits are
  preserved while all others are cleared.

**A global admin change does not flag the changed ports** (run
admin_all_unflagged, code bug):

- `set_lldp_port_admin` calls `somethingChangedLocal(ifname)` with the
  request's name (src/lldp/ports.c:127). For a change of all ports that
  name is "".
- `somethingChangedLocal` flags the port of that name, and no port is
  named "". The ports whose adminStatus changed are not marked for a new
  frame.
- The single-port branch of the same loop flags its port. Spec section 5
  says `mark_dirty` signals that a frame with the new state should be
  sent. After a global change the new state waits for the periodic
  transmit.

## Hazards

PROJECT.json lists the hazards, each at its source line with the properties
that cover it:

- the concurrent stop-and-wait exchange;
- a restart from a stale, cleared or fresh dcbx_state;
- the persisted attributes and the store written apart by `put_app`;
- the event tail of `run_feature_protocol` against its entry snapshot;
- the TLV header widths and the frame-length bound;
- the endless exchange when an un-advertised feature is never counted as
  synchronised;
- lost and overwritten frames;
- the reset after a peer expiry with stale frames in flight;
- a pre-expiry acknowledgement matching a new update's number;
- OperMode left stale after a local disable;
- a push that one driver refuses;
- version negotiation between different builds;
- adoption of the peer's payload;
- the `bool Err` truncation at line 3176;
- F23 not clearing old error bits;
- a failed `dcbx_add_adapter` leaving partial entries, and its retry;
- `pgdesc_insert` failing silently, so an add can succeed with no `pg_desc`
  entry;
- `put_bwg_descrpt` changing the entry before `set_persistent` fails;
- `put_bwg_descrpt` persisting the whole entry table, so a name whose put
  failed is stored by a later put of another bwgid;
- the persisted branch of the descriptor accessors indexing by an unchecked
  bwgid;
- the global admin change that flags no port.

Five of these have no property. The first is F23 not clearing old error
bits. A Peer bit from an earlier `ErrProt` stays set after the peer clears
its Error, and a Cfg bit from an earlier refused push stays set too. Spec
section 4.3 says each branch clears the flags first. A violation run
would check this, and the project keeps its runs to the questions it
already asks. The second is the silent `pgdesc_insert` failure, described
below. The third is `put_bwg_descrpt` changing the entry before
`set_persistent` fails. `MCReadsMatchPersisted` holds only until a put
reports a failure, so it does not reach this case, though `PutBwgDescrpt`
models it. The fourth is a failed descriptor put being stored by a later
one. The code does this, and `MCReadsMatchPersisted` allows it. For the
third and the fourth, no comment or spec text says otherwise. The fifth
is the unchecked bwgid. The array bound is in a header that is not in
`src/`, so the model keeps bwgid in range.

The adapter checks also show that `pg_desc` is the one list that
`dcbx_add_adapter` never looks up again. So when the `pgdesc_insert` malloc
fails, the add succeeds with no descriptor entry. `get_bwg_descrpt` and `put_bwg_descrpt`
fall back to the persisted descriptors in that case.

## Not modelled

- **System utilities** (`lldp_util.c`), **the control-interface client**
  (`clif.c`), **the daemon main** (`lldpad.c`) and **the lldptool client
  commands** (`lldptool_cmds.c`). They do I/O, parsing and formatting, and
  hold no protocol state.
- **Parts of the port list.** Not modelled: the timers and the rx/tx state
  machines that `ports.c` calls, since they are not in `src/`; so neither
  `set_port_oper_delay` nor the txTTL, MSAP and frame fields. The readers
  (`get_lldp_port_statistics`, `get_local_tlvs`, `get_neighbor_tlvs`,
  `get_port_hw_resetting`, `port_needs_shutdown`) change nothing. The
  gettlv handlers only format replies.
- **The `get_*` readers of the feature records and the contents of the
  default stores.** The readers copy out the store's record, or the
  persisted one when the device has none, and change nothing. In the link model, the default store is the `DefaultCfg`
  constant. The lists themselves are modelled in `DCBXAdapters`.
- **The payloads in detail.** A payload is a member of `Cfgs`;
  `LocalPeerCompatible` decides per feature whether two payloads match.
  `rebalance_uppcts` (not in `src/`) is taken to leave the model's PG
  payloads as they are.
- **The byte form of the DCBX TLVs on the link.** The link carries decoded
  records; the codec is checked on its own in `TLVFrame`.
- **Rule-check rejections and persistence failures** return before any store
  change, so they are stutter steps.
- **`set_hw_all`** pushes the operational store and changes no state.
