---------------------------- MODULE DCBXAdapters ----------------------------
(***************************************************************************)
(* The per-family store lists of src/dcb_protocol.c and the two calls that *)
(* create and destroy a device's entries in them, dcbx_add_adapter and     *)
(* dcbx_remove_adapter.  A list is the sequence from its LIST_HEAD, first  *)
(* element first; an entry is its key, <<device name, subtype>>, with      *)
(* subtype 0 in the lists that are not keyed by one.  The record an entry  *)
(* points to is left out: DCBXStore models its contents.                   *)
(*                                                                         *)
(* Every allocation of an add may fail.  The store malloc of an add_* call *)
(* failing makes the call return false; the entry malloc of its *_insert   *)
(* failing is silent, the call returns true with no entry linked.  An      *)
(* outcome names at most one failing step of a call.                       *)
(***************************************************************************)
EXTENDS Naturals, Sequences, FiniteSets, SequencesExt

CONSTANTS
  AppSubtypes,     \* 0 .. DCB_MAX_APPTLV - 1
  LlinkSubtypes,   \* 0 .. DCB_MAX_LLKTLV - 1
  FcoeSubtype,     \* APP_FCOE_STYPE
  Dev,             \* the device added and removed
  DefCfgStore      \* DEF_CFG_STORE, the name of the default entries

ASSUME FcoeSubtype \in AppSubtypes /\ Dev # DefCfgStore

AppLists   == << "apptlv", "oper_apptlv", "peer_apptlv" >>
LlinkLists == << "llink", "oper_llink", "peer_llink" >>

\* The lists dcbx_add_adapter fills before its subtype loops, in its order.
PlainLists == << "feature_struct", "pg", "pfc", "pg_desc", "dcb_control_prot",
                 "peer_pg", "peer_pfc", "dcb_peer_control_prot",
                 "oper_pg", "oper_pfc" >>

ListNames == ToSet(PlainLists) \cup ToSet(AppLists) \cup ToSet(LlinkLists)

\* The subtypes a list is keyed by.
SubsOf(l) == CASE l \in ToSet(AppLists)   -> AppSubtypes
               [] l \in ToSet(LlinkLists) -> LlinkSubtypes
               [] OTHER                   -> {0}

\* The subtype loops of dcbx_add_adapter: for each subtype in ascending
\* order, one add per list of the family.
SubtypeSteps(lists, subs) ==
  FoldLeft(LAMBDA acc, s : acc \o [i \in 1..Len(lists) |-> << lists[i], s >>],
           << >>, SetToSortSeq(subs, <))

\* The add_* calls of dcbx_add_adapter in order, as the slot each fills;
\* init_dcb_support is the first.
Steps == [i \in 1..Len(PlainLists) |-> << PlainLists[i], 0 >>]
         \o SubtypeSteps(AppLists, AppSubtypes)
         \o SubtypeSteps(LlinkLists, LlinkSubtypes)

\* What one call of dcbx_add_adapter runs into: no failure, a failure
\* before any list is touched (get_persistent, dcb_check_config), or one
\* failing step: init_dcb_support's capability query ("caps"), a store or
\* an entry malloc, or the set_persistent of the FCoE APP object.  Step
\* Len(Steps) + 1 is the retry of get_dcb_support.
Outcomes ==
  [at : {0}, what : {"none", "persist_get", "rules"}]
  \cup [at : 1..(Len(Steps) + 1), what : {"store", "entry"}]
  \cup [at : {1, Len(Steps) + 1}, what : {"caps"}]
  \cup [at : {i \in 1..Len(Steps) : Steps[i] = << "apptlv", FcoeSubtype >>},
        what : {"persist"}]

Fault(o, k) == IF o.at = k THEN o.what ELSE "none"

\* apptlv_find (and pg_find, pfc_find, ...): the index of the first entry
\* of the key, 0 when the walk reaches NULL.
ListFind(ls, slot, d) == SelectInSeq(ls[slot[1]], LAMBDA e : e = << d, slot[2] >>)

Found(ls, slot, d) == ListFind(ls, slot, d) # 0

\* apptlv_insert: LIST_INSERT_HEAD of a new entry, nothing when its malloc
\* fails.
ListInsert(ls, slot, d, f) ==
  IF f = "entry" THEN ls
  ELSE [ls EXCEPT ![slot[1]] = << << d, slot[2] >> >> \o @]

\* apptlv_erase: LIST_REMOVE of the entry found.
ListErase(ls, l, d, s) ==
  LET i == ListFind(ls, << l, s >>, d)
  IN  IF i = 0 THEN ls ELSE [ls EXCEPT ![l] = RemoveAt(@, i)]

\* Variant (bug model): add_* inserts without looking for the entry first.
AddStepNoFind(ls, slot, d, f) ==
  IF f = "persist" THEN [ok |-> FALSE, ls |-> ls]
  ELSE IF f = "store" THEN [ok |-> FALSE, ls |-> ls]
  ELSE [ok |-> TRUE, ls |-> ListInsert(ls, slot, d, f)]

\* An add_* call: the persisted FCoE enable may fail first (add_apptlv);
\* an entry already present is updated in place; otherwise a failed store
\* malloc returns false and the entry is inserted.
AddStep(ls, slot, d, f) ==
  IF f = "persist" THEN [ok |-> FALSE, ls |-> ls]
  ELSE IF Found(ls, slot, d) THEN [ok |-> TRUE, ls |-> ls]
  ELSE IF f = "store" THEN [ok |-> FALSE, ls |-> ls]
  ELSE [ok |-> TRUE, ls |-> ListInsert(ls, slot, d, f)]

\* init_dcb_support: the capability and traffic-class queries, then the
\* feature_struct entry as add_* creates one.
InitDcbSupport(ls, d, f) ==
  IF f = "caps" THEN [ok |-> FALSE, ls |-> ls]
  ELSE AddStep(ls, << "feature_struct", 0 >>, d, f)

\* get_dcb_support: the feature_struct entry, created again by
\* init_dcb_support when it is missing; not found if it still is.
GetDcbSupport(ls, d, f) ==
  IF Found(ls, << "feature_struct", 0 >>, d) THEN [ok |-> TRUE, ls |-> ls]
  ELSE LET r == InitDcbSupport(ls, d, f)
       IN  [ok |-> r.ok /\ Found(r.ls, << "feature_struct", 0 >>, d), ls |-> r.ls]

\* The entries run_feature_protocol looks up for a local change of every
\* feature and subtype (local, peer and operational record, the control
\* and peer control records), each miss being ErrNoDevice, and the two
\* run_control_protocol looks up.
EngineSlots ==
  {<< l, 0 >> : l \in {"pg", "peer_pg", "oper_pg", "pfc", "peer_pfc",
                       "oper_pfc", "dcb_control_prot",
                       "dcb_peer_control_prot"}}
  \cup (ToSet(AppLists) \X AppSubtypes) \cup (ToSet(LlinkLists) \X LlinkSubtypes)

\* dcbx_add_adapter(d) under outcome o: [ok |-> its result, ls |-> the
\* lists after it].  The first failing add_* ends the call with the entries
\* added so far left in place; the feature and control machines then run
\* and fail on any entry they do not find.
AddAdapter(ls, d, o) ==
  IF o.what \in {"persist_get", "rules"} THEN [ok |-> FALSE, ls |-> ls]
  ELSE
    LET step(acc, k) ==
          IF ~acc.ok THEN acc
          ELSE IF k = 1 THEN InitDcbSupport(acc.ls, d, Fault(o, k))
          ELSE AddStep(acc.ls, Steps[k], d, Fault(o, k))
        r == FoldLeft(step, [ok |-> TRUE, ls |-> ls], [i \in 1..Len(Steps) |-> i])
        g == GetDcbSupport(r.ls, d, Fault(o, Len(Steps) + 1))
    IN  IF ~r.ok THEN r
        ELSE IF ~g.ok THEN g
        ELSE [ok |-> \A sl \in EngineSlots : Found(g.ls, sl, d), ls |-> g.ls]

\* dcbx_remove_adapter(d): in every list, the first entry of d for each
\* subtype is erased; a missing one is only reported.
RemoveAdapter(ls, d) ==
  [l \in ListNames |->
     FoldLeft(LAMBDA acc, s : ListErase(acc, l, d, s), ls,
              SetToSortSeq(SubsOf(l), <))[l]]

\* The lists after add_pg_defaults, add_pfc_defaults, add_app_defaults and
\* add_llink_defaults: one local entry of the default store per family and
\* subtype.
DefaultLists ==
  [l \in ListNames |->
     CASE l \in {"pg", "pfc"}      -> << << DefCfgStore, 0 >> >>
       [] l \in {"apptlv", "llink"} ->
            [i \in 1..Cardinality(SubsOf(l)) |->
               << DefCfgStore, SetToSortSeq(SubsOf(l), >)[i] >>]
       [] OTHER                     -> << >>]

-----------------------------------------------------------------------------

\* The lists after a first call of dcbx_add_adapter with outcome o1 and a
\* second with o2, as when the device is added again after a failure.
TwoAdds(o1, o2) ==
  LET r1 == AddAdapter(DefaultLists, Dev, o1)
  IN  << r1, AddAdapter(r1.ls, Dev, o2) >>

\* spec.md section 3: "no entry may outlive its device".  After any two
\* calls of dcbx_add_adapter, failed ones included, dcbx_remove_adapter
\* leaves the lists exactly as the defaults were: no entry of the device
\* remains, and no default entry is lost.
NoEntryOutlivesDevice ==
  \A o1, o2 \in Outcomes :
    RemoveAdapter(TwoAdds(o1, o2)[2].ls, Dev) = DefaultLists

=============================================================================
