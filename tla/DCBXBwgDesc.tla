----------------------------- MODULE DCBXBwgDesc -----------------------------
(***************************************************************************)
(* The bandwidth-group descriptors of one device in src/dcb_protocol.c:    *)
(* the pg_desc entry that dcbx_add_adapter creates with add_bwg_desc from  *)
(* the persisted attributes and dcbx_remove_adapter erases, and the        *)
(* accessors get_bwg_descrpt and put_bwg_descrpt, which use the entry when *)
(* there is one and the persisted attributes otherwise.                    *)
(*                                                                         *)
(* A descriptor is a member of Names: both branches truncate a name to the *)
(* same buffer size, so truncation maps equal names to equal names and is  *)
(* left out.  BwgIds are below max_pgid_desc (8); the bound of the         *)
(* persisted array is in a header that is not under src/.                  *)
(***************************************************************************)
EXTENDS Naturals, Sequences, SequencesExt

CONSTANTS
  BwgIds,        \* the bwgid arguments, all below max_pgid_desc
  Names,         \* descriptor strings
  DefaultName,   \* the descriptor the persisted attributes start with
  CallBound      \* the number of calls in a checked history

\* The device's descriptor state: whether pg_desc has its entry, the
\* entry's table, and the descriptors set_persistent last stored.
Init == [entry |-> FALSE, live |-> [b \in BwgIds |-> DefaultName],
         persisted |-> [b \in BwgIds |-> DefaultName]]

\* The calls that touch the descriptors.  An add names its failing step:
\* the pg_info malloc of add_bwg_desc ("store", the add returns false) or
\* the entry malloc of pgdesc_insert ("entry", silent); a put names whether
\* get_persistent and set_persistent succeed.
Calls ==
  [op : {"add"}, f : {"none", "store", "entry"}]
  \cup [op : {"remove"}]
  \cup [op : {"put"}, id : BwgIds, name : Names, gok : BOOLEAN, pok : BOOLEAN]

\* add_bwg_desc, called by dcbx_add_adapter with the descriptors
\* get_persistent returned: an existing entry is kept as it is; otherwise a
\* copy of the persisted table is linked in unless an allocation fails.
AddBwgDesc(st, f) ==
  IF st.entry \/ f # "none" THEN st
  ELSE [st EXCEPT !.entry = TRUE, !.live = st.persisted]

\* The pgdesc_find / pgdesc_erase step of dcbx_remove_adapter.
EraseBwgDesc(st) == [st EXCEPT !.entry = FALSE]

\* get_bwg_descrpt: the entry's descriptor, or the persisted one when the
\* device has no entry.
GetBwgDescrpt(st, id) == IF st.entry THEN st.live[id] ELSE st.persisted[id]

\* Variant (bug model): the result of set_persistent is not checked.
PutBwgDescrptNoCheck(st, c) ==
  IF st.entry
  THEN LET l == [st.live EXCEPT ![c.id] = c.name]
       IN  [ok |-> TRUE,
            st |-> [st EXCEPT !.live = l, !.persisted = IF c.pok THEN l ELSE @]]
  ELSE [ok |-> c.gok,
        st |-> IF c.gok /\ c.pok
               THEN [st EXCEPT !.persisted[c.id] = c.name] ELSE st]

\* put_bwg_descrpt: with an entry, the name is written into the entry and
\* the whole entry table is handed to set_persistent, whose failure is
\* reported after the entry has changed; without one, the persisted table
\* is read, changed and stored again, and either failure leaves it as it
\* was.
PutBwgDescrpt(st, c) ==
  IF st.entry
  THEN LET l == [st.live EXCEPT ![c.id] = c.name]
       IN  [ok |-> c.pok,
            st |-> [st EXCEPT !.live = l, !.persisted = IF c.pok THEN l ELSE @]]
  ELSE [ok |-> c.gok /\ c.pok,
        st |-> IF c.gok /\ c.pok
               THEN [st EXCEPT !.persisted[c.id] = c.name] ELSE st]

\* One call: the descriptor state after it and whether it reported a
\* failure of a put.
Step(st, c) ==
  CASE c.op = "add"    -> [ok |-> TRUE, st |-> AddBwgDesc(st, c.f)]
    [] c.op = "remove" -> [ok |-> TRUE, st |-> EraseBwgDesc(st)]
    [] OTHER           -> PutBwgDescrpt(st, c)

-----------------------------------------------------------------------------

\* The history of CallBound calls h, from a device not yet added: the
\* states after each call, with whether a put has reported a failure so
\* far.
Trace(h) ==
  FoldLeft(LAMBDA acc, c :
             LET last == acc[Len(acc)]
                 r    == Step(last.st, c)
             IN  Append(acc, [st |-> r.st, failed |-> last.failed \/ ~r.ok]),
           << [st |-> Init, failed |-> FALSE] >>, h)

\* A descriptor that get_bwg_descrpt returns differs from the one the
\* device will come up with after a restart (the persisted one) only after
\* a put_bwg_descrpt has reported a failure: a put that reports success
\* has stored what it wrote, and add_bwg_desc and pgdesc_erase never leave
\* the live and persisted tables apart, whatever allocation fails.
ReadsMatchPersisted ==
  \A h \in [1..CallBound -> Calls] :
    \A t \in ToSet(Trace(h)) :
      ~t.failed => \A b \in BwgIds : GetBwgDescrpt(t.st, b) = t.st.persisted[b]

=============================================================================
