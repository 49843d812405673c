------------------------------ MODULE TLVList -------------------------------
(***************************************************************************)
(* What the frame builder promises, from spec.md section 4.1: an LLDPDU is *)
(* a list of TLVs.  append(tlv, target_buffer, max_length) adds one TLV at *)
(* the end of the list when the packed list stays within max_length, and  *)
(* otherwise fails without touching the buffer; a new buffer starts       *)
(* empty.  The result of each append is part of the promise: a TLV that   *)
(* fits is appended.  A packed TLV takes its 2-byte header and length payload bytes. *)
(* Nothing here is about bytes: TLVFrame, which packs real headers, is    *)
(* shown to implement this module under the mapping that decodes its      *)
(* buffer.                                                                *)
(***************************************************************************)
EXTENDS Naturals, Sequences, SequencesExt

CONSTANTS
    Inputs,     \* the arguments append may be called with
    Addable,    \* those of them append accepts
    NoTlv,      \* the absent TLV, which append accepts and ignores
    NoCall,     \* the result before the first append on a buffer
    MaxLength   \* the max_length argument of append

VARIABLES
    tlvs,   \* the TLVs of the buffer, in order
    last    \* the last append on the buffer: its argument, whether memory
            \* ran out, and whether it reported success

vars == << tlvs, last >>

\* The bytes a list of TLVs takes once packed.
PackedSize(s) == FoldLeft(LAMBDA acc, t : acc + 2 + t.length, 0, s)

\* Whether t, packed, still fits after the TLVs of the buffer.
Fits(t) == PackedSize(tlvs) + 2 + t.length <= MaxLength

Init == tlvs = << >> /\ last = NoCall

\* A new, empty buffer.
Start == tlvs' = << >> /\ last' = NoCall

\* append(t): it succeeds exactly when t is acceptable, memory does not run
\* out and the packed list stays within max_length, the exact fit
\* included; t then goes at the end.  A failure leaves the buffer as it
\* was.  The absent TLV succeeds and adds nothing.
Add(t, nomem) ==
    LET ok == t = NoTlv \/ (t \in Addable /\ ~nomem /\ Fits(t))
    IN  /\ tlvs' = IF ok /\ t # NoTlv THEN Append(tlvs, t) ELSE tlvs
        /\ last' = [tlv |-> t, nomem |-> nomem, ok |-> ok]

Next == Start \/ \E t \in Inputs, nomem \in BOOLEAN : Add(t, nomem)

Spec == Init /\ [][Next]_vars

=============================================================================
