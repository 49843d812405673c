------------------------------ MODULE TLVFrame ------------------------------
(***************************************************************************)
(* An LLDPDU built with the codec of TLVCodec, the way the LLDP transmit   *)
(* path uses it: create_ptlv starts an empty frame, and each TLV of the    *)
(* frame is added with pack_tlv_after against the frame's maximum length,  *)
(* the End Of LLDPDU TLV among them.  The transmit path itself is not in   *)
(* src/; the frame it builds is modelled from spec.md sections 4.1 and 5.  *)
(***************************************************************************)
EXTENDS TLVCodec, Integers, Sequences

CONSTANTS
    Candidates,   \* the unpacked TLVs a caller may hand to pack_tlv_after
    MaxFrame,     \* the length argument of pack_tlv_after
    MaxTlvs       \* bound on the number of calls made on one frame

ASSUME MaxFrame \in Nat /\ MaxTlvs \in Nat

\* Every argument a caller may pass: a candidate, the End TLV, or NULL.
Inputs == Candidates \cup {bld_end_tlv, Null}

VARIABLES
    frame,     \* the packed TLV being built (mtlv)
    appended,  \* the TLVs pack_tlv_after reported as appended, in order
    calls,     \* the pack_tlv_after calls made on this frame
    last       \* the last call: its TLV, whether its malloc failed, and
               \* whether it returned 0

\* The value of last before the first call on a frame.
NoCall == [tlv |-> Null, nomem |-> FALSE, ok |-> TRUE]

vars == << frame, appended, calls, last >>

Init ==
    /\ frame = create_ptlv
    /\ appended = << >>
    /\ calls = 0
    /\ last = NoCall

\* The caller starts a new frame with create_ptlv.
NewFrame ==
    /\ frame' = create_ptlv
    /\ appended' = << >>
    /\ calls' = 0
    /\ last' = NoCall

\* The caller adds one TLV.  A return of 0 for a non-NULL TLV means it is
\* in the frame.  mallocOk says whether the mallocs of pack_tlv succeed.
AppendTlv(tlv, mallocOk) ==
    LET r == pack_tlv_after(tlv, frame, MaxFrame, mallocOk) IN
    /\ calls < MaxTlvs
    /\ frame' = r.mtlv
    /\ appended' = IF r.rc = 0 /\ tlv # Null
                   THEN Append(appended, tlv) ELSE appended
    /\ calls' = calls + 1
    /\ last' = [tlv |-> tlv, nomem |-> ~mallocOk, ok |-> r.rc = 0]

Next ==
    \/ NewFrame
    \/ \E tlv \in Inputs, ok \in BOOLEAN : AppendTlv(tlv, ok)

Spec == Init /\ [][Next]_vars

-----------------------------------------------------------------------------
(* Reference definitions, from the wire format of spec.md section 5: a TLV *)
(* header is a 16-bit big-endian word, the top 7 bits the type and the     *)
(* bottom 9 bits the length of the payload that follows.                   *)

RECURSIVE WireDecode(_)
WireDecode(bytes) ==
    IF Len(bytes) < 2 THEN << >>
    ELSE LET word == bytes[1] * 256 + bytes[2]
             len  == word % 512
         IN IF Len(bytes) < 2 + len THEN << >>
            ELSE << [type   |-> word \div 512,
                     length |-> len,
                     info   |-> SubSeq(bytes, 3, 2 + len)] >>
                 \o WireDecode(SubSeq(bytes, 3 + len, Len(bytes)))

\* The refinement mapping to the promise of spec.md section 4.1: the list
\* of TLVs is the buffer read back by the wire format, the result of an
\* append is whether pack_tlv_after returned 0, append accepts what tlv_ok
\* accepts, NULL is the absent TLV, and max_length is the length argument
\* of the calls.
List == INSTANCE TLVList WITH
            tlvs      <- WireDecode(frame.tlv),
            last      <- last,
            Inputs    <- Inputs,
            Addable   <- {t \in Inputs : tlv_ok(t)},
            NoTlv     <- Null,
            NoCall    <- NoCall,
            MaxLength <- MaxFrame

-----------------------------------------------------------------------------

\* The frame's size field counts exactly the bytes in its buffer, and no
\* sequence of pack_tlv_after calls takes it past the length bound.
WithinBound ==
    /\ frame.size = Len(frame.tlv)
    /\ frame.size <= MaxFrame

\* Reading the frame back with the wire format gives exactly the TLVs that
\* pack_tlv_after reported as appended, in order: the header pack_tlv
\* writes, its byte order and the payload copy all agree with the format,
\* and a failed call leaves no partial TLV behind.
FrameDecodes == WireDecode(frame.tlv) = appended

\* spec.md section 8: unpack(pack(t)) = t for every TLV that pack accepts;
\* here, for every TLV that pack_tlv_after has put into the frame.
RoundTrip ==
    \A i \in 1..Len(appended) :
        unpack_tlv(pack_tlv(appended[i], TRUE), TRUE) = appended[i]

\* Every step of the frame builder is a step of the abstract TLV list of
\* spec.md section 4.1: pack_tlv_after returns 0 and appends exactly the
\* TLV it was given, whole, after everything already in the buffer, when
\* tlv_ok accepts it, its malloc succeeds and the frame stays within the
\* length argument, the exact fit included; otherwise it returns -1 and
\* leaves the buffer as it was.  create_ptlv starts an empty list.
ImplementsAppend == List!Spec

=============================================================================
