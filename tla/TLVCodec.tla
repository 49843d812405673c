------------------------------ MODULE TLVCodec ------------------------------
(***************************************************************************)
(* The TLV codec of lldpad, src/lldp_tlv.c.                                *)
(*                                                                         *)
(* An unpacked TLV is a record [type, length, info].  type is the u8 of    *)
(* struct unpacked_tlv, length its u16, info the sequence of payload       *)
(* bytes.  A packed TLV is [size, tlv]: tlv is the byte sequence that the  *)
(* code keeps in the malloc'd buffer and size the int the code keeps       *)
(* beside it.  A NULL pointer is the model value Null.                     *)
(*                                                                         *)
(* The header arithmetic keeps the widths of the code: tl is a u16, so     *)
(* "tl << 9" drops the top bit of the u8 type, and "& 0x01ff" keeps the    *)
(* low nine bits of the length; htons puts the high byte first.            *)
(***************************************************************************)
EXTENDS Integers, Sequences

CONSTANT Null

U16 == 65536

\* tlv_ok: a TLV pointer is usable unless it is NULL or has a nonzero type
\* with zero length.  A type-0 TLV of any length passes.
tlv_ok(tlv) == tlv # Null /\ ~(tlv.length = 0 /\ tlv.type # 0)

\* The two bytes htons(tl) leaves in memory, most significant first.
HeaderBytes(tl) == << tl \div 256, tl % 256 >>

\* tl = type; tl = tl << 9; tl |= length & 0x01ff, all in a u16.  The low
\* nine bits of (type << 9) are zero, so the OR is an addition.
HeaderWord(tlv) == ((tlv.type * 512) % U16) + (tlv.length % 512)

\* Variant (bug model): the header stored without htons, low byte first.
pack_tlv_LE(tlv, mallocOk) ==
    IF ~tlv_ok(tlv) \/ ~mallocOk
    THEN Null
    ELSE LET tl == HeaderWord(tlv) IN
         [size |-> tlv.length + 2,
          tlv  |-> << tl % 256, tl \div 256 >> \o tlv.info]

\* pack_tlv: NULL when tlv_ok fails or a malloc fails (mallocOk = FALSE);
\* otherwise size = length + 2 and the buffer is the header then the
\* length bytes of info.
pack_tlv(tlv, mallocOk) ==
    IF ~tlv_ok(tlv) \/ ~mallocOk
    THEN Null
    ELSE [size |-> tlv.length + 2,
          tlv  |-> HeaderBytes(HeaderWord(tlv)) \o tlv.info]

\* Variant (bug model): the bound compared with the new TLV alone, not
\* with the size the frame would reach.
pack_tlv_after_NoAccum(tlv, mtlv, length, mallocOk) ==
    LET ptlv == pack_tlv(tlv, mallocOk) IN
    CASE tlv = Null                       -> [rc |-> 0,  mtlv |-> mtlv]
      [] ~tlv_ok(tlv) \/ ptlv = Null      -> [rc |-> -1, mtlv |-> mtlv]
      [] ptlv.size > length               -> [rc |-> -1, mtlv |-> mtlv]
      [] OTHER -> [rc   |-> 0,
                   mtlv |-> [size |-> mtlv.size + ptlv.size,
                             tlv  |-> mtlv.tlv \o ptlv.tlv]]

\* Variant (bug model): the bound check written >= instead of >, which
\* refuses a TLV that fills the frame exactly.
pack_tlv_after_Ge(tlv, mtlv, length, mallocOk) ==
    LET ptlv == pack_tlv(tlv, mallocOk) IN
    CASE tlv = Null                       -> [rc |-> 0,  mtlv |-> mtlv]
      [] ~tlv_ok(tlv) \/ ptlv = Null      -> [rc |-> -1, mtlv |-> mtlv]
      [] ptlv.size + mtlv.size >= length  -> [rc |-> -1, mtlv |-> mtlv]
      [] OTHER -> [rc   |-> 0,
                   mtlv |-> [size |-> mtlv.size + ptlv.size,
                             tlv  |-> mtlv.tlv \o ptlv.tlv]]

\* pack_tlv_after: the result code and the packed TLV mtlv after the call.
\* No TLV is success; an unusable or unpackable TLV, or one that would
\* take mtlv past length, is -1 and leaves mtlv as it was.
pack_tlv_after(tlv, mtlv, length, mallocOk) ==
    LET ptlv == pack_tlv(tlv, mallocOk) IN
    CASE tlv = Null                       -> [rc |-> 0,  mtlv |-> mtlv]
      [] ~tlv_ok(tlv) \/ ptlv = Null      -> [rc |-> -1, mtlv |-> mtlv]
      [] ptlv.size + mtlv.size > length   -> [rc |-> -1, mtlv |-> mtlv]
      [] OTHER -> [rc   |-> 0,
                   mtlv |-> [size |-> mtlv.size + ptlv.size,
                             tlv  |-> mtlv.tlv \o ptlv.tlv]]

\* Variant (bug model): the length masked with 0xff instead of 0x01ff.
unpack_tlv_Mask8(ptlv, mallocOk) ==
    IF ptlv = Null \/ ~mallocOk
    THEN Null
    ELSE LET tl  == ptlv.tlv[1] * 256 + ptlv.tlv[2]
             len == tl % 256
         IN [type   |-> (tl \div 512) % 256,
             length |-> len,
             info   |-> SubSeq(ptlv.tlv, 3, 2 + len)]

\* unpack_tlv: read the big-endian header at the start of the buffer;
\* length = tl & 0x01ff, type = (u8)(tl >> 9), info = the next length
\* bytes.  A malloc failure returns NULL.
unpack_tlv(ptlv, mallocOk) ==
    IF ptlv = Null \/ ~mallocOk
    THEN Null
    ELSE LET tl  == ptlv.tlv[1] * 256 + ptlv.tlv[2]
             len == tl % 512
         IN [type   |-> (tl \div 512) % 256,
             length |-> len,
             info   |-> SubSeq(ptlv.tlv, 3, 2 + len)]

\* create_ptlv: an empty packed TLV.
create_ptlv == [size |-> 0, tlv |-> << >>]

\* bld_end_tlv: the End Of LLDPDU TLV, type 0 and length 0.
bld_end_tlv == [type |-> 0, length |-> 0, info |-> << >>]

\* pack_end_tlv: the packed End Of LLDPDU TLV.
pack_end_tlv(mallocOk) == pack_tlv(bld_end_tlv, mallocOk)

=============================================================================
