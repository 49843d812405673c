----------------------------- MODULE MCTLVFrame -----------------------------
(***************************************************************************)
(* Model-checking instance of TLVFrame: the candidate TLVs are every       *)
(* combination of a type, a length and a fill byte given in the .cfg.      *)
(***************************************************************************)
EXTENDS TLVFrame

CONSTANTS
    Types,      \* u8 type values to try
    Lengths,    \* u16 length values to try
    FillBytes   \* the payload of a candidate is length copies of one byte

MCCandidates ==
    { [type |-> ty, length |-> len, info |-> [i \in 1..len |-> b]] :
        ty \in Types, len \in Lengths, b \in FillBytes }

=============================================================================
