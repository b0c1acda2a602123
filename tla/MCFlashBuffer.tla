----------------------------- MODULE MCFlashBuffer -----------------------------
(* Bytes of one bit: an erased one, and one that is not.                   *)
EXTENDS FlashBuffer
CONSTANT b0
OneBit == {b0}
AllBytes == SUBSET OneBit
=============================================================================
