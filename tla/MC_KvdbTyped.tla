----------------------------- MODULE MC_KvdbTyped -----------------------------
(* Inputs for the run of KvdbTyped. *)
EXTENDS KvdbTyped, SequencesExt

CONSTANTS nil

(* PROP_VALUE_MAX is scaled from 255 to 9: both size checks are linear in *)
(* it and 9 is odd like 255, so a 4-byte buffer passes the check of       *)
(* property_set_buffer_ (8 < 9) and fails the one of property_set_binary *)
(* (8 + 1 >= 9), as 127 bytes do with 255.                                *)
MCPropValueMax == 9

(* Bytes with nibbles at both ends and at the digit/letter boundary      *)
(* (0x00, 0x0a, 0x9f, 0xff); buffers of up to two of them, and the two    *)
(* longest buffers around the size limit.                                *)
MCBytes == {0, 10, 159, 255}
MCBuffers == BoundedSeq(MCBytes, 2) \cup {[i \in 1..n |-> 255] : n \in {3, 4}}

(* Texts other writers store: boolean words and their near misses, hex   *)
(* in both cases, non-hex, odd length, and long texts near the limit.    *)
MCTexts ==
  { <<>>, <<48>>, <<49>>, <<110>>, <<121>>, <<65>>,
    WordTrue, WordOff, WordYes, <<84, 114, 117, 101>>,
    <<48, 103>>, <<103, 48>>, <<65, 70>>, <<97, 98, 99>>, <<102, 102, 48, 48>>,
    [i \in 1..7 |-> 48], [i \in 1..8 |-> 48] }

(* Decimal, signed, hex, octal, space-led, trailing junk, sign only,    *)
(* "0x" without digits, and numbers just outside int32 and int64.         *)
MCIntTexts ==
  { <<51, 48, 48>>, <<45, 49, 50, 57>>, <<48, 120, 49, 102>>, <<48, 49, 48>>,
    <<32, 43, 49, 50>>, <<49, 50, 97>>, <<45>>, <<55, 48, 48, 48, 48>>, <<48, 120>> }

(* int32_t and int64_t are scaled from 32 and 64 bits to 8 and 16, long *)
(* is as wide as int32_t (ILP32): every overflow check of strtol and of   *)
(* the conversion to int32_t happens at the scaled bounds.                *)
MCInt32s == {-128, -1, 0, 127}
MCInt64s == {-32768, 300, 32767}
MCIntDefaults == {-1, 5}

MCAllTexts == MCTexts \cup MCIntTexts

MCSizes == {0, 1, 2, 3}
MCDefaults == {-1, 0, 1}
=============================================================================
