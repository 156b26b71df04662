----------------------------- MODULE KvdbTyped -----------------------------
(***************************************************************************)
(* The typed wrappers of common.c over one property: property_set_buffer   *)
(* and property_get_buffer (a byte buffer as two lowercase hex digits per  *)
(* byte) and property_set_bool and property_get_bool, on top of            *)
(* property_set_ and property_get.  Other writers (setprop, property_set)  *)
(* may store any text under the key.                                       *)
(*                                                                         *)
(* A character is its ASCII code and a text is the sequence of its codes   *)
(* without the terminating NUL, so '0' + nibble, tolower and isxdigit are  *)
(* the code's own arithmetic.  Errors are the code's negative errno        *)
(* values.  The codec is checked against reference definitions written     *)
(* independently of the loops of common.c.                                  *)
(***************************************************************************)
EXTENDS Integers, Sequences

CONSTANTS
  PropValueMax,  \* PROP_VALUE_MAX (sys/system_properties.h)
  Buffers,       \* byte buffers given to property_set_buffer
  Texts,         \* texts other writers store under the key
  Sizes,         \* size arguments of property_get_buffer
  Defaults,      \* default_value arguments of property_get_bool
  Int32Bits,     \* width of int32_t
  LongBits,      \* width of long: Int32Bits (ILP32 targets) or 64-bit (LP64)
  Int64Bits,     \* width of int64_t and long long
  Int32s,        \* values given to property_set_int32
  Int64s,        \* values given to property_set_int64
  IntDefaults,   \* default_value arguments of property_get_int32/int64
  NoValue        \* the key does not exist

ASSUME PropValueMax \in Nat \ {0}
ASSUME \A b \in Buffers : b \in Seq(0..255)
ASSUME Sizes \subseteq Nat
ASSUME Int32Bits \in Nat \ {0} /\ LongBits \in {Int32Bits, Int64Bits}

E2BIG == 7
EINVAL == 22
ERANGE == 34

Result(err, val) == [err |-> err, val |-> val]

(* ASCII codes of the words property_get_bool compares with. *)
WordNo    == <<110, 111>>
WordFalse == <<102, 97, 108, 115, 101>>
WordOff   == <<111, 102, 102>>
WordYes   == <<121, 101, 115>>
WordTrue  == <<116, 114, 117, 101>>
WordOn    == <<111, 110>>

IsDigit(c) == c \in 48..57
IsXDigit(c) == c \in (48..57) \cup (65..70) \cup (97..102)
ToLower(c) == IF c \in 65..90 THEN c + 32 ELSE c

(* Variant of nibble2ascii whose digit range ends one nibble late. *)
Nibble2AsciiOffByOne(nibble) == IF nibble <= 10 THEN 48 + nibble ELSE 97 + nibble - 10

nibble2ascii(nibble) == IF nibble < 10 THEN 48 + nibble ELSE 97 + nibble - 10

ascii2nibble(ascii) ==
  IF IsDigit(ascii) THEN ascii - 48
  ELSE IF IsXDigit(ascii) THEN ToLower(ascii) - 97 + 10
  ELSE -ERANGE

(* property_set_binary's length check on the text plus its NUL. *)
SetText(t) == IF Len(t) + 1 >= PropValueMax THEN Result(-E2BIG, <<>>)
              ELSE Result(0, t)

(* The loop of property_set_buffer_ from byte tmp on: high nibble, then  *)
(* low nibble of each byte.                                               *)
RECURSIVE Encode(_, _)
Encode(value, tmp) ==
  IF tmp > Len(value) THEN <<>>
  ELSE <<nibble2ascii(value[tmp] \div 16), nibble2ascii(value[tmp] % 16)>>
         \o Encode(value, tmp + 1)

(* property_set_buffer_: the size check, the loop, then property_set_.   *)
PropertySetBufferText(value) ==
  IF 2 * Len(value) >= PropValueMax THEN Result(-E2BIG, <<>>)
  ELSE SetText(Encode(value, 1))

(* property_set_bool_ *)
BoolText(value) == IF value # 0 THEN WordTrue ELSE WordFalse

(* buf[i] of the NUL-terminated text t (0-based). *)
CharAt(t, i) == IF i < Len(t) THEN t[i + 1] ELSE 0

(* Variant of Decode without the i >= buf_size test. *)
RECURSIVE DecodeNoLimit(_, _, _)
DecodeNoLimit(buf, i, size) ==
  IF CharAt(buf, i) = 0 THEN Result(0, <<>>)
  ELSE LET hi   == ascii2nibble(CharAt(buf, i))
           lo   == ascii2nibble(CharAt(buf, i + 1))
           rest == DecodeNoLimit(buf, i + 2, size)
       IN  IF hi < 0 THEN Result(hi, <<>>)
           ELSE IF lo < 0 THEN Result(lo, <<>>)
           ELSE IF rest.err # 0 THEN rest
           ELSE Result(0, <<hi * 16 + lo>> \o rest.val)

(* The loop of property_get_buffer from buf[i] on: the bytes it stores  *)
(* from there, or the error it returns.                                  *)
RECURSIVE Decode(_, _, _)
Decode(buf, i, size) ==
  IF CharAt(buf, i) = 0 THEN Result(0, <<>>)
  ELSE IF i >= 2 * size THEN Result(-E2BIG, <<>>)
  ELSE LET hi   == ascii2nibble(CharAt(buf, i))
           lo   == ascii2nibble(CharAt(buf, i + 1))
           rest == Decode(buf, i + 2, size)
       IN  IF hi < 0 THEN Result(hi, <<>>)
           ELSE IF lo < 0 THEN Result(lo, <<>>)
           ELSE IF rest.err # 0 THEN rest
           ELSE Result(0, <<hi * 16 + lo>> \o rest.val)

(* property_get_buffer: property_get(key, buf, NULL) fails with -EINVAL  *)
(* for a missing key; else the loop from the first character.            *)
PropertyGetBufferResult(stored, size) ==
  IF stored = NoValue THEN Result(-EINVAL, <<>>) ELSE Decode(stored, 0, size)

(* property_get_bool: property_get's length decides between the          *)
(* one-character and the word comparisons.                               *)
PropertyGetBoolResult(stored, default) ==
  LET len == IF stored = NoValue THEN -EINVAL ELSE Len(stored)
  IN  IF len = 1
        THEN IF stored[1] \in {48, 110} THEN 0
             ELSE IF stored[1] \in {49, 121} THEN 1
             ELSE default
      ELSE IF len > 1
        THEN IF stored \in {WordNo, WordFalse, WordOff} THEN 0
             ELSE IF stored \in {WordYes, WordTrue, WordOn} THEN 1
             ELSE default
      ELSE default

(* The integer of width w that C's conversion of v to a signed type of    *)
(* width w yields (GCC: reduction modulo 2^w).                            *)
MinOf(w) == -(2 ^ (w - 1))
MaxOf(w) == 2 ^ (w - 1) - 1
Wrap(v, w) == ((v - MinOf(w)) % (2 ^ w)) + MinOf(w)

(* snprintf("%" PRId32 / PRId64, v): an optional '-', then the decimal    *)
(* digits of |v| (v here is within the type's range).                      *)
RECURSIVE Digits(_)
Digits(n) == IF n < 10 THEN <<48 + n>> ELSE Digits(n \div 10) \o <<48 + (n % 10)>>

DecimalText(v) == IF v < 0 THEN <<45>> \o Digits(-v) ELSE Digits(v)

(* The value of a digit in bases up to 16, or 16 for any other character. *)
DigitVal(c) == IF IsDigit(c) THEN c - 48 ELSE IF IsXDigit(c) THEN ToLower(c) - 87 ELSE 16

IsSpace(c) == c \in {32} \cup (9..13)

(* From position i on: the first position whose character is no digit of *)
(* the base, and the value of the digits before it.                       *)
RECURSIVE Accum(_, _, _, _)
Accum(t, i, base, acc) ==
  IF i <= Len(t) /\ DigitVal(t[i]) < base
    THEN Accum(t, i + 1, base, acc * base + DigitVal(t[i]))
    ELSE [end |-> i, val |-> acc]

RECURSIVE SkipSpace(_, _)
SkipSpace(t, i) == IF i <= Len(t) /\ IsSpace(t[i]) THEN SkipSpace(t, i + 1) ELSE i

(* strtol / strtoll(t, &end, 0) for a result type of width w: leading     *)
(* white space, a sign, base 16 after "0x" or "0X" and a hex digit, base  *)
(* 8 after a leading 0, else 10.  Without digits, end is t itself (1).    *)
(* Out of range: ERANGE and the nearest bound.  den is the unbounded      *)
(* value the digits denote.                                               *)
Strtol(t, w) ==
  LET i0   == SkipSpace(t, 1)
      neg  == i0 <= Len(t) /\ t[i0] = 45
      i1   == IF i0 <= Len(t) /\ t[i0] \in {43, 45} THEN i0 + 1 ELSE i0
      hex  == i1 + 2 <= Len(t) /\ t[i1] = 48 /\ t[i1 + 1] \in {88, 120}
              /\ DigitVal(t[i1 + 2]) < 16
      base == IF hex THEN 16 ELSE IF i1 <= Len(t) /\ t[i1] = 48 THEN 8 ELSE 10
      r    == Accum(t, IF hex THEN i1 + 2 ELSE i1, base, 0)
      den  == IF neg THEN -r.val ELSE r.val
  IN  IF r.end = (IF hex THEN i1 + 2 ELSE i1)
        THEN [err |-> 0, end |-> 1, val |-> 0, den |-> 0]
      ELSE IF den > MaxOf(w) THEN [err |-> ERANGE, end |-> r.end, val |-> MaxOf(w), den |-> den]
      ELSE IF den < MinOf(w) THEN [err |-> ERANGE, end |-> r.end, val |-> MinOf(w), den |-> den]
      ELSE [err |-> 0, end |-> r.end, val |-> den, den |-> den]

(* Variant of PropertyGetIntResult that ignores errno. *)
PropertyGetIntNoErrno(stored, default, lw, w) ==
  IF stored = NoValue THEN default
  ELSE LET r == Strtol(stored, lw)
       IN  IF r.end <= Len(stored) \/ r.end = 1 THEN default ELSE Wrap(r.val, w)

(* property_get_int32 (strtol, long of width lw, stored in an int32_t)   *)
(* and property_get_int64 (strtoll): the default when property_get fails, *)
(* errno is set, characters follow the number, or there is none.          *)
PropertyGetIntResult(stored, default, lw, w) ==
  IF stored = NoValue THEN default
  ELSE LET r == Strtol(stored, lw)
       IN  IF r.err # 0 \/ r.end <= Len(stored) \/ r.end = 1 THEN default
           ELSE Wrap(r.val, w)

----------------------------------------------------------------------------
(* Reference definitions: hex as a 16-letter alphabet indexed by nibble,  *)
(* and Android's table of boolean words.                                  *)
HexAlphabet == <<48, 49, 50, 51, 52, 53, 54, 55, 56, 57, 97, 98, 99, 100, 101, 102>>
HexUpperAlphabet == <<48, 49, 50, 51, 52, 53, 54, 55, 56, 57, 65, 66, 67, 68, 69, 70>>

RefHex(value) ==
  [i \in 1..2 * Len(value) |->
     LET b == value[(i + 1) \div 2]
     IN  HexAlphabet[(IF i % 2 = 1 THEN b \div 16 ELSE b % 16) + 1]]

IsHexRef(c) == \E v \in 0..15 : c \in {HexAlphabet[v + 1], HexUpperAlphabet[v + 1]}

RefNibble(c) == CHOOSE v \in 0..15 : c \in {HexAlphabet[v + 1], HexUpperAlphabet[v + 1]}

(* A text decodes when it is an even number of hex digits that fit the   *)
(* buffer; a bad digit within the buffer's reach is reported first.      *)
RefGetBuffer(stored, size) ==
  IF stored = NoValue THEN Result(-EINVAL, <<>>)
  ELSE LET n   == Len(stored)
           lim == IF n < 2 * size THEN n ELSE 2 * size
       IN  IF \E j \in 1..lim : ~IsHexRef(stored[j]) THEN Result(-ERANGE, <<>>)
           ELSE IF n > 2 * size THEN Result(-E2BIG, <<>>)
           ELSE IF n % 2 = 1 THEN Result(-ERANGE, <<>>)
           ELSE Result(0, [j \in 1..n \div 2 |->
                             RefNibble(stored[2 * j - 1]) * 16 + RefNibble(stored[2 * j])])

RefBool(stored, default) ==
  IF stored \in {<<49>>, <<121>>, WordYes, WordTrue, WordOn} THEN 1
  ELSE IF stored \in {<<48>>, <<110>>, WordNo, WordFalse, WordOff} THEN 0
  ELSE default

----------------------------------------------------------------------------
(* One key.  origin is history: the typed value whose text is stored, or *)
(* NoValue when the text came from another writer or the key is gone.    *)
(* last is the last typed read, with the text and origin it saw.         *)
VARIABLES stored, origin, last

vars == <<stored, origin, last>>

Init ==
  /\ stored \in {NoValue} \cup {t \in Texts : SetText(t).err = 0}
  /\ origin = NoValue
  /\ last = NoValue

PropertySetBuffer(value) ==
  LET r == PropertySetBufferText(value) IN
  /\ r.err = 0
  /\ stored' = r.val
  /\ origin' = [kind |-> "buffer", val |-> value]
  /\ UNCHANGED last

PropertySetBool(value) ==
  LET r == SetText(BoolText(value)) IN
  /\ r.err = 0
  /\ stored' = r.val
  /\ origin' = [kind |-> "bool", val |-> value]
  /\ UNCHANGED last

(* property_set_int32_ / property_set_int64_: snprintf, then           *)
(* property_set_.                                                         *)
PropertySetInt(kind, value) ==
  LET r == SetText(DecimalText(value)) IN
  /\ r.err = 0
  /\ stored' = r.val
  /\ origin' = [kind |-> kind, val |-> value]
  /\ UNCHANGED last

(* property_set(key, t) by another writer. *)
PropertySet(t) ==
  LET r == SetText(t) IN
  /\ r.err = 0
  /\ stored' = r.val
  /\ origin' = NoValue
  /\ UNCHANGED last

PropertyDelete ==
  /\ stored # NoValue
  /\ stored' = NoValue
  /\ origin' = NoValue
  /\ UNCHANGED last

PropertyGetBuffer(size) ==
  /\ last' = [op |-> "buffer", text |-> stored, arg |-> size, origin |-> origin,
              res |-> PropertyGetBufferResult(stored, size)]
  /\ UNCHANGED <<stored, origin>>

PropertyGetBool(default) ==
  /\ last' = [op |-> "bool", text |-> stored, arg |-> default, origin |-> origin,
              res |-> PropertyGetBoolResult(stored, default)]
  /\ UNCHANGED <<stored, origin>>

PropertyGetInt32(default) ==
  /\ last' = [op |-> "int32", text |-> stored, arg |-> default, origin |-> origin,
              res |-> PropertyGetIntResult(stored, default, LongBits, Int32Bits)]
  /\ UNCHANGED <<stored, origin>>

PropertyGetInt64(default) ==
  /\ last' = [op |-> "int64", text |-> stored, arg |-> default, origin |-> origin,
              res |-> PropertyGetIntResult(stored, default, Int64Bits, Int64Bits)]
  /\ UNCHANGED <<stored, origin>>

Next ==
  \/ \E b \in Buffers : PropertySetBuffer(b)
  \/ \E v \in Int32s : PropertySetInt("int32", v)
  \/ \E v \in Int64s : PropertySetInt("int64", v)
  \/ \E d \in IntDefaults : PropertyGetInt32(d) \/ PropertyGetInt64(d)
  \/ \E x \in {0, 1} : PropertySetBool(x)
  \/ \E t \in Texts : PropertySet(t)
  \/ PropertyDelete
  \/ \E n \in Sizes : PropertyGetBuffer(n)
  \/ \E d \in Defaults : PropertyGetBool(d)

Spec == Init /\ [][Next]_vars

(* A buffer written by property_set_buffer reads back unchanged through  *)
(* property_get_buffer with a size at least its length, and with a       *)
(* smaller size fails with -E2BIG; a bool written by property_set_bool    *)
(* reads back through property_get_bool whatever the default, and so do  *)
(* an int32 and an int64 through their getters.                           *)
TypedRoundTrip ==
  last # NoValue /\ last.origin # NoValue =>
    /\ last.op = "buffer" /\ last.origin.kind = "buffer" =>
         last.res = IF Len(last.origin.val) <= last.arg
                      THEN Result(0, last.origin.val)
                      ELSE Result(-E2BIG, <<>>)
    /\ last.op = "bool" /\ last.origin.kind = "bool" =>
         last.res = last.origin.val
    /\ last.op \in {"int32", "int64"} /\ last.origin.kind = last.op =>
         last.res = last.origin.val

(* A property_get_int32 or property_get_int64 that does not return its    *)
(* default returns the number the stored text denotes: a number outside   *)
(* the type is a failure, never narrowed.  At risk: strtol's long result  *)
(* stored in an int32_t, and the errno test that catches ERANGE.          *)
IntReadIsExact ==
  last # NoValue /\ last.op \in {"int32", "int64"} /\ last.res # last.arg =>
    last.res = Strtol(last.text, Int64Bits).den

(* property_set_buffer stores the lowercase hex of the buffer, and       *)
(* property_get_buffer and property_get_bool agree with the reference    *)
(* definitions on every text any writer can store.                        *)
CodecMatchesReference ==
  /\ origin # NoValue /\ origin.kind = "buffer" => stored = RefHex(origin.val)
  /\ last # NoValue /\ last.op = "buffer" =>
       last.res = RefGetBuffer(last.text, last.arg)
  /\ last # NoValue /\ last.op = "bool" =>
       last.res = RefBool(last.text, last.arg)

====
