---------------------------- MODULE TaggedValue ----------------------------
(***************************************************************************)
(* value.rs and layout.rs: how a machine word stands for a fixnum, a       *)
(* character, a constant or a reference.  The width of a word enters as    *)
(* the eighth part of the number of words, 2^61 where they have 64 bits;   *)
(* shifts and masks are products and remainders.                           *)
(***************************************************************************)
EXTENDS Integers

CONSTANT Eighth

ASSUME EighthAssumption == Eighth \in Nat /\ Eighth >= 2

Words == 8 * Eighth

Word == 0 .. Words - 1

\* The range of i64, and of a word read as one.
MinInteger == -(4 * Eighth)
MaxInteger == 4 * Eighth - 1

Signed(word) == IF word > MaxInteger THEN word - Words ELSE word

-----------------------------------------------------------------------------

FixnumMin == -Eighth
FixnumMax == Eighth - 1

IsFixnum(word) == word % 2 = 1

\* The shift and the tag, of any i64: the sign bit is lost, and the one below it
\* takes its place.
Tagged(n) == IF 2 * n + 1 < 0 THEN 2 * n + 1 + Words
             ELSE IF 2 * n + 1 < Words THEN 2 * n + 1 ELSE 2 * n + 1 - Words

\* What Value::encode_fixnum takes; it answers Tagged of it.
EncodesFixnum(n) == n \in FixnumMin .. FixnumMax

\* Variant: the shift brings in zeros.
DecodeFixnumLogical(word) == word \div 2

\* Of a word that is a fixnum; the shift keeps the sign.
DecodeFixnum(word) == Signed(word) \div 2

BoolFalse   == 2
BoolTrue    == 6
EmptyList   == 10
Unspecified == 14

EncodeBool(b) == IF b THEN BoolTrue ELSE BoolFalse

CharTag == 4

IsChar(word) == word % 8 = CharTag

EncodeChar(code) == 8 * code + CharTag
DecodeChar(word) == word \div 8

\* References are addresses of objects, which are aligned to a word of memory.
IsHeapRef(word) == word # 0 /\ word % 8 = 0
=============================================================================
