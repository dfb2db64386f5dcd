------------------------- MODULE TaggedValueProofs -------------------------
(***************************************************************************)
(* What a word stands for, for words of every width.                       *)
(***************************************************************************)
EXTENDS TaggedValue, TLAPS

\* The tag of any i64 is a word that is read as a fixnum.
LEMMA TaggedIsFixnum ==
  ASSUME NEW n \in MinInteger .. MaxInteger
  PROVE  Tagged(n) \in Word /\ IsFixnum(Tagged(n))
BY EighthAssumption DEF MinInteger, MaxInteger, Tagged, Word, Words, IsFixnum

\* A fixnum keeps 63 bits: decoding the tag of an i64 gives it back unless its two
\* upper bits differ, and is otherwise off by the number of fixnum words.
LEMMA DecodedTag ==
  ASSUME NEW n \in MinInteger .. MaxInteger
  PROVE  DecodeFixnum(Tagged(n)) =
           IF n < -(2 * Eighth) THEN n + 4 * Eighth
           ELSE IF n >= 2 * Eighth THEN n - 4 * Eighth ELSE n
<1> DEFINE s == IF n < -(2 * Eighth) THEN n + 4 * Eighth
                ELSE IF n >= 2 * Eighth THEN n - 4 * Eighth ELSE n
<1>1. s \in Int /\ Signed(Tagged(n)) = 2 * s + 1
  BY EighthAssumption DEF MinInteger, MaxInteger, Tagged, Signed, Words
<1>2. \A k \in Int : (2 * k + 1) \div 2 = k
  OBVIOUS
<1> QED
  BY <1>1, <1>2 DEF DecodeFixnum

\* Value::encode_fixnum and decode_fixnum: a fixnum is read as what was written.
THEOREM FixnumRoundTrip ==
  ASSUME NEW n \in Int, EncodesFixnum(n)
  PROVE  Tagged(n) \in Word /\ IsFixnum(Tagged(n)) /\ DecodeFixnum(Tagged(n)) = n
<1>1. n \in MinInteger .. MaxInteger /\ -(2 * Eighth) <= n /\ n < 2 * Eighth
  BY EighthAssumption DEF EncodesFixnum, FixnumMin, FixnumMax, MinInteger, MaxInteger
<1>2. ~(n < -(2 * Eighth)) /\ ~(n >= 2 * Eighth)
  BY <1>1, EighthAssumption
<1> QED
  BY <1>1, <1>2, TaggedIsFixnum, DecodedTag, Zenon

\* compile_integer_op encodes its results with no test of their range.  The sum and
\* the difference of two fixnums that encode_fixnum takes are exact all the same,
\* though encode_fixnum need not take them: it leaves one bit of the fixnum unused.
THEOREM UncheckedSumExact ==
  ASSUME NEW a \in Int, NEW b \in Int, EncodesFixnum(a), EncodesFixnum(b)
  PROVE  /\ DecodeFixnum(Tagged(a + b)) = a + b
         /\ DecodeFixnum(Tagged(a - b)) = a - b
<1>1. /\ a + b \in MinInteger .. MaxInteger /\ -(2 * Eighth) <= a + b /\ a + b < 2 * Eighth
      /\ a - b \in MinInteger .. MaxInteger /\ -(2 * Eighth) <= a - b /\ a - b < 2 * Eighth
  BY EighthAssumption DEF EncodesFixnum, FixnumMin, FixnumMax, MinInteger, MaxInteger
<1>2. /\ ~(a + b < -(2 * Eighth)) /\ ~(a + b >= 2 * Eighth)
      /\ ~(a - b < -(2 * Eighth)) /\ ~(a - b >= 2 * Eighth)
  BY <1>1, EighthAssumption
<1> QED
  BY <1>1, <1>2, DecodedTag, Zenon

\* But a sum of such sums may be silently another number: twice the largest sum is
\* read as a negative fixnum.
THEOREM UncheckedSumWraps ==
  LET sum == DecodeFixnum(Tagged(FixnumMax + FixnumMax))
  IN DecodeFixnum(Tagged(sum + sum)) = -4
<1>1. FixnumMax + FixnumMax = 2 * Eighth - 2
  BY EighthAssumption DEF FixnumMax
<1>2. DecodeFixnum(Tagged(2 * Eighth - 2)) = 2 * Eighth - 2
  <2>1. 2 * Eighth - 2 \in MinInteger .. MaxInteger
    BY EighthAssumption DEF MinInteger, MaxInteger
  <2> QED
    BY <2>1, DecodedTag, EighthAssumption
<1>3. DecodeFixnum(Tagged(4 * Eighth - 4)) = -4
  <2>1. 4 * Eighth - 4 \in MinInteger .. MaxInteger /\ 4 * Eighth - 4 >= 2 * Eighth
    BY EighthAssumption DEF MinInteger, MaxInteger
  <2>2. 4 * Eighth - 4 - 4 * Eighth = -4
    BY EighthAssumption
  <2>3. ~(4 * Eighth - 4 < -(2 * Eighth))
    BY EighthAssumption
  <2> QED
    BY <2>1, <2>2, <2>3, DecodedTag
<1>4. (2 * Eighth - 2) + (2 * Eighth - 2) = 4 * Eighth - 4
  BY EighthAssumption
<1> QED
  BY <1>1, <1>2, <1>3, <1>4

\* Value::encode_char and decode_immediate: a character is read as what was written.
THEOREM CharRoundTrip ==
  ASSUME NEW code \in 0 .. Eighth - 1
  PROVE  /\ EncodeChar(code) \in Word /\ IsChar(EncodeChar(code))
         /\ DecodeChar(EncodeChar(code)) = code
BY EighthAssumption DEF EncodeChar, Word, Words, IsChar, DecodeChar, CharTag

Constants == {BoolFalse, BoolTrue, EmptyList, Unspecified}

\* No word is read as values of two kinds, in whatever order the tests are made.
THEOREM KindsDisjoint ==
  ASSUME NEW word \in Word
  PROVE  /\ IsFixnum(word) => ~IsChar(word) /\ ~IsHeapRef(word) /\ word \notin Constants
         /\ IsChar(word) => ~IsHeapRef(word) /\ word \notin Constants
         /\ IsHeapRef(word) => word \notin Constants
BY EighthAssumption
   DEF Word, Words, IsFixnum, IsChar, IsHeapRef, Constants, BoolFalse, BoolTrue, EmptyList,
       Unspecified, CharTag
=============================================================================
