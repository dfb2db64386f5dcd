--------------------------- MODULE FrontEndProofs ---------------------------
(***************************************************************************)
(* Proofs about the lexer and the parser, for texts of any length.         *)
(***************************************************************************)
EXTENDS FrontEnd, SequenceTheorems, FiniteSetTheorems, NaturalsInduction,
        WellFoundedInduction, TLAPS

-----------------------------------------------------------------------------
(* Positions in a text.                                                    *)

\* A set of natural numbers has a least member, and Min is it.
LEMMA MinOf ==
  ASSUME NEW S \in SUBSET Nat, S # {}
  PROVE  Min(S) \in S /\ \A n \in S : Min(S) <= n
<1> DEFINE less == {ss \in Nat \X Nat : ss[1] < ss[2]}
<1>1. OpToRel(<, Nat) = less
  BY DEF OpToRel
<1>2. \A j, k \in Nat : j < k => <<j, k>> \in less
  OBVIOUS
<1> HIDE DEF less
<1>3. IsWellFoundedOn(less, Nat)
  BY <1>1, NatLessThanWellFounded
<1>4. PICK m \in S : \A k \in S : ~(<<k, m>> \in less)
  BY <1>3, WFMin
<1>5. \A k \in S : ~(k < m)
  BY <1>2, <1>4
<1>6. \A k \in S : m <= k
  BY <1>5
<1> QED
  BY <1>6 DEF Min

\* Where the search for a character of stops ends: at one, or at the end of the
\* text, and no other lies in between.
LEMMA EndOfStops ==
  ASSUME text \in Seq(Characters), NEW i \in 1 .. Len(text) + 1, NEW stops
  PROVE  /\ EndOf(i, stops) \in i .. Len(text) + 1
         /\ EndOf(i, stops) <= Len(text) => text[EndOf(i, stops)] \in stops
         /\ \A j \in i .. EndOf(i, stops) - 1 : text[j] \notin stops
<1> DEFINE n == Len(text)
           stop == {j \in i .. n : text[j] \in stops}
           all == stop \union {n + 1}
           e == EndOf(i, stops)
<1>1. n \in Nat /\ stop \in SUBSET (i .. n) /\ i \in 1 .. n + 1
  OBVIOUS
<1>2. all \in SUBSET Nat /\ all # {}
  OBVIOUS
<1>3. e = Min(all)
  BY DEF EndOf
<1> HIDE DEF all, e
<1>4. e \in all /\ \A j \in all : e <= j
  BY <1>2, <1>3, MinOf
<1>5. e \in i .. n + 1 /\ (e <= n => text[e] \in stops)
  BY <1>1, <1>4 DEF all
<1>6. \A j \in i .. e - 1 : text[j] \notin stops
  BY <1>1, <1>4, <1>5 DEF all
<1> QED
  BY <1>5, <1>6 DEF e

\* Where the digits end.
LEMMA EndOfDigitsStops ==
  ASSUME text \in Seq(Characters), NEW i \in 1 .. Len(text) + 1
  PROVE  EndOfDigits(i) \in i .. Len(text) + 1
<1> DEFINE n == Len(text)
           stop == {j \in i .. n : text[j] \notin Digits}
           all == stop \union {n + 1}
           e == EndOfDigits(i)
<1>1. n \in Nat /\ stop \in SUBSET (i .. n) /\ i \in 1 .. n + 1
  OBVIOUS
<1>2. all \in SUBSET Nat /\ all # {}
  OBVIOUS
<1>3. e = Min(all)
  BY DEF EndOfDigits
<1> HIDE DEF all, e
<1>4. e \in all /\ \A j \in all : e <= j
  BY <1>2, <1>3, MinOf
<1> QED
  BY <1>1, <1>4 DEF all, e

-----------------------------------------------------------------------------
(* The lexer.                                                              *)

\* No digit or sign ends a symbol.
LEMMA DigitsGoOn == \A c \in Digits \union {"-"} : c \notin Delimiters
BY Zenon DEF Digits, Delimiters, Blanks, Semicolon, DoubleQuote

\* Neither of these ends a line.
LEMMA NoLineEnd == Semicolon # "\n" /\ Semicolon # " " /\ DoubleQuote # "\n"
BY Zenon DEF Semicolon, DoubleQuote

LexTypes ==
  /\ text \in Seq(Characters)
  /\ index \in 1 .. Len(text) + 1
  /\ tokens \in Seq(Tokens)
  /\ literal \in [start : Nat, value : Seq(Characters)]
  /\ literal # NoLiteral => literal.start \in 1 .. index - 1
  /\ lexed \in {"reading", "ok", "error"}

\* Where the part of the text ends that the tokens account for: a literal that is
\* being read is not in it.
Behind == IF literal = NoLiteral THEN index ELSE literal.start

InOrder ==
  \A k \in DOMAIN tokens :
    /\ 1 <= tokens[k].start /\ tokens[k].start < tokens[k].end /\ tokens[k].end <= Behind
    /\ k > 1 => tokens[k - 1].end <= tokens[k].start

Accounted ==
  \A i \in 1 .. Behind - 1 :
    /\ Covered(i) => ~Commented(i)
    /\ \/ Covered(i) \/ text[i] \in Blanks \/ Commented(i)
       \/ index > Len(text) /\ TakenForAnother(i)

\* No comment reaches the beginning of a token.
CommentsOver ==
  Behind <= Len(text) /\ text[Behind] # "\n" => \A j \in 1 .. Behind - 1 : ~Comment(j, Behind)

\* The tokens account for what lies behind.
Told == InOrder /\ Accounted /\ CommentsOver

Finished == lexed = "ok" => index > Len(text) /\ literal = NoLiteral

\* A literal starts at its quotation mark.
Opened == literal # NoLiteral => text[literal.start] = DoubleQuote

LexInv == LexTypes /\ Told /\ Opened /\ Finished

\* A new token begins where the others end, at no blank.
LEMMA TokenAdded ==
  ASSUME LexTypes, Told, Behind <= Len(text), index <= Len(text), text[Behind] # "\n",
         NEW kind, NEW end \in Behind + 1 .. Len(text) + 1,
         Token(kind, Behind, end) \in Tokens,
         tokens' = Append(tokens, Token(kind, Behind, end)),
         text' = text, index' = end, literal' = NoLiteral
  PROVE  Told' /\ tokens' \in Seq(Tokens)
<1> DEFINE n == Len(tokens)
           new == Token(kind, Behind, end)
<1>1. /\ n \in Nat /\ DOMAIN tokens = 1 .. n
      /\ tokens' \in Seq(Tokens) /\ DOMAIN tokens' = 1 .. n + 1
      /\ \A k \in 1 .. n : tokens'[k] = tokens[k]
      /\ tokens'[n + 1] = new
  BY AppendProperties, LenProperties DEF LexTypes
<1>2. new.start = Behind /\ new.end = end /\ Behind' = end
  BY DEF Token, Behind
<1>3. Behind \in Nat /\ Behind >= 1 /\ Len(text) \in Nat /\ DOMAIN text = 1 .. Len(text)
  BY LenProperties DEF LexTypes, Behind
<1>4. \A k \in 1 .. n : tokens[k].start \in Nat /\ tokens[k].end \in Nat
  <2>1. \A k \in 1 .. n : tokens[k] \in Tokens
    BY <1>1, ElementOfSeq DEF LexTypes
  <2> QED
    BY <2>1 DEF Tokens
<1> HIDE DEF n, new
<1>5. InOrder'
  <2> SUFFICES ASSUME NEW k \in 1 .. n + 1
               PROVE  /\ 1 <= tokens'[k].start /\ tokens'[k].start < tokens'[k].end
                      /\ tokens'[k].end <= end
                      /\ k > 1 => tokens'[k - 1].end <= tokens'[k].start
    BY <1>1, <1>2 DEF InOrder
  <2>1. CASE k \in 1 .. n
    <3>1. tokens'[k] = tokens[k] /\ (k > 1 => k - 1 \in 1 .. n /\ tokens'[k - 1] = tokens[k - 1])
      BY <1>1, <2>1
    <3>2. /\ 1 <= tokens[k].start /\ tokens[k].start < tokens[k].end /\ tokens[k].end <= Behind
          /\ k > 1 => tokens[k - 1].end <= tokens[k].start
      BY <1>1, <2>1 DEF Told, InOrder
    <3>3. tokens[k].end <= end
      BY <1>3, <1>4, <2>1, <3>2
    <3> QED
      BY <3>1, <3>2, <3>3
  <2>2. CASE k = n + 1
    <3>1. n > 0 => tokens[n].end <= Behind
      BY <1>1 DEF Told, InOrder
    <3> QED
      BY <1>1, <1>2, <1>3, <2>2, <3>1
  <2> QED
    BY <1>1, <2>1, <2>2
<1>6. \A i \in Nat : Covered(i)' <=> Covered(i) \/ (Behind <= i /\ i < end)
  BY <1>1, <1>2 DEF Covered
<1>7. \A i \in Nat : Covered(i) => i < Behind
  BY <1>1, <1>3, <1>4 DEF Told, InOrder, Covered
<1>8. \A i \in 1 .. Behind - 1 : /\ Covered(i)' <=> Covered(i)
                                 /\ Commented(i)' <=> Commented(i)
  <2>1. \A i \in 1 .. Behind - 1 : Covered(i)' <=> Covered(i)
    BY <1>3, <1>6
  <2>2. ASSUME NEW i \in 1 .. Behind - 1, NEW j \in 1 .. i
        PROVE  Comment(j, i)' <=> Comment(j, i)
    <3>1. Covered(j)' <=> Covered(j)
      BY <1>3, <2>1
    <3> QED
      BY <3>1 DEF Comment
  <2> QED
    BY <2>1, <2>2 DEF Commented
<1>9. \A i \in Behind .. end : \A j \in 1 .. i : ~Comment(j, i)' \/ j = end
  <2> SUFFICES ASSUME NEW i \in Behind .. end, NEW j \in 1 .. i, Comment(j, i)', j # end
               PROVE  FALSE
    OBVIOUS
  <2>1. ~Covered(j)'
    BY DEF Comment
  <2>2. j < Behind
    BY <1>3, <1>6, <2>1
  <2>3. Comment(j, Behind)
    <3>1. ~Covered(j)
      BY <1>3, <1>6, <2>1
    <3>2. text[j] = Semicolon /\ \A k \in j .. i - 1 : text[k] # "\n"
      BY DEF Comment
    <3>3. \A k \in j .. Behind - 1 : k \in j .. i - 1
      BY <1>3
    <3> QED
      BY <3>1, <3>2, <3>3 DEF Comment
  <2> QED
    BY <1>3, <2>2, <2>3 DEF Told, CommentsOver
<1>10. Accounted'
  <2> SUFFICES ASSUME NEW i \in 1 .. end - 1
               PROVE  /\ Covered(i)' => ~Commented(i)'
                      /\ Covered(i)' \/ text[i] \in Blanks \/ Commented(i)'
    BY <1>2 DEF Accounted
  <2>1. CASE i < Behind
    <3>1. i \in 1 .. Behind - 1
      BY <1>3, <2>1
    <3> QED
      BY <1>3, <1>8, <3>1 DEF Told, Accounted, LexTypes
  <2>2. CASE i >= Behind
    BY <1>3, <1>6, <1>9, <2>2 DEF Commented
  <2> QED
    BY <1>3, <2>1, <2>2
<1>11. CommentsOver'
  BY <1>2, <1>3, <1>9 DEF CommentsOver
<1> QED
  BY <1>1, <1>5, <1>10, <1>11 DEF Told

\* A part of the text.
LEMMA TextPart ==
  ASSUME text \in Seq(Characters), NEW i \in 1 .. Len(text) + 1, NEW e \in i .. Len(text) + 1
  PROVE  /\ SubSeq(text, i, e - 1) \in Seq(Characters)
         /\ Len(SubSeq(text, i, e - 1)) = e - i
         /\ e > i => SubSeq(text, i, e - 1) # <<>>
<1>1. Len(text) \in Nat /\ \A j \in 1 .. Len(text) : text[j] \in Characters
  BY LenProperties, ElementOfSeq
<1>2. \A j \in i .. e - 1 : text[j] \in Characters
  BY <1>1
<1>3. i \in Int /\ e - 1 \in Int
  BY <1>1
<1>4. /\ SubSeq(text, i, e - 1) \in Seq(Characters)
      /\ Len(SubSeq(text, i, e - 1)) = IF i <= e - 1 THEN (e - 1) - i + 1 ELSE 0
  BY <1>2, <1>3, SubSeqProperties
<1>5. Len(SubSeq(text, i, e - 1)) = e - i
  BY <1>1, <1>4
<1> QED
  BY <1>1, <1>4, <1>5, EmptySeq

\* The kinds of tokens.
LEMMA KindsOfTokens ==
  /\ \A n \in MinInteger .. MaxInteger : Integer(n) \in Kinds
  /\ \A b \in BOOLEAN : Boolean(b) \in Kinds
  /\ \A c \in Characters : Char(c) \in Kinds
  /\ \A cs \in Seq(Characters) : String(cs) \in Kinds
  /\ \A cs \in Seq(Characters) \ {<<>>} : Symbol(cs) \in Kinds
  /\ {LParen, RParen, QuoteMark} \subseteq Kinds
BY DEF Integer, Boolean, Char, String, Symbol, LParen, RParen, QuoteMark, Kinds

\* A token of any kind keeps the lexer's invariant.
LEMMA Emitted ==
  ASSUME LexInv, lexed = "reading", literal = NoLiteral, index <= Len(text),
         text[index] # "\n", NEW kind \in Kinds, NEW end \in index + 1 .. Len(text) + 1,
         Emit(kind, end)
  PROVE  LexInv'
<1>1. Behind = index
  BY DEF Behind
<1>2. index \in Nat /\ index >= 1 /\ Len(text) \in Nat
  BY LenProperties DEF LexInv, LexTypes
<1>3. Token(kind, Behind, end) \in Tokens
  BY <1>1, <1>2 DEF Token, Tokens
<1>4. /\ tokens' = Append(tokens, Token(kind, Behind, end))
      /\ index' = end /\ UNCHANGED <<text, literal, lexed>>
  BY <1>1 DEF Emit
<1>5. Told' /\ tokens' \in Seq(Tokens)
  BY <1>1, <1>3, <1>4, TokenAdded DEF LexInv
<1>6. LexTypes' /\ Opened' /\ Finished'
  BY <1>2, <1>4, <1>5 DEF LexInv, LexTypes, Opened, Finished
<1> QED
  BY <1>5, <1>6 DEF LexInv

\* What changes neither the tokens nor how far they account for the text.
LEMMA NothingTold ==
  ASSUME LexTypes, Told, UNCHANGED <<text, tokens>>, Behind' = Behind,
         index > Len(text) => index' > Len(text)'
  PROVE  Told'
<1>1. \A i : Covered(i)' <=> Covered(i)
  BY DEF Covered
<1>2. \A i, j : Comment(j, i)' <=> Comment(j, i)
  BY <1>1 DEF Comment
<1>3. \A i : (Commented(i)' <=> Commented(i)) /\ (TakenForAnother(i)' <=> TakenForAnother(i))
  BY <1>2 DEF Commented, TakenForAnother
<1>4. InOrder'
  BY DEF Told, InOrder
<1>5. Accounted'
  BY <1>1, <1>3 DEF Told, Accounted
<1>6. CommentsOver'
  BY <1>2 DEF Told, CommentsOver
<1> QED
  BY <1>4, <1>5, <1>6 DEF Told

\* Each step between tokens that adds one.
LEMMA TokenSteps ==
  ASSUME LexInv, LexMark \/ LexBoolean \/ LexNumber \/ LexSymbolOfDigits \/ LexSymbol
  PROVE  LexInv'
<1>1. /\ text \in Seq(Characters) /\ index \in 1 .. Len(text) + 1 /\ Len(text) \in Nat
      /\ \A i \in 1 .. Len(text) : text[i] \in Characters
  BY LenProperties, ElementOfSeq DEF LexInv, LexTypes
<1>2. lexed = "reading" /\ literal = NoLiteral /\ index <= Len(text) /\ text[index] # "\n"
  <2>1. ASSUME LexMark
        PROVE  At({"(", ")", "'"})
    BY <2>1 DEF LexMark, At, LParen, RParen, QuoteMark
  <2>2. ASSUME LexBoolean \/ LexNumber \/ LexSymbolOfDigits
        PROVE  At({"#"} \union Digits \union {"-"})
    BY <2>2 DEF LexBoolean, LexNumber, LexSymbolOfDigits, At
  <2>3. ASSUME LexSymbol
        PROVE  /\ lexed = "reading" /\ literal = NoLiteral /\ index <= Len(text)
               /\ text[index] # "\n"
    BY <2>3 DEF LexSymbol, Blanks
  <2> QED
    BY <2>1, <2>2, <2>3 DEF At, Digits
<1>3. CASE LexMark
  <2>1. PICK mark \in {LParen, RParen, QuoteMark} : Emit(mark, index + 1)
    BY <1>3 DEF LexMark
  <2>2. mark \in Kinds /\ index + 1 \in index + 1 .. Len(text) + 1
    BY <1>1, <1>2, KindsOfTokens
  <2> QED
    BY <1>2, <2>1, <2>2, Emitted
<1>4. CASE LexBoolean
  <2>1. Emit(Boolean(text[index + 1] = "t"), index + 2) /\ index < Len(text)
    BY <1>4 DEF LexBoolean
  <2>2. Boolean(text[index + 1] = "t") \in Kinds
    BY KindsOfTokens
  <2>3. index + 2 \in index + 1 .. Len(text) + 1
    BY <1>1, <2>1
  <2> QED
    BY <1>2, <2>1, <2>2, <2>3, Emitted
<1>5. CASE LexNumber
  <2> DEFINE first == IF text[index] = "-" THEN index + 1 ELSE index
             end == EndOfDigits(first)
             n == NumberOf(SubSeq(text, index, end - 1))
  <2>1. end > first /\ IF n \in MinInteger .. MaxInteger THEN Emit(Integer(n), end) ELSE Fail
    BY <1>5 DEF LexNumber
  <2>2. first \in index .. index + 1 /\ first \in 1 .. Len(text) + 1
    BY <1>1, <1>2
  <2> HIDE DEF first
  <2>3. end \in first .. Len(text) + 1
    BY <1>1, <2>2, EndOfDigitsStops
  <2> HIDE DEF end, n
  <2>4. end \in index + 1 .. Len(text) + 1
    BY <1>1, <2>1, <2>2, <2>3
  <2>5. CASE n \in MinInteger .. MaxInteger
    BY <1>2, <2>1, <2>4, <2>5, Emitted, KindsOfTokens
  <2>6. CASE Fail
    <3>1. Behind' = Behind /\ Told'
      BY <2>6, NothingTold DEF Fail, Behind, LexInv
    <3> QED
      BY <2>6, <3>1 DEF Fail, LexInv, LexTypes, Opened, Finished
  <2> QED
    BY <2>1, <2>5, <2>6
<1>6. CASE LexSymbolOfDigits \/ LexSymbol
  <2> DEFINE end == EndOf(index, Delimiters)
             name == SubSeq(text, index, end - 1)
  <2>1. Emit(Symbol(name), end)
    BY <1>6 DEF LexSymbolOfDigits, LexSymbol
  <2>2. text[index] \notin Delimiters
    <3>1. LexSymbolOfDigits => text[index] \in Digits \union {"-"}
      BY DEF LexSymbolOfDigits, At
    <3> QED
      BY <1>6, <3>1, DigitsGoOn DEF LexSymbol, Delimiters
  <2>3. /\ end \in index .. Len(text) + 1
        /\ end <= Len(text) => text[end] \in Delimiters
    BY <1>1, EndOfStops
  <2> HIDE DEF end
  <2>4. end \in index + 1 .. Len(text) + 1
    BY <1>1, <1>2, <2>2, <2>3
  <2>5. name \in Seq(Characters) \ {<<>>}
    BY <1>1, <2>3, <2>4, TextPart
  <2>6. Symbol(name) \in Kinds
    BY <2>5, KindsOfTokens
  <2> HIDE DEF name
  <2> QED
    BY <1>2, <2>1, <2>4, <2>6, Emitted
<1> QED
  BY <1>3, <1>4, <1>5, <1>6

LEMMA CharSteps ==
  ASSUME LexInv, LexChar
  PROVE  LexInv'
<1>1. /\ text \in Seq(Characters) /\ index \in 1 .. Len(text) + 1 /\ Len(text) \in Nat
      /\ \A i \in 1 .. Len(text) : text[i] \in Characters
  BY LenProperties, ElementOfSeq DEF LexInv, LexTypes
<1>2. /\ lexed = "reading" /\ literal = NoLiteral
      /\ index < Len(text) /\ text[index] # "\n"
  BY DEF LexChar, At
<1> DEFINE end == EndOf(index + 2, Delimiters)
           name == SubSeq(text, index + 2, end - 1)
<1>3. index + 2 \in 1 .. Len(text) + 1 /\ index <= Len(text)
  BY <1>1, <1>2
<1>4. end \in index + 2 .. Len(text) + 1
  BY <1>1, <1>3, EndOfStops
<1>5. \/ \E c \in DOMAIN CharNames : Emit(Char(c), end)
      \/ Len(name) = 1 /\ Emit(Char(name[1]), end)
      \/ Fail
  BY DEF LexChar
<1> HIDE DEF end
<1>6. end \in index + 1 .. Len(text) + 1
  BY <1>1, <1>4
<1>7. name \in Seq(Characters)
  BY <1>1, <1>3, <1>4, TextPart
<1> HIDE DEF name
<1>8. ASSUME NEW c \in DOMAIN CharNames, Emit(Char(c), end)
      PROVE  LexInv'
  <2>1. c \in Characters
    BY CharactersAssumption DEF CharNames
  <2>2. Char(c) \in Kinds
    BY <2>1, KindsOfTokens
  <2> QED
    BY <1>2, <1>3, <1>6, <1>8, <2>2, Emitted
<1>9. CASE Len(name) = 1 /\ Emit(Char(name[1]), end)
  <2>1. name[1] \in Characters
    BY <1>7, <1>9, ElementOfSeq
  <2>2. Char(name[1]) \in Kinds
    BY <2>1, KindsOfTokens
  <2> QED
    BY <1>2, <1>3, <1>6, <1>9, <2>2, Emitted
<1>10. CASE Fail
  <2>1. Behind' = Behind /\ Told'
    BY <1>10, NothingTold DEF Fail, Behind, LexInv
  <2> QED
    BY <1>10, <2>1 DEF Fail, LexInv, LexTypes, Opened, Finished
<1> QED
  BY <1>5, <1>8, <1>9, <1>10

\* Positions and spans are natural numbers.
LEMMA Positions ==
  ASSUME LexTypes
  PROVE  /\ index \in Nat /\ index >= 1 /\ index <= Len(text) + 1 /\ Len(text) \in Nat
         /\ \A k \in DOMAIN tokens : tokens[k].start \in Nat /\ tokens[k].end \in Nat
<1>1. text \in Seq(Characters) /\ index \in 1 .. Len(text) + 1 /\ tokens \in Seq(Tokens)
  BY DEF LexTypes
<1>2. Len(text) \in Nat
  BY <1>1, LenProperties
<1>3. index \in Nat /\ index >= 1 /\ index <= Len(text) + 1
  BY <1>1, <1>2
<1>4. \A k \in DOMAIN tokens : tokens[k] \in Tokens
  BY <1>1, LenProperties, ElementOfSeq
<1>5. \A k \in DOMAIN tokens : tokens[k].start \in Nat /\ tokens[k].end \in Nat
  BY <1>4 DEF Tokens
<1> QED
  BY <1>2, <1>3, <1>5

\* A comment that reaches further has no line end before.
LEMMA CommentReaches ==
  ASSUME NEW i \in Nat, NEW j \in Nat, j <= i, Comment(j, i + 1)
  PROVE  Comment(j, i) /\ text[i] # "\n"
<1>1. /\ \A k \in j .. i : k \in j .. (i + 1) - 1
      /\ \A k \in j .. i - 1 : k \in j .. i
      /\ i \in j .. i
  OBVIOUS
<1>2. \A k \in j .. i : text[k] # "\n"
  BY <1>1 DEF Comment
<1> QED
  BY <1>1, <1>2 DEF Comment

\* Blanks and comments are passed over.
LEMMA BlankSkipped ==
  ASSUME LexInv, SkipBlank
  PROVE  LexInv'
<1>1. /\ lexed = "reading" /\ literal = NoLiteral /\ literal' = NoLiteral
      /\ index <= Len(text) /\ text[index] \in Blanks
      /\ index' = index + 1 /\ UNCHANGED <<text, tokens, lexed>>
  BY DEF SkipBlank, At, Skip
<1>2. /\ index \in Nat /\ index >= 1 /\ Len(text) \in Nat
      /\ \A k \in DOMAIN tokens : tokens[k].start \in Nat /\ tokens[k].end \in Nat
  BY Positions DEF LexInv
<1>3. Behind = index /\ Behind' = index + 1
  BY <1>1 DEF Behind
<1>4. /\ \A i : Covered(i)' <=> Covered(i)
      /\ \A i, j : Comment(j, i)' <=> Comment(j, i)
      /\ \A i : Commented(i)' <=> Commented(i)
      /\ \A i : TakenForAnother(i)' <=> TakenForAnother(i)
  BY <1>1 DEF Covered, Comment, Commented, TakenForAnother
<1>5. ~Covered(index)
  BY <1>2, <1>3 DEF LexInv, Told, InOrder, Covered
<1>6. InOrder'
  <2> SUFFICES ASSUME NEW k \in DOMAIN tokens
               PROVE  /\ 1 <= tokens[k].start /\ tokens[k].start < tokens[k].end
                      /\ tokens[k].end <= index + 1
                      /\ k > 1 => tokens[k - 1].end <= tokens[k].start
    BY <1>1, <1>3 DEF InOrder
  <2> QED
    BY <1>2, <1>3 DEF LexInv, Told, InOrder
<1>7. Accounted'
  <2> SUFFICES ASSUME NEW i \in 1 .. index
               PROVE  /\ Covered(i) => ~Commented(i)
                      /\ \/ Covered(i) \/ text[i] \in Blanks \/ Commented(i)
                         \/ index' > Len(text) /\ TakenForAnother(i)
    BY <1>1, <1>2, <1>3, <1>4 DEF Accounted
  <2>1. CASE i < index
    <3>1. i \in 1 .. Behind - 1
      BY <1>2, <1>3, <2>1
    <3> QED
      BY <1>1, <1>2, <3>1 DEF LexInv, Told, Accounted
  <2>2. CASE i = index
    BY <1>1, <1>5, <2>2
  <2> QED
    BY <1>2, <2>1, <2>2
<1>8. CommentsOver'
  <2> SUFFICES ASSUME NEW j \in 1 .. index, Comment(j, index + 1)
               PROVE  FALSE
    BY <1>1, <1>2, <1>3, <1>4 DEF CommentsOver
  <2>1. j \in Nat /\ j <= index
    BY <1>2
  <2>2. Comment(j, index) /\ text[index] # "\n"
    BY <1>2, <2>1, CommentReaches
  <2>3. j # index
    BY <1>1, <2>2, NoLineEnd DEF Comment, Blanks
  <2>4. j \in 1 .. Behind - 1
    BY <1>2, <1>3, <2>1, <2>3
  <2> QED
    BY <1>1, <1>3, <2>2, <2>4 DEF LexInv, Told, CommentsOver
<1>9. LexTypes' /\ Opened' /\ Finished'
  BY <1>1, <1>2 DEF LexInv, LexTypes, Opened, Finished
<1> QED
  BY <1>6, <1>7, <1>8, <1>9 DEF LexInv, Told

LEMMA CommentSkipped ==
  ASSUME LexInv, SkipComment
  PROVE  LexInv'
<1> DEFINE to == EndOf(index, {"\n"})
<1>1. /\ lexed = "reading" /\ literal = NoLiteral /\ literal' = NoLiteral
      /\ index <= Len(text) /\ text[index] = Semicolon
      /\ index' = to /\ UNCHANGED <<text, tokens, lexed>>
  BY DEF SkipComment, At, Skip
<1>2. /\ index \in Nat /\ index >= 1 /\ Len(text) \in Nat
      /\ \A k \in DOMAIN tokens : tokens[k].start \in Nat /\ tokens[k].end \in Nat
  BY Positions DEF LexInv
<1>3. /\ to \in index .. Len(text) + 1
      /\ to <= Len(text) => text[to] = "\n"
      /\ \A k \in index .. to - 1 : text[k] # "\n"
  BY EndOfStops DEF LexInv, LexTypes
<1> HIDE DEF to
<1>4. Behind = index /\ Behind' = to
  BY <1>1 DEF Behind
<1>5. /\ \A i : Covered(i)' <=> Covered(i)
      /\ \A i, j : Comment(j, i)' <=> Comment(j, i)
      /\ \A i : Commented(i)' <=> Commented(i)
      /\ \A i : TakenForAnother(i)' <=> TakenForAnother(i)
  BY <1>1 DEF Covered, Comment, Commented, TakenForAnother
<1>6. \A i \in index .. to - 1 : ~Covered(i)
  BY <1>2, <1>3, <1>4 DEF LexInv, Told, InOrder, Covered
<1>7. \A i \in index .. to - 1 : Commented(i)
  <2> SUFFICES ASSUME NEW i \in index .. to - 1
               PROVE  Comment(index, i)
    BY <1>2, <1>3 DEF Commented
  <2>1. \A k \in index .. i - 1 : k \in index .. to - 1
    BY <1>2, <1>3
  <2>2. index \in index .. to - 1
    BY <1>2, <1>3
  <2> QED
    BY <1>1, <1>3, <1>6, <2>1, <2>2 DEF Comment
<1>8. InOrder'
  <2> SUFFICES ASSUME NEW k \in DOMAIN tokens
               PROVE  /\ 1 <= tokens[k].start /\ tokens[k].start < tokens[k].end
                      /\ tokens[k].end <= to
                      /\ k > 1 => tokens[k - 1].end <= tokens[k].start
    BY <1>1, <1>4 DEF InOrder
  <2> QED
    BY <1>2, <1>3, <1>4 DEF LexInv, Told, InOrder
<1>9. Accounted'
  <2> SUFFICES ASSUME NEW i \in 1 .. to - 1
               PROVE  /\ Covered(i) => ~Commented(i)
                      /\ \/ Covered(i) \/ text[i] \in Blanks \/ Commented(i)
                         \/ index' > Len(text) /\ TakenForAnother(i)
    BY <1>1, <1>2, <1>4, <1>5 DEF Accounted
  <2>1. CASE i < index
    <3>1. i \in 1 .. Behind - 1
      BY <1>2, <1>3, <1>4, <2>1
    <3>2. ~(index > Len(text))
      BY <1>1, <1>2
    <3>3. Accounted
      BY DEF LexInv, Told
    <3> QED
      BY <3>1, <3>2, <3>3 DEF Accounted
  <2>2. CASE i >= index
    <3>1. i \in index .. to - 1
      BY <1>2, <1>3, <2>2
    <3> QED
      BY <1>6, <1>7, <3>1
  <2> QED
    BY <1>2, <1>3, <2>1, <2>2
<1>10. CommentsOver'
  BY <1>1, <1>3, <1>4 DEF CommentsOver
<1>11. LexTypes' /\ Opened' /\ Finished'
  <2>1. index' \in 1 .. Len(text)' + 1
    BY <1>1, <1>2, <1>3
  <2> QED
    BY <1>1, <2>1 DEF LexInv, LexTypes, Opened, Finished
<1> QED
  BY <1>8, <1>9, <1>10, <1>11 DEF LexInv, Told

\* NoLiteral starts nowhere.
LEMMA LiteralStarts ==
  \A l : l.start \in Nat /\ l.start >= 1 => l # NoLiteral
<1>1. NoLiteral.start = 0
  BY DEF NoLiteral
<1> QED
  BY <1>1

\* The steps at a string literal, and at the end.
LEMMA StringSteps ==
  ASSUME LexInv, \/ OpenString \/ StringByte \/ StringEscape \/ LexHashError \/ EndOfText
  PROVE  LexInv'
<1>1. /\ text \in Seq(Characters) /\ index \in 1 .. Len(text) + 1 /\ Len(text) \in Nat
      /\ \A i \in 1 .. Len(text) : text[i] \in Characters
      /\ literal \in [start : Nat, value : Seq(Characters)]
      /\ literal # NoLiteral => literal.start \in 1 .. index - 1
  BY LenProperties, ElementOfSeq DEF LexInv, LexTypes
<1>2. UNCHANGED <<text, tokens>>
  BY DEF OpenString, StringByte, StringEscape, LexHashError, EndOfText, Add, Fail
<1>3. CASE OpenString
  <2>1. /\ literal = NoLiteral /\ literal' = [start |-> index, value |-> <<>>]
        /\ index <= Len(text) /\ text[index] = DoubleQuote /\ index' = index + 1 /\ lexed' = lexed
        /\ lexed = "reading"
    BY <1>3 DEF OpenString, At
  <2>2. literal'.start = index /\ literal' \in [start : Nat, value : Seq(Characters)]
    <3>1. <<>> \in Seq(Characters)
      BY EmptySeq
    <3>2. literal'.start = index /\ index \in Nat
      BY <1>1, <2>1
    <3> QED
      BY <2>1, <3>1, <3>2
  <2>3. literal' # NoLiteral
    <3>1. literal'.start \in Nat /\ literal'.start >= 1
      BY <1>1, <2>2
    <3> QED
      BY <3>1, LiteralStarts
  <2>4. Behind' = Behind
    BY <2>1, <2>2, <2>3 DEF Behind
  <2>5. index' > index /\ index' \in 1 .. Len(text) + 1 /\ index \in 1 .. index' - 1
    <3>1. index \in Nat /\ 1 <= index /\ index <= Len(text) /\ index' = index + 1
      BY <1>1, <2>1
    <3> QED
      BY <1>1, <3>1
  <2>6. Told'
    BY <1>1, <1>2, <2>4, <2>5, NothingTold DEF LexInv
  <2>7. LexTypes' /\ Opened' /\ Finished'
    BY <1>1, <1>2, <2>1, <2>2, <2>5 DEF LexInv, LexTypes, Opened, Finished
  <2> QED
    BY <2>6, <2>7 DEF LexInv
<1>4. ASSUME NEW c \in Characters, NEW to \in index + 1 .. Len(text) + 1, Add(c, to), InString
      PROVE  LexInv'
  <2>1. /\ literal # NoLiteral /\ literal' = [literal EXCEPT !.value = Append(@, c)]
        /\ index' = to /\ lexed' = lexed /\ lexed = "reading"
    BY <1>4 DEF InString, Add
  <2>2. /\ literal'.start = literal.start
        /\ literal' \in [start : Nat, value : Seq(Characters)]
    <3>1. Append(literal.value, c) \in Seq(Characters)
      BY <1>1, AppendProperties
    <3> QED
      BY <1>1, <2>1, <3>1
  <2>3. literal' # NoLiteral
    <3>1. literal.start \in Nat /\ literal.start >= 1
      BY <1>1, <2>1
    <3> QED
      BY <2>2, <3>1, LiteralStarts
  <2>4. Behind' = Behind
    BY <2>1, <2>2, <2>3 DEF Behind
  <2>5. index' > index /\ index' \in 1 .. Len(text) + 1 /\ literal.start \in 1 .. index' - 1
    BY <1>1, <1>4, <2>1
  <2>6. Told'
    BY <1>1, <1>2, <2>4, <2>5, NothingTold DEF LexInv
  <2>7. LexTypes' /\ Opened' /\ Finished'
    BY <1>1, <1>2, <2>1, <2>2, <2>5 DEF LexInv, LexTypes, Opened, Finished
  <2> QED
    BY <2>6, <2>7 DEF LexInv
<1>5. CASE Fail
  <2>1. Behind' = Behind /\ Told'
    BY <1>5, NothingTold DEF Fail, Behind, LexInv
  <2> QED
    BY <1>5, <2>1 DEF Fail, LexInv, LexTypes, Opened, Finished
<1>6. CASE StringByte
  <2>1. InString /\ index <= Len(text) /\ Add(text[index], index + 1)
    BY <1>6 DEF StringByte
  <2> QED
    BY <1>1, <1>4, <2>1
<1>7. CASE StringEscape
  <2>1. InString
    BY <1>7 DEF StringEscape
  <2>2. CASE index < Len(text) /\ text[index + 1] \in DOMAIN Escapes
    <3>1. Add(Escapes[text[index + 1]], index + 2)
      BY <1>7, <2>2 DEF StringEscape
    <3>2. Escapes[text[index + 1]] \in Characters
      BY <1>1, <2>2, CharactersAssumption DEF Escapes
    <3>3. index + 2 \in index + 1 .. Len(text) + 1
      BY <1>1, <2>2
    <3> QED
      BY <1>4, <2>1, <3>1, <3>2, <3>3
  <2>3. CASE ~(index < Len(text) /\ text[index + 1] \in DOMAIN Escapes)
    BY <1>5, <1>7, <2>3 DEF StringEscape
  <2> QED
    BY <2>2, <2>3
<1>8. CASE LexHashError
  BY <1>5, <1>8 DEF LexHashError
<1>9. CASE EndOfText
  <2>1. Behind' = Behind /\ Told'
    BY <1>2, <1>9, NothingTold DEF EndOfText, Behind, LexInv
  <2> QED
    BY <1>9, <2>1 DEF EndOfText, LexInv, LexTypes, Opened, Finished
<1> QED
  BY <1>3, <1>6, <1>7, <1>8, <1>9

LEMMA StringClosed ==
  ASSUME LexInv, CloseString
  PROVE  LexInv'
<1> DEFINE start == literal.start
           kind == String(literal.value)
<1>1. /\ literal # NoLiteral /\ lexed = "reading" /\ lexed' = lexed
      /\ index <= Len(text) /\ text' = text /\ index' = index + 1 /\ literal' = NoLiteral
      /\ tokens' = Append(tokens, Token(kind, start, index + 1))
  BY DEF CloseString, InString
<1>2. Behind = start
  BY <1>1 DEF Behind
<1>3. /\ index \in Nat /\ Len(text) \in Nat /\ start \in 1 .. index - 1
      /\ literal.value \in Seq(Characters) /\ text[start] = DoubleQuote
  BY <1>1, Positions DEF LexInv, LexTypes, Opened
<1>4. kind \in Kinds
  BY <1>3, KindsOfTokens
<1> HIDE DEF kind, start
<1>5. start \in Nat /\ index + 1 \in Nat /\ start <= Len(text)
      /\ index + 1 \in start + 1 .. Len(text) + 1
  BY <1>1, <1>3
<1>6. Token(kind, start, index + 1) \in Tokens
  BY <1>4, <1>5 DEF Token, Tokens
<1>7. text[start] # "\n"
  BY <1>3, NoLineEnd
<1>8. Told' /\ tokens' \in Seq(Tokens)
  BY <1>1, <1>2, <1>5, <1>6, <1>7, TokenAdded DEF LexInv
<1>9. index' \in 1 .. Len(text)' + 1
  BY <1>1, <1>3
<1>10. NoLiteral \in [start : Nat, value : Seq(Characters)]
  BY EmptySeq DEF NoLiteral
<1>11. LexTypes' /\ Opened' /\ Finished'
  BY <1>1, <1>8, <1>9, <1>10 DEF LexInv, LexTypes, Opened, Finished
<1> QED
  BY <1>8, <1>11 DEF LexInv

\* A literal that does not end reaches to the end of the text, and lex takes it for
\* the string before it.
LEMMA StringNotEnded ==
  ASSUME LexInv, UnterminatedString
  PROVE  LexInv'
<1>1. /\ literal # NoLiteral /\ lexed = "reading" /\ index > Len(text)
      /\ UNCHANGED <<text, index, tokens>>
  BY DEF UnterminatedString, InString, Fail
<1>2. CASE Fail
  <2>1. Behind' = Behind /\ Told'
    BY <1>2, NothingTold DEF Fail, Behind, LexInv
  <2> QED
    BY <1>2, <2>1 DEF Fail, LexInv, LexTypes, Opened, Finished
<1>3. ASSUME tokens # <<>>, "string" \in DOMAIN Last(tokens).kind,
             literal' = NoLiteral, lexed' = lexed
      PROVE  LexInv'
  <2> DEFINE start == literal.start
  <2>1. /\ index \in Nat /\ Len(text) \in Nat /\ start \in 1 .. index - 1
        /\ index = Len(text) + 1
        /\ \A k \in DOMAIN tokens : tokens[k].start \in Nat /\ tokens[k].end \in Nat
    BY <1>1, Positions DEF LexInv, LexTypes
  <2>2. Behind = start /\ Behind' = index /\ text[start] = DoubleQuote
    BY <1>1, <1>3 DEF Behind, LexInv, Opened
  <2> HIDE DEF start
  <2>3. /\ \A i : Covered(i)' <=> Covered(i)
        /\ \A i, j : Comment(j, i)' <=> Comment(j, i)
        /\ \A i : Commented(i)' <=> Commented(i)
        /\ \A i : TakenForAnother(i)' <=> TakenForAnother(i)
    BY <1>1 DEF Covered, Comment, Commented, TakenForAnother
  <2>4. \A k \in DOMAIN tokens :
          /\ 1 <= tokens[k].start /\ tokens[k].start < tokens[k].end
          /\ tokens[k].end <= start
          /\ k > 1 => tokens[k - 1].end <= tokens[k].start
    BY <2>2 DEF LexInv, Told, InOrder
  <2>5. InOrder'
    <3> SUFFICES ASSUME NEW k \in DOMAIN tokens
                 PROVE  /\ 1 <= tokens[k].start /\ tokens[k].start < tokens[k].end
                        /\ tokens[k].end <= index
                        /\ k > 1 => tokens[k - 1].end <= tokens[k].start
      BY <1>1, <2>2 DEF InOrder
    <3> QED
      BY <2>1, <2>4
  <2>6. \A i \in start .. Len(text) : TakenForAnother(i)
    <3> SUFFICES ASSUME NEW i \in start .. Len(text)
                 PROVE  \E j \in Last(tokens).end .. i : text[j] = DoubleQuote
      BY <1>3 DEF TakenForAnother
    <3>1. Len(tokens) \in DOMAIN tokens /\ Last(tokens) = tokens[Len(tokens)]
      <4>1. tokens \in Seq(Tokens)
        BY DEF LexInv, LexTypes
      <4>2. Len(tokens) \in Nat /\ Len(tokens) # 0 /\ DOMAIN tokens = 1 .. Len(tokens)
        BY <1>3, <4>1, LenProperties, EmptySeq
      <4> QED
        BY <4>2 DEF Last
    <3>2. Last(tokens).end \in Nat /\ Last(tokens).end <= start
      BY <2>1, <2>4, <3>1
    <3>3. start \in Last(tokens).end .. i
      BY <2>1, <3>2
    <3> QED
      BY <2>2, <3>3
  <2>7. \A i \in start .. Len(text) : ~Covered(i)
    BY <2>1, <2>4 DEF Covered
  <2>8. Accounted'
    <3> SUFFICES ASSUME NEW i \in 1 .. Len(text)
                 PROVE  /\ Covered(i) => ~Commented(i)
                        /\ \/ Covered(i) \/ text[i] \in Blanks \/ Commented(i)
                           \/ TakenForAnother(i)
      BY <1>1, <2>1, <2>2, <2>3 DEF Accounted
    <3>1. CASE i < start
      <4>1. i \in 1 .. Behind - 1
        BY <2>1, <2>2, <3>1
      <4>2. Accounted
        BY DEF LexInv, Told
      <4> QED
        BY <4>1, <4>2 DEF Accounted
    <3>2. CASE i >= start
      <4>1. i \in start .. Len(text)
        BY <2>1, <3>2
      <4> QED
        BY <2>6, <2>7, <4>1
    <3> QED
      BY <2>1, <3>1, <3>2
  <2>9. CommentsOver'
    BY <1>1, <2>1, <2>2 DEF CommentsOver
  <2>10. LexTypes' /\ Opened' /\ Finished'
    <3>1. NoLiteral \in [start : Nat, value : Seq(Characters)]
      BY EmptySeq DEF NoLiteral
    <3> QED
      BY <1>1, <1>3, <3>1 DEF LexInv, LexTypes, Opened, Finished
  <2> QED
    BY <2>5, <2>8, <2>9, <2>10 DEF LexInv, Told
<1> QED
  BY <1>2, <1>3 DEF UnterminatedString

\* A fresh lexer has told nothing.
LEMMA FreshTold ==
  ASSUME text \in Seq(Characters), LexerFresh
  PROVE  LexInv
<1>1. Len(text) \in Nat
  BY LenProperties
<1>2. tokens = <<>> /\ literal = NoLiteral /\ index = 1 /\ lexed = "reading"
  BY DEF LexerFresh
<1>3. Behind = 1 /\ tokens \in Seq(Tokens) /\ DOMAIN tokens = {}
  BY <1>2, EmptySeq DEF Behind
<1>4. NoLiteral \in [start : Nat, value : Seq(Characters)]
  BY EmptySeq DEF NoLiteral
<1>5. LexTypes
  BY <1>1, <1>2, <1>3, <1>4 DEF LexTypes
<1>6. Told
  BY <1>3 DEF Told, InOrder, Accounted, CommentsOver
<1> QED
  BY <1>2, <1>5, <1>6 DEF LexInv, Opened, Finished

\* Every step of the lexer keeps its invariant.
LEMMA LexStepKeeps ==
  ASSUME LexInv, LexStep
  PROVE  LexInv'
BY TokenSteps, CharSteps, BlankSkipped, CommentSkipped, StringSteps, StringClosed,
   StringNotEnded
   DEF LexStep

\* What the invariant says of a text that has been read.
LEMMA LexInvCovers ==
  ASSUME LexInv
  PROVE  TokensCoverText
<1> SUFFICES ASSUME lexed = "ok"
             PROVE  /\ \A k \in DOMAIN tokens :
                         /\ tokens[k].start < tokens[k].end /\ tokens[k].end <= Len(text) + 1
                         /\ k > 1 => tokens[k - 1].end <= tokens[k].start
                    /\ \A i \in DOMAIN text :
                         /\ Covered(i) => ~Commented(i)
                         /\ \/ Covered(i) \/ text[i] \in Blanks \/ Commented(i)
                            \/ TakenForAnother(i)
  BY DEF TokensCoverText
<1>1. /\ index \in Nat /\ Len(text) \in Nat /\ index = Len(text) + 1
      /\ \A k \in DOMAIN tokens : tokens[k].start \in Nat /\ tokens[k].end \in Nat
  BY Positions DEF LexInv, Finished
<1>2. Behind = Len(text) + 1
  BY <1>1 DEF LexInv, Finished, Behind
<1>3. DOMAIN text = 1 .. Behind - 1
  BY <1>1, <1>2, LenProperties DEF LexInv, LexTypes
<1>4. InOrder /\ Accounted
  BY DEF LexInv, Told
<1> QED
  BY <1>1, <1>2, <1>3, <1>4 DEF InOrder, Accounted

-----------------------------------------------------------------------------
(* Counting.                                                               *)

\* The highest number counts once.
LEMMA CountTop ==
  ASSUME NEW n \in Nat, NEW A \in SUBSET (1 .. n + 1)
  PROVE  /\ Cardinality(A) \in Nat /\ Cardinality(A \intersect (1 .. n)) \in Nat
         /\ Cardinality(A) =
              Cardinality(A \intersect (1 .. n)) + (IF n + 1 \in A THEN 1 ELSE 0)
<1> DEFINE below == A \intersect (1 .. n)
<1>1. IsFiniteSet(1 .. n)
  BY FS_Interval
<1>2. IsFiniteSet(below)
  BY <1>1, FS_Subset
<1>3. n + 1 \notin below
  OBVIOUS
<1>4. A = IF n + 1 \in A THEN below \union {n + 1} ELSE below
  <2>1. \A x \in A : x \in below \/ x = n + 1
    OBVIOUS
  <2>2. below \subseteq A
    OBVIOUS
  <2> HIDE DEF below
  <2>3. n + 1 \in A => A = below \union {n + 1}
    BY <2>1, <2>2
  <2>4. n + 1 \notin A => A = below
    BY <2>1, <2>2
  <2> QED
    BY <2>3, <2>4
<1> HIDE DEF below
<1>5. /\ IsFiniteSet(below \union {n + 1})
      /\ Cardinality(below \union {n + 1}) = Cardinality(below) + 1
  BY <1>2, <1>3, FS_AddElement
<1>6. IsFiniteSet(A)
  BY <1>2, <1>4, <1>5
<1>7. Cardinality(A) \in Nat /\ Cardinality(below) \in Nat
  BY <1>2, <1>6, FS_CardinalityType
<1>8. Cardinality(A) = Cardinality(below) + (IF n + 1 \in A THEN 1 ELSE 0)
  BY <1>4, <1>5, <1>7
<1> QED
  BY <1>7, <1>8 DEF below

\* One more token.
LEMMA MarksNext ==
  ASSUME NEW count \in Nat, NEW mark
  PROVE  /\ Marks(mark, count) \in Nat
         /\ Marks(mark, count + 1) =
              Marks(mark, count) + (IF tokens[count + 1].kind = mark THEN 1 ELSE 0)
<1> DEFINE A == {k \in 1 .. count + 1 : tokens[k].kind = mark}
           B == {k \in 1 .. count : tokens[k].kind = mark}
<1>1. A \in SUBSET (1 .. count + 1) /\ B = A \intersect (1 .. count)
  OBVIOUS
<1>2. count + 1 \in A <=> tokens[count + 1].kind = mark
  OBVIOUS
<1>3. Marks(mark, count + 1) = Cardinality(A) /\ Marks(mark, count) = Cardinality(B)
  BY DEF Marks
<1> HIDE DEF A, B
<1>4. /\ Cardinality(B) \in Nat
      /\ Cardinality(A) = Cardinality(B) + (IF count + 1 \in A THEN 1 ELSE 0)
  BY <1>1, CountTop
<1> QED
  BY <1>2, <1>3, <1>4

-----------------------------------------------------------------------------
(* The parser's stack.  What the items of its lists are is left open.      *)

Frames(K) == [kind : K, start : Nat \ {0}, end : Nat]

IsStack(s) == \E K : s \in Seq(Frames(K))

OpenLists(s) == Cardinality({i \in DOMAIN s : IsList(s[i])})

LEMMA EmptyStack == IsStack(<<>>) /\ OpenLists(<<>>) = 0
<1>1. <<>> \in Seq(Frames({})) /\ DOMAIN <<>> = {}
  BY EmptySeq
<1>2. {i \in DOMAIN <<>> : IsList(<<>>[i])} = {}
  BY <1>1
<1> QED
  BY <1>1, <1>2, FS_EmptySet DEF IsStack, OpenLists

\* The innermost frame counts if it is a list.
LEMMA OpenListsTop ==
  ASSUME NEW s, NEW t, NEW n \in Nat, DOMAIN s = 1 .. n, DOMAIN t = 1 .. n + 1,
         \A i \in 1 .. n : IsList(t[i]) <=> IsList(s[i])
  PROVE  /\ OpenLists(s) \in Nat
         /\ OpenLists(t) = OpenLists(s) + (IF IsList(t[n + 1]) THEN 1 ELSE 0)
<1> DEFINE A == {i \in DOMAIN t : IsList(t[i])}
           B == {i \in DOMAIN s : IsList(s[i])}
<1>1. A \in SUBSET (1 .. n + 1) /\ B = A \intersect (1 .. n)
  OBVIOUS
<1>2. n + 1 \in A <=> IsList(t[n + 1])
  OBVIOUS
<1>3. OpenLists(t) = Cardinality(A) /\ OpenLists(s) = Cardinality(B)
  BY DEF OpenLists
<1> HIDE DEF A, B
<1>4. /\ Cardinality(B) \in Nat
      /\ Cardinality(A) = Cardinality(B) + (IF n + 1 \in A THEN 1 ELSE 0)
  BY <1>1, CountTop
<1> QED
  BY <1>2, <1>3, <1>4

\* A frame is pushed.
LEMMA Pushed ==
  ASSUME NEW s, IsStack(s), NEW kind, NEW token,
         token.start \in Nat, token.start >= 1, token.end \in Nat
  PROVE  LET t == Append(s, Frame(kind, token)) IN
         /\ IsStack(t) /\ t # <<>>
         /\ IsList(Last(t)) <=> "list" \in DOMAIN kind
         /\ OpenLists(s) \in Nat
         /\ OpenLists(t) = OpenLists(s) + (IF "list" \in DOMAIN kind THEN 1 ELSE 0)
<1> DEFINE f == Frame(kind, token)
           t == Append(s, f)
           n == Len(s)
<1>1. PICK K : s \in Seq(Frames(K))
  BY DEF IsStack
<1> DEFINE L == K \union {kind}
<1>2. Frames(K) \subseteq Frames(L) /\ f \in Frames(L)
  BY DEF Frames, Frame, Token
<1>3. f.kind = kind
  BY DEF Frame, Token
<1> HIDE DEF L, f
<1>4. s \in Seq(Frames(L))
  BY <1>1, <1>2, SeqMonotonic
<1>5. /\ t \in Seq(Frames(L)) /\ t # <<>> /\ Len(t) = n + 1
      /\ \A i \in 1 .. n : t[i] = s[i]
      /\ t[n + 1] = f
  BY <1>2, <1>4, AppendProperties
<1>6. n \in Nat /\ DOMAIN s = 1 .. n /\ DOMAIN t = 1 .. n + 1
  BY <1>4, <1>5, LenProperties
<1> HIDE DEF t, n
<1>7. Last(t) = f
  BY <1>5 DEF Last
<1>8. IsList(f) <=> "list" \in DOMAIN kind
  BY <1>3 DEF IsList
<1>9. /\ OpenLists(s) \in Nat
      /\ OpenLists(t) = OpenLists(s) + (IF IsList(t[n + 1]) THEN 1 ELSE 0)
  BY <1>5, <1>6, OpenListsTop
<1>10. IsStack(t)
  BY <1>5 DEF IsStack
<1> QED
  BY <1>5, <1>7, <1>8, <1>9, <1>10 DEF t, f

\* The innermost frame.
LEMMA TopFrame ==
  ASSUME NEW s, IsStack(s), s # <<>>
  PROVE  /\ Len(s) \in Nat /\ Len(s) >= 1 /\ DOMAIN s = 1 .. Len(s) /\ Last(s) = s[Len(s)]
         /\ \E K : s \in Seq(Frames(K)) /\ Last(s) \in Frames(K)
<1>1. PICK K : s \in Seq(Frames(K))
  BY DEF IsStack
<1>2. Len(s) \in Nat /\ Len(s) # 0 /\ DOMAIN s = 1 .. Len(s)
  BY <1>1, LenProperties, EmptySeq
<1>3. Len(s) >= 1 /\ Len(s) \in 1 .. Len(s)
  BY <1>2
<1>4. s[Len(s)] \in Frames(K)
  BY <1>1, <1>3, ElementOfSeq
<1> QED
  BY <1>1, <1>2, <1>3, <1>4 DEF Last

\* A frame is popped.
LEMMA Popped ==
  ASSUME NEW s, IsStack(s), s # <<>>
  PROVE  /\ IsStack(Front(s))
         /\ OpenLists(Front(s)) \in Nat
         /\ OpenLists(s) = OpenLists(Front(s)) + (IF IsList(Last(s)) THEN 1 ELSE 0)
<1> DEFINE n == Len(s) - 1
           t == Front(s)
<1>1. PICK K : s \in Seq(Frames(K))
  BY DEF IsStack
<1>2. Len(s) \in Nat /\ Len(s) >= 1 /\ DOMAIN s = 1 .. Len(s) /\ Last(s) = s[Len(s)]
  BY TopFrame
<1>3. n \in Nat /\ n \in Int /\ 1 \in Int /\ n + 1 = Len(s)
  BY <1>2
<1>4. \A i \in 1 .. n : s[i] \in Frames(K)
  BY <1>1, <1>2, ElementOfSeq
<1>5. t = SubSeq(s, 1, n)
  BY DEF Front
<1> HIDE DEF n, t
<1>6. /\ t \in Seq(Frames(K)) /\ Len(t) = IF 1 <= n THEN n - 1 + 1 ELSE 0
      /\ \A i \in 1 .. n - 1 + 1 : t[i] = s[1 + i - 1]
  BY <1>3, <1>4, <1>5, SubSeqProperties
<1>7. Len(t) = n
  BY <1>3, <1>6
<1>8. DOMAIN t = 1 .. n
  BY <1>6, <1>7, LenProperties
<1>9. \A i \in 1 .. n : t[i] = s[i]
  <2> SUFFICES ASSUME NEW i \in 1 .. n
               PROVE  t[i] = s[i]
    OBVIOUS
  <2>1. i \in 1 .. n - 1 + 1 /\ 1 + i - 1 = i
    BY <1>3
  <2> QED
    BY <1>6, <2>1
<1>10. /\ OpenLists(t) \in Nat
       /\ OpenLists(s) = OpenLists(t) + (IF IsList(s[n + 1]) THEN 1 ELSE 0)
  BY <1>2, <1>3, <1>8, <1>9, OpenListsTop
<1>11. IsStack(t)
  BY <1>6 DEF IsStack
<1> QED
  BY <1>2, <1>3, <1>10, <1>11 DEF t

LEMMA OpenListsCounted ==
  ASSUME NEW s, IsStack(s)
  PROVE  OpenLists(s) \in Nat
<1>1. CASE s = <<>>
  BY <1>1, EmptyStack
<1>2. CASE s # <<>>
  <2>1. /\ OpenLists(Front(s)) \in Nat
        /\ OpenLists(s) = OpenLists(Front(s)) + (IF IsList(Last(s)) THEN 1 ELSE 0)
    BY <1>2, Popped
  <2>2. ASSUME NEW a \in Nat
        PROVE  a + (IF IsList(Last(s)) THEN 1 ELSE 0) \in Nat
    OBVIOUS
  <2> QED
    BY <2>1, <2>2
<1> QED
  BY <1>1, <1>2

\* A list gets an item.
LEMMA ItemAdded ==
  ASSUME NEW s, IsStack(s), s # <<>>, IsList(Last(s)), NEW e
  PROVE  LET t == [s EXCEPT ![Len(s)].kind.list = Append(@, e)] IN
         /\ IsStack(t) /\ t # <<>>
         /\ IsList(Last(t))
         /\ OpenLists(t) = OpenLists(s)
<1> DEFINE n == Len(s)
           g == [s[n].kind EXCEPT !.list = Append(@, e)]
           f == [s[n] EXCEPT !.kind = g]
           t == [s EXCEPT ![n].kind.list = Append(@, e)]
<1>1. PICK K : s \in Seq(Frames(K)) /\ s[n] \in Frames(K)
  BY TopFrame
<1>2. n \in Nat /\ n >= 1 /\ DOMAIN s = 1 .. n /\ IsList(s[n]) /\ n \in 1 .. n
  BY TopFrame
<1> DEFINE L == K \union {g}
<1>3. t = [s EXCEPT ![n] = f]
  OBVIOUS
<1>4. DOMAIN g = DOMAIN s[n].kind
  OBVIOUS
<1> HIDE DEF g, t
<1>5. Frames(K) \subseteq Frames(L) /\ f \in Frames(L) /\ f.kind = g
  BY <1>1 DEF Frames
<1> HIDE DEF f, L
<1>6. s \in Seq(Frames(L))
  BY <1>1, <1>5, SeqMonotonic
<1>7. /\ t \in Seq(Frames(L)) /\ Len(t) = n
      /\ \A j \in 1 .. n : t[j] = IF j = n THEN f ELSE s[j]
  BY <1>2, <1>3, <1>5, <1>6, ExceptSeq
<1> HIDE DEF n
<1>8. IsList(f)
  BY <1>2, <1>4, <1>5 DEF IsList
<1>9. Last(t) = f
  BY <1>2, <1>7 DEF Last
<1>10. DOMAIN t = 1 .. n /\ t # <<>>
  BY <1>2, <1>7, LenProperties, EmptySeq
<1>11. \A i \in 1 .. n : IsList(t[i]) <=> IsList(s[i])
  BY <1>2, <1>7, <1>8
<1>12. {i \in DOMAIN t : IsList(t[i])} = {i \in DOMAIN s : IsList(s[i])}
  BY <1>2, <1>10, <1>11
<1>13. OpenLists(t) = OpenLists(s)
  BY <1>12 DEF OpenLists
<1>14. IsStack(t)
  BY <1>7 DEF IsStack
<1> QED
  BY <1>8, <1>9, <1>10, <1>13, <1>14 DEF t, n

-----------------------------------------------------------------------------
(* The parser.                                                             *)

\* A quote that waits for what it quotes.
QuoteOnTop == returned = NoExpr /\ stack # <<>> /\ ~IsList(Last(stack))

\* The open lists are the parentheses without a partner, and every quote taken has
\* something to quote, or waits for it.
Nested ==
  /\ Marks(LParen, cursor) = Marks(RParen, cursor) + OpenLists(stack)
  /\ \A count \in 0 .. cursor : Marks(RParen, count) <= Marks(LParen, count)
  /\ QuoteOnTop => cursor > 0 /\ tokens[cursor].kind = QuoteMark
  /\ \A k \in 1 .. cursor :
       tokens[k].kind = QuoteMark => \/ k < cursor /\ tokens[k + 1].kind # RParen
                                     \/ k = cursor /\ QuoteOnTop

ParseTypes ==
  /\ cursor \in 0 .. Len(tokens)
  /\ parsed \in {"idle", "parsing", "ok", "error"}
  /\ parsed # "idle" => lexed = "ok"
  /\ parsed = "idle" => ParserIdle
  /\ IsStack(stack)
  /\ returned # NoExpr => parsed = "parsing"

ParseInv == ParseTypes /\ (parsed = "parsing" => Nested) /\ BalancedIsParsed

\* The marks are different kinds, and no kind is an empty symbol.
LEMMA MarksDiffer ==
  /\ LParen # RParen /\ LParen # QuoteMark /\ RParen # QuoteMark
  /\ "mark" \in DOMAIN LParen /\ "mark" \in DOMAIN RParen /\ "mark" \in DOMAIN QuoteMark
  /\ Symbol(<<>>) \notin Kinds
<1>1. LParen.mark = "(" /\ RParen.mark = ")" /\ QuoteMark.mark = "'"
  BY DEF LParen, RParen, QuoteMark
<1>2. /\ "mark" \in DOMAIN LParen /\ "mark" \in DOMAIN RParen /\ "mark" \in DOMAIN QuoteMark
  BY DEF LParen, RParen, QuoteMark
<1>3. Symbol(<<>>) \notin Kinds
  <2>1. DOMAIN Symbol(<<>>) = {"symbol"} /\ Symbol(<<>>).symbol = <<>>
    BY DEF Symbol
  <2>2. \A kind \in Kinds : "symbol" \in DOMAIN kind => kind.symbol # <<>>
    BY DEF Kinds
  <2> QED
    BY <2>1, <2>2
<1> QED
  BY <1>1, <1>2, <1>3

\* What the lexer's invariant says of the tokens one by one.
LEMMA TokensKnown ==
  ASSUME LexInv
  PROVE  /\ Len(tokens) \in Nat /\ DOMAIN tokens = 1 .. Len(tokens)
         /\ \A k \in 1 .. Len(tokens) :
              /\ tokens[k].kind \in Kinds
              /\ tokens[k].start \in Nat /\ tokens[k].start >= 1 /\ tokens[k].end \in Nat
<1>1. tokens \in Seq(Tokens)
  BY DEF LexInv, LexTypes
<1>2. Len(tokens) \in Nat /\ DOMAIN tokens = 1 .. Len(tokens)
  BY <1>1, LenProperties
<1>3. \A k \in 1 .. Len(tokens) : tokens[k] \in Tokens
  BY <1>1, ElementOfSeq
<1>4. \A k \in 1 .. Len(tokens) :
        tokens[k].kind \in Kinds /\ tokens[k].start \in Nat /\ tokens[k].end \in Nat
  BY <1>3 DEF Tokens
<1>5. \A k \in 1 .. Len(tokens) : tokens[k].start >= 1
  BY <1>2, <1>4 DEF LexInv, Told, InOrder
<1> QED
  BY <1>2, <1>4, <1>5

\* An expression starts somewhere, or quotes; NoExpr does not.
LEMMA ExprsStart ==
  /\ \A e : e.start \in Nat /\ e.start >= 1 => e # NoExpr
  /\ \A e, start, end : Token(QuoteOf(e), start, end) # NoExpr
<1>1. NoExpr.start = 0 /\ "quote" \notin DOMAIN NoExpr.kind
  BY DEF NoExpr, Token, ListOf
<1>2. \A e, start, end : "quote" \in DOMAIN Token(QuoteOf(e), start, end).kind
  BY DEF Token, QuoteOf
<1> QED
  BY <1>1, <1>2

\* The next token is taken, and the stack accounts for it.
LEMMA Taken ==
  ASSUME Nested, cursor \in Nat, cursor' = cursor + 1, tokens' = tokens,
         OpenLists(stack) \in Nat, OpenLists(stack') \in Nat,
         Upcoming.kind = RParen => ~QuoteOnTop /\ OpenLists(stack) > 0,
         OpenLists(stack') + (IF Upcoming.kind = RParen THEN 1 ELSE 0) =
           OpenLists(stack) + (IF Upcoming.kind = LParen THEN 1 ELSE 0),
         QuoteOnTop' <=> Upcoming.kind = QuoteMark
  PROVE  Nested'
<1> DEFINE next == cursor + 1
           before == OpenLists(stack)
           after == OpenLists(stack')
<1>1. /\ Marks(LParen, cursor) \in Nat /\ Marks(RParen, cursor) \in Nat
      /\ Marks(LParen, next) = Marks(LParen, cursor) + (IF Upcoming.kind = LParen THEN 1 ELSE 0)
      /\ Marks(RParen, next) = Marks(RParen, cursor) + (IF Upcoming.kind = RParen THEN 1 ELSE 0)
  BY MarksNext DEF Upcoming
<1>2. \A mark, count : Marks(mark, count)' = Marks(mark, count')
  BY DEF Marks
<1>3. /\ Marks(LParen, cursor) = Marks(RParen, cursor) + before
      /\ \A count \in 0 .. cursor : Marks(RParen, count) <= Marks(LParen, count)
      /\ \A k \in 1 .. cursor :
           tokens[k].kind = QuoteMark => \/ k < cursor /\ tokens[k + 1].kind # RParen
                                         \/ k = cursor /\ QuoteOnTop
  BY DEF Nested
<1>4. Upcoming = tokens[next]
  BY DEF Upcoming
<1> HIDE DEF before, after
<1>5. /\ before \in Nat /\ after \in Nat /\ (Upcoming.kind = RParen => ~QuoteOnTop /\ before > 0)
      /\ after + (IF Upcoming.kind = RParen THEN 1 ELSE 0) =
           before + (IF Upcoming.kind = LParen THEN 1 ELSE 0)
  BY DEF before, after
<1>6. Marks(LParen, next) = Marks(RParen, next) + after
  <2>1. CASE Upcoming.kind = LParen
    <3>1. Upcoming.kind # RParen
      BY <2>1, MarksDiffer
    <3> QED
      BY <1>1, <1>3, <1>5, <2>1, <3>1
  <2>2. CASE Upcoming.kind = RParen
    <3>1. Upcoming.kind # LParen
      BY <2>2, MarksDiffer
    <3> QED
      BY <1>1, <1>3, <1>5, <2>2, <3>1
  <2>3. CASE Upcoming.kind # LParen /\ Upcoming.kind # RParen
    BY <1>1, <1>3, <1>5, <2>3
  <2> QED
    BY <2>1, <2>2, <2>3
<1>7. Marks(RParen, next) <= Marks(LParen, next)
  BY <1>1, <1>5, <1>6
<1>8. ASSUME NEW count \in 0 .. next
      PROVE  Marks(RParen, count) <= Marks(LParen, count)
  BY <1>3, <1>7
<1>9. ASSUME NEW k \in 1 .. next, tokens[k].kind = QuoteMark
      PROVE  \/ k < next /\ tokens[k + 1].kind # RParen
             \/ k = next /\ QuoteOnTop'
  <2>1. CASE k < cursor
    BY <1>3, <1>9, <2>1
  <2>2. CASE k = cursor
    BY <1>3, <1>4, <1>5, <1>9, <2>2
  <2>3. CASE k = next
    BY <1>4, <1>9, <2>3
  <2> QED
    BY <2>1, <2>2, <2>3
<1>10. QuoteOnTop' => next > 0 /\ tokens[next].kind = QuoteMark
  BY <1>4
<1> HIDE DEF next
<1>11. /\ Marks(LParen, cursor)' = Marks(LParen, next)
       /\ Marks(RParen, cursor)' = Marks(RParen, next)
       /\ OpenLists(stack)' = after
  BY <1>2 DEF next, after, OpenLists, IsList
<1>12. \A count \in 0 .. next : Marks(RParen, count)' <= Marks(LParen, count)'
  BY <1>8 DEF Marks
<1> QED
  BY <1>6, <1>9, <1>10, <1>11, <1>12 DEF Nested, next

\* No token is taken.
LEMMA NoneTaken ==
  ASSUME Nested, UNCHANGED <<cursor, tokens>>, OpenLists(stack') = OpenLists(stack),
         ~QuoteOnTop, ~QuoteOnTop'
  PROVE  Nested'
<1>1. \A mark, count : Marks(mark, count)' = Marks(mark, count')
  BY DEF Marks
<1>2. OpenLists(stack)' = OpenLists(stack)
  BY DEF OpenLists, IsList
<1> QED
  BY <1>1, <1>2 DEF Nested

\* Where a parser is between two tokens.
LEMMA AtReady ==
  ASSUME LexInv, ParseInv, Ready
  PROVE  /\ parsed = "parsing" /\ returned = NoExpr /\ lexed = "ok" /\ Nested /\ IsStack(stack)
         /\ cursor \in Nat /\ cursor <= Len(tokens) /\ Len(tokens) \in Nat
         /\ cursor < Len(tokens) =>
              /\ cursor + 1 \in 0 .. Len(tokens) /\ Upcoming.kind \in Kinds
              /\ Upcoming.start \in Nat /\ Upcoming.start >= 1 /\ Upcoming.end \in Nat
<1>1. Len(tokens) \in Nat /\ cursor \in 0 .. Len(tokens)
  BY TokensKnown DEF ParseInv, ParseTypes
<1>2. cursor < Len(tokens) => cursor + 1 \in 1 .. Len(tokens)
  BY <1>1
<1>3. parsed = "parsing" /\ returned = NoExpr
  BY DEF Ready
<1>4. lexed = "ok" /\ Nested /\ IsStack(stack)
  BY <1>3 DEF ParseInv, ParseTypes
<1>5. cursor < Len(tokens) =>
        /\ Upcoming.kind \in Kinds
        /\ Upcoming.start \in Nat /\ Upcoming.start >= 1 /\ Upcoming.end \in Nat
  BY <1>2, TokensKnown DEF Upcoming
<1> QED
  BY <1>1, <1>2, <1>3, <1>4, <1>5

\* Going on is no verdict.
LEMMA NoVerdict ==
  ASSUME parsed' = "parsing", lexed' = "ok", cursor' \in 0 .. Len(tokens'), IsStack(stack'),
         Nested'
  PROVE  ParseInv'
<1>1. ParseTypes'
  BY DEF ParseTypes, IsStack, Frames
<1> QED
  BY <1>1 DEF ParseInv, BalancedIsParsed

LEMMA Started ==
  ASSUME LexInv, ParseInv, lexed = "ok", StartParse, UNCHANGED lexVars
  PROVE  ParseInv'
<1>1. ~\E i \in DOMAIN tokens : tokens[i].kind = Symbol(<<>>)
  BY TokensKnown, MarksDiffer
<1>2. /\ parsed' = "parsing" /\ ParserIdle
      /\ UNCHANGED <<cursor, stack, returned, forms, tokens, lexed>>
  BY <1>1 DEF StartParse, ParseInv, ParseTypes, lexVars
<1>3. cursor = 0 /\ stack = <<>> /\ returned = NoExpr
  BY <1>2 DEF ParserIdle
<1>4. \A mark : Marks(mark, 0) = 0
  <2>1. \A mark : {k \in 1 .. 0 : tokens[k].kind = mark} = {}
    OBVIOUS
  <2> QED
    BY <2>1, FS_EmptySet DEF Marks
<1>5. Nested
  <2>1. ~QuoteOnTop
    BY <1>3 DEF QuoteOnTop
  <2>2. \A count \in 0 .. cursor : count = 0
    BY <1>3
  <2> QED
    BY <1>3, <1>4, <2>1, <2>2, EmptyStack DEF Nested
<1>6. Nested'
  BY <1>2, <1>5 DEF Nested, Marks, OpenLists, IsList, QuoteOnTop
<1>7. cursor' \in 0 .. Len(tokens') /\ IsStack(stack')
  BY <1>2 DEF ParseInv, ParseTypes
<1> QED
  BY <1>2, <1>6, <1>7, NoVerdict

LEMMA AtomParsed ==
  ASSUME LexInv, ParseInv, ParseAtom, UNCHANGED lexVars
  PROVE  ParseInv'
<1>1. /\ Ready /\ cursor < Len(tokens) /\ "mark" \notin DOMAIN Upcoming.kind
      /\ cursor' = cursor + 1 /\ returned' = Upcoming
      /\ UNCHANGED <<stack, parsed, tokens, lexed>>
  BY DEF ParseAtom, Advance, Return, lexVars
<1>2. /\ Upcoming.kind # LParen /\ Upcoming.kind # RParen /\ Upcoming.kind # QuoteMark
  BY <1>1, MarksDiffer
<1>3. ~QuoteOnTop'
  BY <1>1, AtReady, ExprsStart DEF QuoteOnTop, NoExpr, Token, ListOf
<1>4. OpenLists(stack) \in Nat
  BY <1>1, AtReady, OpenListsCounted
<1>5. Nested'
  BY <1>1, <1>2, <1>3, <1>4, AtReady, Taken
<1> QED
  BY <1>1, <1>5, AtReady, NoVerdict

LEMMA FramePushed ==
  ASSUME LexInv, ParseInv, ParseQuote \/ ParseOpen, UNCHANGED lexVars
  PROVE  ParseInv'
<1> DEFINE kind == IF ParseQuote THEN QuoteOf(NoExpr) ELSE ListOf(<<>>)
<1>1. /\ Ready /\ cursor < Len(tokens) /\ cursor' = cursor + 1
      /\ Upcoming.kind = IF ParseQuote THEN QuoteMark ELSE LParen
      /\ stack' = Append(stack, Frame(kind, Upcoming))
      /\ UNCHANGED <<returned, parsed, tokens, lexed>>
  BY DEF ParseQuote, ParseOpen, AtToken, Advance, lexVars
<1>2. "list" \in DOMAIN kind <=> Upcoming.kind = LParen
  BY <1>1, MarksDiffer DEF QuoteOf, ListOf
<1>3. Upcoming.kind \in {LParen, QuoteMark} /\ Upcoming.kind # RParen
  BY <1>1, MarksDiffer
<1> HIDE DEF kind
<1>4. /\ IsStack(stack') /\ stack' # <<>>
      /\ IsList(Last(stack')) <=> Upcoming.kind = LParen
      /\ OpenLists(stack) \in Nat
      /\ OpenLists(stack') = OpenLists(stack) + (IF Upcoming.kind = LParen THEN 1 ELSE 0)
  BY <1>1, <1>2, AtReady, Pushed
<1>5. QuoteOnTop' <=> Upcoming.kind = QuoteMark
  BY <1>1, <1>3, <1>4, AtReady, MarksDiffer DEF QuoteOnTop, NoExpr, Token, ListOf, IsList, Last
<1>6. Nested'
  BY <1>1, <1>3, <1>4, <1>5, AtReady, Taken
<1> QED
  BY <1>1, <1>4, <1>6, AtReady, NoVerdict

\* Tokens that are refused are not balanced.
LEMMA TokenRefused ==
  ASSUME LexInv, ParseInv, AtToken({RParen}), stack = <<>> \/ ~IsList(Last(stack)),
         Refuse, UNCHANGED lexVars
  PROVE  ParseInv'
<1>1. /\ Ready /\ cursor < Len(tokens) /\ tokens[cursor + 1].kind = RParen
      /\ parsed' = "error" /\ UNCHANGED <<cursor, stack, returned, tokens, lexed>>
  BY DEF AtToken, Upcoming, Refuse, lexVars
<1>2. ~Balanced
  <2>1. CASE stack = <<>>
    <3>1. Marks(LParen, cursor) = Marks(RParen, cursor)
      BY <1>1, <2>1, AtReady, EmptyStack, MarksNext DEF Nested
    <3>2. /\ Marks(RParen, cursor) \in Nat
          /\ Marks(RParen, cursor + 1) = Marks(RParen, cursor) + 1
          /\ Marks(LParen, cursor + 1) = Marks(LParen, cursor)
      <4>1. cursor \in Nat
        BY <1>1, AtReady
      <4>2. RParen # LParen
        BY MarksDiffer
      <4> QED
        BY <1>1, <4>1, <4>2, MarksNext
    <3>3. cursor + 1 \in DOMAIN tokens
      BY <1>1, AtReady, TokensKnown
    <3> QED
      BY <3>1, <3>2, <3>3 DEF Balanced
  <2>2. CASE stack # <<>>
    <3>1. QuoteOnTop
      BY <1>1, <2>2, AtReady DEF QuoteOnTop
    <3>2. cursor \in DOMAIN tokens /\ tokens[cursor].kind = QuoteMark
      BY <1>1, <3>1, AtReady, TokensKnown DEF Nested
    <3> QED
      BY <1>1, <3>2 DEF Balanced
  <2> QED
    BY <2>1, <2>2
<1>3. ~Balanced'
  BY <1>1, <1>2 DEF Balanced, Marks
<1>4. ParseTypes'
  BY <1>1, AtReady DEF ParseInv, ParseTypes, IsStack, Frames
<1> QED
  BY <1>1, <1>3, <1>4 DEF ParseInv, BalancedIsParsed

LEMMA ListClosed ==
  ASSUME LexInv, ParseInv, ParseClose, UNCHANGED lexVars
  PROVE  ParseInv'
<1>1. AtToken({RParen}) /\ Ready /\ cursor < Len(tokens) /\ Upcoming.kind = RParen
  BY DEF ParseClose, AtToken
<1>2. CASE ~(stack # <<>> /\ IsList(Last(stack)))
  BY <1>1, <1>2, TokenRefused DEF ParseClose
<1>3. CASE stack # <<>> /\ IsList(Last(stack))
  <2>1. /\ cursor' = cursor + 1 /\ returned' = [Last(stack) EXCEPT !.end = Upcoming.end]
        /\ stack' = Front(stack) /\ UNCHANGED <<parsed, tokens, lexed>>
    BY <1>3 DEF ParseClose, Advance, Return, lexVars
  <2>2. /\ IsStack(stack') /\ OpenLists(stack') \in Nat
        /\ OpenLists(stack) = OpenLists(stack') + 1
    BY <1>1, <1>3, <2>1, AtReady, Popped
  <2>3. returned' # NoExpr
    <3>1. PICK K : Last(stack) \in Frames(K)
      BY <1>1, <1>3, AtReady, TopFrame
    <3>2. returned'.start \in Nat /\ returned'.start >= 1
      BY <2>1, <3>1 DEF Frames
    <3> QED
      BY <3>2, ExprsStart
  <2>4. ~QuoteOnTop /\ ~QuoteOnTop'
    BY <1>3, <2>3 DEF QuoteOnTop, NoExpr, Token, ListOf
  <2>5. Upcoming.kind # QuoteMark /\ Upcoming.kind # LParen
    BY <1>1, MarksDiffer
  <2>6. OpenLists(stack) \in Nat /\ OpenLists(stack) > 0
    BY <2>2
  <2>7. Nested'
    BY <1>1, <2>1, <2>2, <2>4, <2>5, <2>6, AtReady, Taken
  <2> QED
    BY <1>1, <2>1, <2>2, <2>7, AtReady, NoVerdict
<1> QED
  BY <1>2, <1>3

LEMMA ExprReturned ==
  ASSUME LexInv, ParseInv, ReturnToList \/ ReturnToQuote \/ ReturnToProgram, UNCHANGED lexVars
  PROVE  ParseInv'
<1>1. returned # NoExpr /\ UNCHANGED <<cursor, parsed, tokens, lexed>>
  BY DEF ReturnToList, ReturnToQuote, ReturnToProgram, lexVars
<1>2. /\ parsed = "parsing" /\ Nested /\ lexed = "ok" /\ ~QuoteOnTop
      /\ IsStack(stack) /\ cursor \in 0 .. Len(tokens)
  BY <1>1 DEF ParseInv, ParseTypes, QuoteOnTop
<1>3. IsStack(stack') /\ OpenLists(stack') = OpenLists(stack) /\ ~QuoteOnTop'
  <2>1. CASE ReturnToList
    <3>1. /\ stack # <<>> /\ IsList(Last(stack))
          /\ stack' = [stack EXCEPT ![Len(stack)].kind.list = Append(@, returned)]
      BY <2>1 DEF ReturnToList
    <3>2. IsStack(stack') /\ IsList(Last(stack')) /\ OpenLists(stack') = OpenLists(stack)
      BY <1>2, <3>1, ItemAdded
    <3> QED
      BY <3>2 DEF QuoteOnTop, IsList, Last
  <2>2. CASE ReturnToQuote
    <3>1. /\ stack # <<>> /\ ~IsList(Last(stack)) /\ stack' = Front(stack)
          /\ \E start, end : returned' = Token(QuoteOf(returned), start, end)
      BY <2>2 DEF ReturnToQuote, Return
    <3>2. returned' # NoExpr
      BY <3>1, ExprsStart
    <3>3. IsStack(stack') /\ OpenLists(stack') = OpenLists(stack)
      BY <1>2, <3>1, Popped
    <3> QED
      BY <3>2, <3>3 DEF QuoteOnTop, NoExpr, Token, ListOf
  <2>3. CASE ReturnToProgram
    <3>1. stack = <<>> /\ stack' = stack
      BY <2>3 DEF ReturnToProgram
    <3> QED
      BY <1>2, <3>1 DEF QuoteOnTop
  <2> QED
    BY <2>1, <2>2, <2>3
<1>4. Nested'
  BY <1>1, <1>2, <1>3, NoneTaken
<1> QED
  BY <1>1, <1>2, <1>3, <1>4, NoVerdict

LEMMA TokensEnded ==
  ASSUME LexInv, ParseInv, EndOfTokens, UNCHANGED lexVars
  PROVE  ParseInv'
<1>1. /\ Ready /\ cursor = Len(tokens)
      /\ parsed' = (IF stack = <<>> THEN "ok" ELSE "error")
      /\ UNCHANGED <<cursor, stack, returned, tokens, lexed>>
  BY DEF EndOfTokens, lexVars
<1>2. stack = <<>> <=> Balanced
  <2>1. /\ Marks(LParen, cursor) \in Nat /\ Marks(RParen, cursor) \in Nat
        /\ Marks(LParen, cursor) = Marks(RParen, cursor) + OpenLists(stack)
    BY <1>1, AtReady, MarksNext DEF Nested
  <2>2. DOMAIN tokens = 1 .. cursor /\ cursor \in Nat
    BY <1>1, TokensKnown
  <2>3. ASSUME stack = <<>>
        PROVE  Balanced
    <3>1. ~QuoteOnTop
      BY <2>3 DEF QuoteOnTop
    <3>2. Marks(LParen, cursor) = Marks(RParen, cursor)
      BY <2>1, <2>3, EmptyStack
    <3>3. \A k \in 1 .. cursor :
            tokens[k].kind = QuoteMark => k < cursor /\ tokens[k + 1].kind # RParen
      BY <1>1, <3>1, AtReady DEF Nested
    <3>4. \A count \in 1 .. cursor : Marks(RParen, count) <= Marks(LParen, count)
      BY <1>1, <2>2, AtReady DEF Nested
    <3> QED
      BY <1>1, <2>2, <3>2, <3>3, <3>4 DEF Balanced
  <2>4. ASSUME stack # <<>>, ~QuoteOnTop
        PROVE  ~Balanced
    <3>1. IsList(Last(stack))
      BY <1>1, <2>4, AtReady DEF QuoteOnTop
    <3>2. OpenLists(Front(stack)) \in Nat /\ OpenLists(stack) = OpenLists(Front(stack)) + 1
      BY <1>1, <2>4, <3>1, AtReady, Popped
    <3>3. Marks(LParen, cursor) # Marks(RParen, cursor)
      BY <2>1, <3>2
    <3> QED
      BY <1>1, <3>3 DEF Balanced
  <2>5. ASSUME QuoteOnTop
        PROVE  ~Balanced
    <3>1. cursor > 0 /\ tokens[cursor].kind = QuoteMark
      BY <1>1, <2>5, AtReady DEF Nested
    <3>2. cursor \in DOMAIN tokens /\ ~(cursor < Len(tokens))
      BY <1>1, <2>2, <3>1
    <3> QED
      BY <3>1, <3>2 DEF Balanced
  <2> QED
    BY <2>3, <2>4, <2>5
<1>3. Balanced' <=> Balanced
  BY <1>1 DEF Balanced, Marks
<1>4. ParseTypes'
  BY <1>1, AtReady DEF ParseInv, ParseTypes, IsStack, Frames
<1> QED
  BY <1>1, <1>2, <1>3, <1>4 DEF ParseInv, BalancedIsParsed

LEMMA LexInvStays ==
  ASSUME LexInv, UNCHANGED lexVars
  PROVE  LexInv'
<1>1. LexTypes'
  BY DEF LexInv, LexTypes, lexVars
<1>2. Told'
  <2>1. UNCHANGED <<text, index, tokens, literal>>
    BY DEF lexVars
  <2> QED
    BY <2>1, NothingTold DEF LexInv, Behind
<1>3. Opened' /\ Finished'
  BY DEF LexInv, Opened, Finished, lexVars
<1> QED
  BY <1>1, <1>2, <1>3 DEF LexInv

\* Every step of the parser keeps its invariant.
LEMMA ParseStepKeeps ==
  ASSUME LexInv, ParseInv, Parse
  PROVE  LexInv' /\ ParseInv'
<1>1. ParseStep /\ UNCHANGED lexVars /\ lexed = "ok"
  BY DEF Parse
<1>2. ParseInv'
  BY <1>1, Started, AtomParsed, FramePushed, ListClosed, ExprReturned, TokensEnded
     DEF ParseStep
<1> QED
  BY <1>1, <1>2, LexInvStays

-----------------------------------------------------------------------------
(* The specification.                                                      *)

FrontInv == LexInv /\ ParseInv

\* A parser of its own has read nothing.
LEMMA FreshParser ==
  ASSUME ParserIdle, LexInv
  PROVE  ParseInv
<1>1. cursor = 0 /\ stack = <<>> /\ returned = NoExpr /\ parsed = "idle"
  BY DEF ParserIdle
<1>2. cursor \in 0 .. Len(tokens)
  BY <1>1, TokensKnown
<1> QED
  BY <1>1, <1>2, EmptyStack DEF ParseInv, ParseTypes, BalancedIsParsed

\* While a text is lexed its parser is idle.
LEMMA LexedKeeps ==
  ASSUME FrontInv, Lex
  PROVE  FrontInv'
<1>1. LexInv'
  BY LexStepKeeps DEF FrontInv, Lex
<1>2. lexed = "reading"
  BY DEF Lex, LexStep, SkipBlank, SkipComment, LexMark, LexBoolean, LexChar, LexHashError,
         LexNumber, LexSymbolOfDigits, LexSymbol, OpenString, StringByte, StringEscape,
         CloseString, UnterminatedString, EndOfText, At, InString
<1>3. ParserIdle
  BY <1>2 DEF FrontInv, ParseInv, ParseTypes
<1>4. ParserIdle'
  BY <1>3 DEF ParserIdle, Lex, parseVars, NoExpr, Token, ListOf
<1>5. ParseInv'
  <2>1. cursor' = 0 /\ stack' = <<>> /\ returned' = NoExpr /\ parsed' = "idle"
    BY <1>4 DEF ParserIdle, NoExpr, Token, ListOf
  <2>2. Len(tokens') \in Nat
    BY <1>1, LenProperties DEF LexInv, LexTypes
  <2>3. IsStack(stack')
    BY <2>1, EmptyStack
  <2> QED
    BY <1>4, <2>1, <2>2, <2>3 DEF ParseInv, ParseTypes, BalancedIsParsed, IsStack, Frames,
       NoExpr, Token, ListOf
<1> QED
  BY <1>1, <1>5 DEF FrontInv

LEMMA Invariance == ReadSpec => []FrontInv
<1>1. ReadInit => FrontInv
  BY FreshTold, FreshParser DEF ReadInit, FrontInv
<1>2. ReadInit' => FrontInv'
  BY <1>1, PTL
<1>3. FrontInv /\ [ReadNext]_frontVars => FrontInv'
  <2> SUFFICES ASSUME FrontInv, [ReadNext]_frontVars
               PROVE  FrontInv'
    OBVIOUS
  <2>1. CASE Lex
    BY <2>1, LexedKeeps
  <2>2. CASE Parse
    BY <2>2, ParseStepKeeps DEF FrontInv
  <2>3. CASE Reread
    <3>1. (text \in Seq(Characters))' /\ LexerFresh'
      BY <2>3 DEF Reread, StartLex, LexerFresh, NoLiteral
    <3>2. ParserIdle'
      BY <2>3 DEF Reread, ParserReset, ParserIdle, NoExpr, Token, ListOf
    <3> QED
      BY <1>2, <3>1, <3>2 DEF ReadInit
  <2>4. CASE UNCHANGED frontVars
    <3>1. LexInv'
      BY <2>4, LexInvStays DEF FrontInv, frontVars
    <3>2. /\ UNCHANGED <<cursor, stack, returned, forms, parsed>>
          /\ UNCHANGED <<text, index, tokens, literal, lexed>>
      BY <2>4 DEF frontVars, lexVars, parseVars
    <3>3. ParseTypes'
      BY <3>2 DEF FrontInv, ParseInv, ParseTypes, ParserIdle, IsStack, Frames,
         NoExpr, Token, ListOf
    <3>4. Nested' <=> Nested
      BY <3>2 DEF Nested, Marks, OpenLists, IsList, QuoteOnTop
    <3>5. BalancedIsParsed' <=> BalancedIsParsed
      BY <3>2 DEF BalancedIsParsed, Balanced, Marks
    <3> QED
      BY <3>1, <3>2, <3>3, <3>4, <3>5 DEF FrontInv, ParseInv
  <2> QED
    BY <2>1, <2>2, <2>3, <2>4 DEF ReadNext
<1> QED
  BY <1>1, <1>3, PTL DEF ReadSpec

\* Reading gives well-formed tokens: each has the value of its kind, an integer fits
\* i64 and no symbol is empty, and parsing follows lexing, for any text.
THEOREM TypesKept == ReadSpec => []TypeOK
<1>1. FrontInv => TypeOK
  BY DEF FrontInv, LexInv, LexTypes, ParseInv, ParseTypes, TypeOK
<1> QED
  BY <1>1, Invariance, PTL

\* lex neither loses nor repeats a character of any text, but for blanks, comments
\* and the one literal that it takes for another.
THEOREM TextCovered == ReadSpec => []TokensCoverText
<1>1. FrontInv => TokensCoverText
  BY LexInvCovers DEF FrontInv
<1> QED
  BY <1>1, Invariance, PTL

\* parse_program accepts exactly the tokens that are balanced, however many they are
\* and however deep they nest.
THEOREM BalanceDecides == ReadSpec => []BalancedIsParsed
<1>1. FrontInv => BalancedIsParsed
  BY DEF FrontInv, ParseInv
<1> QED
  BY <1>1, Invariance, PTL

-----------------------------------------------------------------------------
(* Every step comes closer to the end.                                     *)

\* What a reading has left to do, in steps: four for a character, of which two are the
\* token's that it is the last character of.
Quoting == IF literal # NoLiteral THEN 2 ELSE 0
Lexing == IF lexed = "reading" THEN 1 ELSE 0
LexWork == 4 * (Len(text) + 1 - index) + Quoting + Lexing
Handing == IF returned # NoExpr THEN 1 ELSE 0
Stage == IF parsed = "idle" THEN 2 ELSE IF parsed = "parsing" THEN 1 ELSE 0
CallWork == Len(stack) + Handing + Stage
Work == LexWork + 2 * (Len(tokens) - cursor) + CallWork

\* A step of the lexer takes a character, gives up a literal or stops.
LEMMA LexStepTakes ==
  ASSUME LexInv, LexStep
  PROVE  /\ lexed = "reading" /\ text' = text
         /\ \/ /\ index' > index /\ lexed' = lexed
               /\ \/ tokens' = tokens
                  \/ literal' = NoLiteral /\ \E t : tokens' = Append(tokens, t)
            \/ /\ literal # NoLiteral /\ literal' = NoLiteral
               /\ UNCHANGED <<index, tokens, lexed>>
            \/ lexed' # "reading" /\ UNCHANGED <<index, tokens, literal>>
<1>1. index \in Nat /\ index \in 1 .. Len(text) + 1 /\ text \in Seq(Characters) /\ Len(text) \in Nat
  BY LenProperties DEF LexInv, LexTypes
<1>2. ASSUME NEW kind, NEW end, end > index, Emit(kind, end), lexed = "reading",
             literal = NoLiteral
      PROVE  /\ text' = text /\ index' > index /\ lexed' = lexed /\ literal' = NoLiteral
             /\ \E t : tokens' = Append(tokens, t)
  BY <1>2 DEF Emit
<1>3. CASE Fail /\ lexed = "reading"
  BY <1>3 DEF Fail
<1>4. CASE SkipBlank
  BY <1>1, <1>4 DEF SkipBlank, At, Skip
<1>5. CASE SkipComment
  <2>1. At({Semicolon}) /\ Skip(EndOf(index, {"\n"}))
    BY <1>5 DEF SkipComment
  <2>2. lexed = "reading" /\ index <= Len(text) /\ text[index] # "\n"
    BY <2>1, NoLineEnd DEF At
  <2> DEFINE end == EndOf(index, {"\n"})
  <2>3. end \in index .. Len(text) + 1 /\ (end <= Len(text) => text[end] = "\n")
    BY <1>1, EndOfStops
  <2> HIDE DEF end
  <2>4. end > index
    BY <1>1, <2>2, <2>3
  <2> QED
    BY <2>1, <2>2, <2>4 DEF Skip, end
<1>6. CASE LexMark
  <2>1. PICK mark : Emit(mark, index + 1) /\ lexed = "reading" /\ literal = NoLiteral
    BY <1>6 DEF LexMark, At
  <2> QED
    BY <1>1, <1>2, <2>1
<1>7. CASE LexBoolean
  <2>1. /\ Emit(Boolean(text[index + 1] = "t"), index + 2)
        /\ lexed = "reading" /\ literal = NoLiteral /\ index + 2 > index
    BY <1>1, <1>7 DEF LexBoolean, At
  <2> QED
    BY <1>2, <2>1
<1>8. CASE LexChar
  <2> DEFINE end == EndOf(index + 2, Delimiters)
             name == SubSeq(text, index + 2, end - 1)
  <2>1. lexed = "reading" /\ literal = NoLiteral /\ index < Len(text)
    BY <1>8 DEF LexChar, At
  <2>2. \/ \E c \in DOMAIN CharNames : Emit(Char(c), end)
        \/ Emit(Char(name[1]), end)
        \/ Fail
    BY <1>8 DEF LexChar
  <2>3. index + 2 \in 1 .. Len(text) + 1
    BY <1>1, <2>1
  <2>4. end \in index + 2 .. Len(text) + 1
    BY <1>1, <2>3, EndOfStops
  <2> HIDE DEF end, name
  <2>5. end > index
    BY <1>1, <2>4
  <2> QED
    BY <1>2, <1>3, <2>1, <2>2, <2>5
<1>9. CASE LexHashError
  BY <1>3, <1>9 DEF LexHashError, At
<1>10. CASE LexNumber
  <2> DEFINE first == IF text[index] = "-" THEN index + 1 ELSE index
             end == EndOfDigits(first)
             n == NumberOf(SubSeq(text, index, end - 1))
  <2>1. /\ lexed = "reading" /\ literal = NoLiteral /\ index <= Len(text)
        /\ end > first /\ IF n \in MinInteger .. MaxInteger THEN Emit(Integer(n), end) ELSE Fail
    BY <1>10 DEF LexNumber, At
  <2>2. first \in index .. index + 1 /\ first \in 1 .. Len(text) + 1
    BY <1>1, <2>1
  <2> HIDE DEF first
  <2>3. end \in first .. Len(text) + 1
    BY <1>1, <2>2, EndOfDigitsStops
  <2> HIDE DEF end, n
  <2>4. end > index
    BY <1>1, <2>1, <2>2, <2>3
  <2> QED
    BY <1>2, <1>3, <2>1, <2>4
<1>11. CASE LexSymbolOfDigits \/ LexSymbol
  <2> DEFINE end == EndOf(index, Delimiters)
             name == SubSeq(text, index, end - 1)
  <2>1. Emit(Symbol(name), end) /\ lexed = "reading" /\ literal = NoLiteral /\ index <= Len(text)
    BY <1>11 DEF LexSymbolOfDigits, LexSymbol, At
  <2>2. text[index] \notin Delimiters
    <3>1. LexSymbolOfDigits => text[index] \in Digits \union {"-"}
      BY DEF LexSymbolOfDigits, At
    <3> QED
      BY <1>11, <3>1, DigitsGoOn DEF LexSymbol, Delimiters
  <2>3. end \in index .. Len(text) + 1 /\ (end <= Len(text) => text[end] \in Delimiters)
    BY <1>1, EndOfStops
  <2> HIDE DEF end, name
  <2>4. end > index
    BY <1>1, <2>1, <2>2, <2>3
  <2> QED
    BY <1>2, <2>1, <2>4
<1>12. CASE OpenString
  BY <1>1, <1>12 DEF OpenString, At
<1>13. CASE StringByte
  BY <1>1, <1>13 DEF StringByte, InString, Add
<1>14. CASE StringEscape
  <2>1. lexed = "reading"
    BY <1>14 DEF StringEscape, InString
  <2>2. CASE Fail
    BY <1>3, <2>1, <2>2
  <2>3. CASE \E c : Add(c, index + 2)
    BY <1>1, <2>1, <2>3 DEF Add
  <2> QED
    BY <1>14, <2>2, <2>3 DEF StringEscape
<1>15. CASE CloseString
  BY <1>1, <1>15 DEF CloseString, InString
<1>16. CASE UnterminatedString
  BY <1>3, <1>16 DEF UnterminatedString, InString
<1>17. CASE EndOfText
  BY <1>17 DEF EndOfText
<1> QED
  BY <1>4, <1>5, <1>6, <1>7, <1>8, <1>9, <1>10, <1>11, <1>12, <1>13, <1>14, <1>15, <1>16, <1>17
     DEF LexStep

LEMMA StackLengths ==
  ASSUME NEW s, IsStack(s)
  PROVE  /\ Len(s) \in Nat
         /\ \A f : Len(Append(s, f)) = Len(s) + 1
         /\ s # <<>> => Len(s) >= 1 /\ Len(Front(s)) = Len(s) - 1
         /\ \A e : s # <<>> => Len([s EXCEPT ![Len(s)].kind.list = Append(@, e)]) = Len(s)
<1> DEFINE n == Len(s)
<1>1. PICK K : s \in Seq(Frames(K))
  BY DEF IsStack
<1>2. n \in Nat /\ DOMAIN s = 1 .. n /\ \A i \in 1 .. n : s[i] \in Frames(K)
  BY <1>1, LenProperties, ElementOfSeq
<1>3. \A f : Len(Append(s, f)) = n + 1
  <2> TAKE f
  <2> DEFINE S == Frames(K) \union {f}
  <2>1. s \in Seq(S) /\ f \in S
    BY <1>1, SeqMonotonic
  <2> QED
    BY <2>1, AppendProperties
<1>4. s # <<>> => n >= 1
  BY <1>1, <1>2, EmptySeq
<1>5. ASSUME s # <<>>
      PROVE  Len(Front(s)) = n - 1
  <2>1. Front(s) = SubSeq(s, 1, n - 1)
    BY DEF Front
  <2>2. n >= 1 /\ n - 1 \in Int /\ 1 \in Int /\ \A i \in 1 .. n - 1 : s[i] \in Frames(K)
    BY <1>2, <1>4, <1>5
  <2> HIDE DEF n
  <2>3. Len(Front(s)) = IF 1 <= n - 1 THEN (n - 1) - 1 + 1 ELSE 0
    BY <2>1, <2>2, SubSeqProperties
  <2> QED
    BY <1>2, <2>2, <2>3
<1>6. ASSUME NEW e, s # <<>>
      PROVE  Len([s EXCEPT ![n].kind.list = Append(@, e)]) = n
  <2> DEFINE f == [s[n] EXCEPT !.kind.list = Append(@, e)]
             S == Frames(K) \union {f}
  <2>1. [s EXCEPT ![n].kind.list = Append(@, e)] = [s EXCEPT ![n] = f]
    OBVIOUS
  <2>2. s \in Seq(S) /\ f \in S /\ n \in 1 .. n
    BY <1>1, <1>2, <1>4, <1>6, SeqMonotonic
  <2> HIDE DEF f, S
  <2> QED
    BY <2>1, <2>2, ExceptSeq
<1> QED
  BY <1>2, <1>3, <1>4, <1>5, <1>6

LEMMA Stages ==
  /\ Quoting \in 0 .. 2 /\ (literal = NoLiteral => Quoting = 0) /\ (literal # NoLiteral => Quoting = 2)
  /\ Lexing \in 0 .. 1 /\ (lexed = "reading" => Lexing = 1) /\ (lexed # "reading" => Lexing = 0)
  /\ Handing \in 0 .. 1 /\ (returned = NoExpr => Handing = 0) /\ (returned # NoExpr => Handing = 1)
  /\ Stage \in 0 .. 2 /\ (parsed = "idle" => Stage = 2) /\ (parsed = "parsing" => Stage = 1)
  /\ parsed \in {"ok", "error"} => Stage = 0
BY DEF Quoting, Lexing, Handing, Stage

\* What is left to do is never less than nothing.
LEMMA WorkIsNatural ==
  ASSUME FrontInv
  PROVE  /\ Work \in Nat /\ LexWork \in Nat /\ CallWork \in Nat
         /\ index \in Nat /\ cursor \in Nat /\ Len(text) \in Nat /\ Len(tokens) \in Nat
         /\ Len(stack) \in Nat /\ index <= Len(text) + 1 /\ cursor <= Len(tokens)
<1>1. index \in 1 .. Len(text) + 1 /\ Len(text) \in Nat
  BY LenProperties DEF FrontInv, LexInv, LexTypes
<1>2. cursor \in 0 .. Len(tokens) /\ Len(tokens) \in Nat
  BY TokensKnown DEF FrontInv, ParseInv, ParseTypes
<1>3. Len(stack) \in Nat
  BY StackLengths DEF FrontInv, ParseInv, ParseTypes
<1>4. LexWork \in Nat
  BY <1>1, Stages DEF LexWork
<1>5. CallWork \in Nat
  BY <1>3, Stages DEF CallWork
<1>6. Work \in Nat
  BY <1>2, <1>4, <1>5 DEF Work
<1> QED
  BY <1>1, <1>2, <1>3, <1>4, <1>5, <1>6

\* A character that is taken outweighs what a literal adds.
LEMMA LexWorkLess ==
  ASSUME NEW n \in Nat, NEW i \in Nat, NEW j \in Nat, j > i,
         NEW q \in 0 .. 2, NEW r \in 0 .. 2
  PROVE  /\ 4 * (n + 1 - j) + r + 1 + 1 <= 4 * (n + 1 - i) + q + 1
         /\ 4 * (n + 1 - j) + 0 + 1 + 3 <= 4 * (n + 1 - i) + q + 1
OBVIOUS

\* A token costs two, and the step that makes it three.
LEMMA WorkLess ==
  ASSUME NEW a \in Nat, NEW b \in Nat, NEW n \in Nat, NEW m \in Nat, NEW c \in Nat, NEW w \in Nat,
         (b + 1 <= a /\ m = n) \/ (b + 3 <= a /\ m = n + 1)
  PROVE  b + 2 * (m - c) + w < a + 2 * (n - c) + w
OBVIOUS

\* A token that the parser takes pays for a frame, or for an expression handed on.
LEMMA WorkLessByCall ==
  ASSUME NEW a \in Nat, NEW n \in Nat, NEW c \in Nat, NEW d \in Nat, NEW v \in Nat, NEW w \in Nat,
         (d = c /\ w + 1 <= v) \/ (d = c + 1 /\ w <= v + 1)
  PROVE  a + 2 * (n - d) + w < a + 2 * (n - c) + v
OBVIOUS

LEMMA LexShrinks ==
  ASSUME FrontInv, Lex
  PROVE  Work' < Work /\ text' = text
<1>1. /\ lexed = "reading" /\ text' = text
      /\ \/ /\ index' > index /\ lexed' = lexed
            /\ \/ tokens' = tokens
               \/ literal' = NoLiteral /\ \E t : tokens' = Append(tokens, t)
         \/ literal # NoLiteral /\ literal' = NoLiteral /\ UNCHANGED <<index, tokens, lexed>>
         \/ lexed' # "reading" /\ UNCHANGED <<index, tokens, literal>>
  BY LexStepTakes DEF FrontInv, Lex
<1>2. UNCHANGED <<cursor, stack, returned, parsed>>
  BY DEF Lex, parseVars
<1>3. FrontInv'
  BY LexedKeeps
<1>4. /\ index \in Nat /\ cursor \in Nat /\ Len(text) \in Nat /\ Len(tokens) \in Nat
      /\ LexWork \in Nat /\ CallWork \in Nat
  BY WorkIsNatural
<1>5. index' \in Nat /\ LexWork' \in Nat
  <2>1. (LexTypes /\ Len(text) \in Nat)'
    BY <1>1, <1>3, <1>4 DEF FrontInv, LexInv
  <2> QED
    BY <2>1 DEF LexTypes, LexWork, Quoting, Lexing
<1>6. \A t : Len(Append(tokens, t)) = Len(tokens) + 1
  <2> TAKE t
  <2>1. tokens \in Seq(Tokens \union {t})
    BY SeqMonotonic DEF FrontInv, LexInv, LexTypes
  <2> QED
    BY <2>1, AppendProperties
<1>7. CallWork' = CallWork
  BY <1>2 DEF CallWork, Handing, Stage, NoExpr, Token, ListOf
<1>8. Len(text') = Len(text) /\ NoLiteral' = NoLiteral
  BY <1>1 DEF NoLiteral
<1>9. /\ LexWork = 4 * (Len(text) + 1 - index) + Quoting + Lexing
      /\ LexWork' = 4 * (Len(text) + 1 - index') + Quoting' + Lexing'
      /\ Quoting \in 0 .. 2 /\ (literal # NoLiteral => Quoting = 2) /\ Lexing = 1
      /\ Quoting' \in 0 .. 2 /\ (literal' = NoLiteral => Quoting' = 0)
      /\ Lexing' \in 0 .. 1 /\ (lexed' # "reading" => Lexing' = 0)
  <2>1. /\ Quoting' \in 0 .. 2 /\ (literal' = NoLiteral => Quoting' = 0)
        /\ Lexing' \in 0 .. 1 /\ (lexed' # "reading" => Lexing' = 0)
    BY <1>8 DEF Quoting, Lexing
  <2> QED
    BY <1>1, <1>8, <2>1, Stages DEF LexWork
<1>10. \/ LexWork' + 1 <= LexWork /\ Len(tokens') = Len(tokens)
       \/ LexWork' + 3 <= LexWork /\ Len(tokens') = Len(tokens) + 1
  <2>1. CASE index' > index /\ tokens' = tokens
    <3>1. LexWork' + 1 <= LexWork
      <4>1. Lexing' = 1
        BY <1>1, <1>4, <1>5, <2>1 DEF Lexing
      <4>2. 4 * (Len(text) + 1 - index') + Quoting' + 1 + 1 <= 4 * (Len(text) + 1 - index) + Quoting + 1
        BY <1>4, <1>5, <1>9, <2>1, LexWorkLess
      <4>3. /\ LexWork = 4 * (Len(text) + 1 - index) + Quoting + 1
            /\ LexWork' = 4 * (Len(text) + 1 - index') + Quoting' + 1
        BY <1>9, <4>1
      <4> QED
        BY <4>2, <4>3, <1>4, <1>5
    <3> QED
      BY <2>1, <3>1
  <2>2. CASE index' > index /\ literal' = NoLiteral /\ \E t : tokens' = Append(tokens, t)
    <3>1. LexWork' + 3 <= LexWork
      <4>1. Lexing' = 1
        BY <1>1, <1>4, <1>5, <2>2 DEF Lexing
      <4>2. 4 * (Len(text) + 1 - index') + 0 + 1 + 3 <= 4 * (Len(text) + 1 - index) + Quoting + 1
        BY <1>4, <1>5, <1>9, <2>2, LexWorkLess
      <4>3. /\ LexWork = 4 * (Len(text) + 1 - index) + Quoting + 1
            /\ LexWork' = 4 * (Len(text) + 1 - index') + 0 + 1
        BY <1>9, <2>2, <4>1
      <4> QED
        BY <4>2, <4>3, <1>4, <1>5
    <3> QED
      BY <1>6, <2>2, <3>1
  <2>3. CASE literal # NoLiteral /\ literal' = NoLiteral /\ UNCHANGED <<index, tokens, lexed>>
    <3>1. LexWork' + 1 <= LexWork
      BY <1>4, <1>9, <2>3
    <3> QED
      BY <2>3, <3>1
  <2>4. CASE lexed' # "reading" /\ UNCHANGED <<index, tokens, literal>>
    <3>1. Quoting' = Quoting
      BY <1>8, <2>4 DEF Quoting
    <3>2. LexWork' + 1 <= LexWork
      BY <1>4, <1>9, <2>4, <3>1
    <3> QED
      BY <2>4, <3>2
  <2> QED
    BY <1>1, <2>1, <2>2, <2>3, <2>4
<1>11. /\ Work = LexWork + 2 * (Len(tokens) - cursor) + CallWork
       /\ Work' = LexWork' + 2 * (Len(tokens') - cursor) + CallWork
  BY <1>2, <1>7 DEF Work
<1>12. Work' < Work
  <2>1. Len(tokens') \in Nat
    BY <1>4, <1>10
  <2>2. LexWork' + 2 * (Len(tokens') - cursor) + CallWork < LexWork + 2 * (Len(tokens) - cursor) + CallWork
    BY <1>4, <1>5, <1>10, <2>1, WorkLess
  <2> QED
    BY <1>11, <2>2
<1> QED
  BY <1>1, <1>12

LEMMA ParseShrinks ==
  ASSUME FrontInv, Parse
  PROVE  Work' < Work /\ text' = text
<1>1. /\ UNCHANGED <<text, index, tokens, literal, lexed>> /\ ParseStep
      /\ IsStack(stack) /\ (parsed = "idle" => ParserIdle) /\ (returned # NoExpr => parsed = "parsing")
  BY DEF Parse, lexVars, FrontInv, ParseInv, ParseTypes
<1>2. /\ cursor \in Nat /\ Len(tokens) \in Nat /\ Len(stack) \in Nat
      /\ LexWork \in Nat /\ CallWork \in Nat
  BY WorkIsNatural
<1>3. LexWork' = LexWork /\ Work' = LexWork + 2 * (Len(tokens) - cursor') + CallWork'
  BY <1>1 DEF LexWork, Quoting, Lexing, Work, NoLiteral
<1>4. /\ CallWork = Len(stack) + Handing + Stage
      /\ CallWork' = Len(stack') + Handing' + Stage'
      /\ Handing \in 0 .. 1 /\ (returned = NoExpr => Handing = 0)
      /\ (returned # NoExpr => Handing = 1)
      /\ (parsed = "idle" => Stage = 2) /\ (parsed = "parsing" => Stage = 1)
      /\ Handing' \in 0 .. 1 /\ (returned' = NoExpr => Handing' = 0)
      /\ (returned' # NoExpr => Handing' = 1)
      /\ (parsed' = "parsing" => Stage' = 1) /\ (parsed' \in {"ok", "error"} => Stage' = 0)
  <2>1. NoExpr' = NoExpr
    BY DEF NoExpr, Token, ListOf
  <2>2. /\ Handing' \in 0 .. 1 /\ (returned' = NoExpr => Handing' = 0)
        /\ (returned' # NoExpr => Handing' = 1)
    BY <2>1 DEF Handing
  <2>3. (parsed' = "parsing" => Stage' = 1) /\ (parsed' \in {"ok", "error"} => Stage' = 0)
    BY DEF Stage
  <2> QED
    BY <2>2, <2>3, Stages DEF CallWork
<1>5. ASSUME cursor' \in Nat, CallWork' \in Nat,
             \/ cursor' = cursor /\ CallWork' + 1 <= CallWork
             \/ cursor' = cursor + 1 /\ CallWork' <= CallWork + 1
      PROVE  Work' < Work /\ text' = text
  <2>1. Work = LexWork + 2 * (Len(tokens) - cursor) + CallWork
    BY DEF Work
  <2>2. /\ CallWork \in Nat
        /\ \/ cursor' = cursor /\ CallWork' + 1 <= CallWork
           \/ cursor' = cursor + 1 /\ CallWork' <= CallWork + 1
    BY <1>5, WorkIsNatural
  <2>3. LexWork + 2 * (Len(tokens) - cursor') + CallWork' < LexWork + 2 * (Len(tokens) - cursor) + CallWork
    BY <1>2, <1>5, <2>2, WorkLessByCall
  <2>4. Work' < Work
    BY <1>3, <2>1, <2>3
  <2> QED
    BY <1>1, <2>4
<1>6. CASE StartParse
  <2>1. parsed = "idle" /\ parsed' \in {"error", "parsing"} /\ UNCHANGED <<cursor, stack, returned>>
    BY <1>6 DEF StartParse
  <2>2. Stage = 2 /\ (Stage' = 1 \/ Stage' = 0) /\ Handing' = Handing
    BY <1>1, <1>4, <2>1 DEF ParserIdle
  <2>3. CallWork' \in Nat /\ CallWork' + 1 <= CallWork
    BY <1>2, <1>4, <2>1, <2>2
  <2> QED
    BY <1>2, <1>5, <2>1, <2>3
<1>7. CASE ParseAtom
  <2>1. /\ parsed = "parsing" /\ returned = NoExpr /\ cursor' = cursor + 1
        /\ UNCHANGED <<stack, parsed>>
    BY <1>7 DEF ParseAtom, Ready, Advance
  <2>2. CallWork' \in Nat /\ CallWork' <= CallWork + 1
    BY <1>2, <1>4, <2>1
  <2> QED
    BY <1>2, <1>5, <2>1, <2>2
<1>8. CASE ParseQuote \/ ParseOpen
  <2>1. /\ parsed = "parsing" /\ returned = NoExpr /\ cursor' = cursor + 1
        /\ UNCHANGED <<returned, parsed>> /\ \E f : stack' = Append(stack, f)
    BY <1>8 DEF ParseQuote, ParseOpen, AtToken, Ready, Advance
  <2>2. Len(stack') = Len(stack) + 1
    BY <1>1, <2>1, StackLengths
  <2>3. CallWork' \in Nat /\ CallWork' <= CallWork + 1
    BY <1>2, <1>4, <2>1, <2>2
  <2> QED
    BY <1>2, <1>5, <2>1, <2>3
<1>9. CASE ParseClose
  <2>1. parsed = "parsing" /\ returned = NoExpr
    BY <1>9 DEF ParseClose, AtToken, Ready
  <2>2. CASE Refuse
    <3>1. parsed' = "error" /\ UNCHANGED <<cursor, stack, returned>>
      BY <2>2 DEF Refuse
    <3>2. CallWork' \in Nat /\ CallWork' + 1 <= CallWork
      BY <1>2, <1>4, <2>1, <3>1
    <3> QED
      BY <1>2, <1>5, <3>1, <3>2
  <2>3. CASE stack # <<>> /\ cursor' = cursor + 1 /\ stack' = Front(stack) /\ parsed' = parsed
    <3>1. Len(stack) >= 1 /\ Len(stack') = Len(stack) - 1
      BY <1>1, <2>3, StackLengths
    <3>2. CallWork' \in Nat /\ CallWork' <= CallWork + 1
      BY <1>2, <1>4, <2>1, <2>3, <3>1
    <3> QED
      BY <1>2, <1>5, <2>3, <3>2
  <2> QED
    BY <1>9, <2>2, <2>3 DEF ParseClose, Advance
<1>10. CASE ReturnToList
  <2>1. /\ returned # NoExpr /\ stack # <<>> /\ returned' = NoExpr /\ UNCHANGED <<cursor, parsed>>
        /\ stack' = [stack EXCEPT ![Len(stack)].kind.list = Append(@, returned)]
    BY <1>10 DEF ReturnToList, Return
  <2>2. Len(stack') = Len(stack)
    BY <1>1, <2>1, StackLengths
  <2>3. Handing = 1 /\ Handing' = 0 /\ Stage = 1 /\ Stage' = 1
    BY <1>1, <1>4, <2>1
  <2>4. CallWork' \in Nat /\ CallWork' + 1 <= CallWork
    BY <1>2, <1>4, <2>2, <2>3
  <2> QED
    BY <1>2, <1>5, <2>1, <2>4
<1>11. CASE ReturnToQuote
  <2>1. /\ returned # NoExpr /\ stack # <<>> /\ stack' = Front(stack)
        /\ UNCHANGED <<cursor, parsed>>
    BY <1>11 DEF ReturnToQuote
  <2>2. Len(stack) >= 1 /\ Len(stack') = Len(stack) - 1
    BY <1>1, <2>1, StackLengths
  <2>3. Handing = 1 /\ Handing' \in 0 .. 1 /\ Stage = 1 /\ Stage' = 1
    BY <1>1, <1>4, <2>1
  <2>4. CallWork' \in Nat /\ CallWork' + 1 <= CallWork
    BY <1>2, <1>4, <2>2, <2>3
  <2> QED
    BY <1>2, <1>5, <2>1, <2>4
<1>12. CASE ReturnToProgram
  <2>1. returned # NoExpr /\ returned' = NoExpr /\ UNCHANGED <<cursor, stack, parsed>>
    BY <1>12 DEF ReturnToProgram, Return
  <2>2. Handing = 1 /\ Handing' = 0 /\ Stage = 1 /\ Stage' = 1 /\ Len(stack') = Len(stack)
    BY <1>1, <1>4, <2>1
  <2>3. CallWork' \in Nat /\ CallWork' + 1 <= CallWork
    BY <1>2, <1>4, <2>2
  <2> QED
    BY <1>2, <1>5, <2>1, <2>3
<1>13. CASE EndOfTokens
  <2>1. parsed = "parsing" /\ parsed' \in {"ok", "error"} /\ UNCHANGED <<cursor, stack, returned>>
    BY <1>13 DEF EndOfTokens, Ready
  <2>2. CallWork' \in Nat /\ CallWork' + 1 <= CallWork
    BY <1>2, <1>4, <2>1
  <2> QED
    BY <1>2, <1>5, <2>1, <2>2
<1> QED
  BY <1>1, <1>6, <1>7, <1>8, <1>9, <1>10, <1>11, <1>12, <1>13 DEF ParseStep

WorkBounded == Work <= 4 * Len(text) + 3

\* A reading makes less than four steps for each character of its text, and a few more: no
\* round of lex's loops and no call of the parser leaves what is still to do as it was.
THEOREM ReadingShrinks ==
  ReadSpec => [](Work \in 0 .. 4 * Len(text) + 3) /\ [][Lex \/ Parse => Work' < Work]_frontVars
<1>1. ASSUME text \in Seq(Characters), LexerFresh, ParserIdle
      PROVE  WorkBounded
  <2>1. Len(text) \in Nat
    BY <1>1, LenProperties
  <2>2. Len(<<>>) = 0
    OBVIOUS
  <2>3. LexWork = 4 * (Len(text) + 1 - 1) + 0 + 1
    BY <1>1, Stages DEF LexWork, LexerFresh
  <2>4. CallWork = 0 + 0 + 2
    BY <1>1, <2>2, Stages DEF CallWork, ParserIdle
  <2>5. Len(tokens) - cursor = 0
    BY <1>1, <2>2 DEF LexerFresh, ParserIdle
  <2> QED
    BY <2>1, <2>3, <2>4, <2>5 DEF Work, WorkBounded
<1>2. ReadInit => WorkBounded
  BY <1>1 DEF ReadInit
<1>3. ASSUME (text \in Seq(Characters) /\ LexerFresh /\ ParserIdle)'
      PROVE  WorkBounded'
  BY <1>1, <1>3, PTL
<1>4. FrontInv /\ (Lex \/ Parse) => Work' < Work /\ text' = text
  BY LexShrinks, ParseShrinks
<1>5. FrontInv /\ FrontInv' /\ WorkBounded /\ [ReadNext]_frontVars => WorkBounded'
  <2> SUFFICES ASSUME FrontInv, FrontInv', WorkBounded, [ReadNext]_frontVars
               PROVE  WorkBounded'
    OBVIOUS
  <2>1. Work \in Nat /\ Len(text) \in Nat /\ (Work \in Nat)'
    <3>1. (FrontInv => Work \in Nat)'
      BY WorkIsNatural, PTL
    <3> QED
      BY <3>1, WorkIsNatural
  <2>2. CASE Lex \/ Parse
    BY <1>4, <2>1, <2>2 DEF WorkBounded
  <2>3. CASE Reread
    <3>1. (text \in Seq(Characters))' /\ LexerFresh'
      BY <2>3 DEF Reread, StartLex, LexerFresh, NoLiteral
    <3>2. ParserIdle'
      BY <2>3 DEF Reread, ParserReset, ParserIdle, NoExpr, Token, ListOf
    <3> QED
      BY <1>3, <3>1, <3>2
  <2>4. CASE UNCHANGED frontVars
    <3>1. /\ UNCHANGED <<cursor, stack, returned, parsed>>
          /\ UNCHANGED <<text, index, tokens, literal, lexed>>
      BY <2>4 DEF frontVars, lexVars, parseVars
    <3>2. LexWork' = LexWork /\ CallWork' = CallWork
      BY <3>1 DEF LexWork, CallWork, Quoting, Lexing, Handing, Stage, NoLiteral, NoExpr, Token, ListOf
    <3> QED
      BY <3>1, <3>2 DEF WorkBounded, Work
  <2> QED
    BY <2>2, <2>3, <2>4 DEF ReadNext
<1>6. FrontInv /\ WorkBounded => Work \in 0 .. 4 * Len(text) + 3
  BY WorkIsNatural DEF WorkBounded
<1>7. FrontInv /\ [ReadNext]_frontVars => [Lex \/ Parse => Work' < Work]_frontVars
  BY <1>4
<1> QED
  BY <1>2, <1>5, <1>6, <1>7, Invariance, PTL DEF ReadSpec

=============================================================================
