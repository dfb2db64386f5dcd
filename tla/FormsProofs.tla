---------------------------- MODULE FormsProofs ----------------------------
(***************************************************************************)
(* The forms that parse_program returns are its tokens, for texts of any   *)
(* length and lists and quotes of any depth.                               *)
(***************************************************************************)
EXTENDS FrontEndProofs

-----------------------------------------------------------------------------
(* Marks.                                                                  *)

MarksAreShort ==
  \A k \in 1 .. Len(tokens) :
    "mark" \in DOMAIN tokens[k].kind => tokens[k].end = tokens[k].start + 1

\* No kind of token has parts, and no other kind than a mark's is a mark.
LEMMA KindsOfParts ==
  /\ \A kind \in Kinds : "list" \notin DOMAIN kind /\ "quote" \notin DOMAIN kind
  /\ \A v : /\ "mark" \notin DOMAIN Integer(v) /\ "mark" \notin DOMAIN Boolean(v)
            /\ "mark" \notin DOMAIN Char(v) /\ "mark" \notin DOMAIN String(v)
            /\ "mark" \notin DOMAIN Symbol(v)
<1>1. \A kind \in Kinds : "list" \notin DOMAIN kind /\ "quote" \notin DOMAIN kind
  BY DEF Kinds
<1>2. \A v : /\ "mark" \notin DOMAIN Integer(v) /\ "mark" \notin DOMAIN Boolean(v)
             /\ "mark" \notin DOMAIN Char(v) /\ "mark" \notin DOMAIN String(v)
             /\ "mark" \notin DOMAIN Symbol(v)
  BY DEF Integer, Boolean, Char, String, Symbol
<1> QED
  BY <1>1, <1>2

LEMMA MarkAppended ==
  ASSUME tokens \in Seq(Tokens), MarksAreShort, NEW kind, NEW start, NEW end,
         tokens' = Append(tokens, Token(kind, start, end)),
         "mark" \in DOMAIN kind => end = start + 1
  PROVE  MarksAreShort'
<1> DEFINE n == Len(tokens)
           new == Token(kind, start, end)
<1>1. /\ n \in Nat /\ Len(tokens') = n + 1
      /\ \A k \in 1 .. n : tokens'[k] = tokens[k]
      /\ tokens'[n + 1] = new
  BY AppendProperties, LenProperties
<1>2. new.kind = kind /\ new.start = start /\ new.end = end
  BY DEF Token
<1> HIDE DEF n, new
<1>3. \A k \in 1 .. n + 1 : k \in 1 .. n \/ k = n + 1
  BY <1>1
<1>4. \A k \in 1 .. n : "mark" \in DOMAIN tokens[k].kind => tokens[k].end = tokens[k].start + 1
  BY DEF MarksAreShort, n
<1>5. \A k \in 1 .. n + 1 :
        "mark" \in DOMAIN tokens'[k].kind => tokens'[k].end = tokens'[k].start + 1
  BY <1>1, <1>2, <1>3, <1>4
<1> QED
  BY <1>1, <1>5 DEF MarksAreShort

\* A mark is one character.
LEMMA MarksStayShort ==
  ASSUME LexTypes, MarksAreShort, LexStep
  PROVE  MarksAreShort'
<1>1. tokens \in Seq(Tokens)
  BY DEF LexTypes
<1>2. ASSUME UNCHANGED tokens
      PROVE  MarksAreShort'
  BY <1>2 DEF MarksAreShort
<1>3. ASSUME NEW kind, NEW end, Emit(kind, end), "mark" \in DOMAIN kind => end = index + 1
      PROVE  MarksAreShort'
  BY <1>1, <1>3, MarkAppended DEF Emit
<1>4. CASE LexMark
  BY <1>3, <1>4 DEF LexMark
<1>5. CASE LexBoolean
  BY <1>3, <1>5, KindsOfParts DEF LexBoolean
<1>6. CASE LexChar
  BY <1>2, <1>3, <1>6, KindsOfParts DEF LexChar, Fail
<1>7. CASE LexNumber
  BY <1>2, <1>3, <1>7, KindsOfParts DEF LexNumber, Fail
<1>8. CASE LexSymbolOfDigits \/ LexSymbol
  BY <1>3, <1>8, KindsOfParts DEF LexSymbolOfDigits, LexSymbol
<1>9. CASE CloseString
  BY <1>1, <1>9, MarkAppended, KindsOfParts DEF CloseString
<1>10. CASE \/ SkipBlank \/ SkipComment \/ LexHashError \/ OpenString \/ StringByte
            \/ StringEscape \/ UnterminatedString \/ EndOfText
  BY <1>2, <1>10 DEF SkipBlank, SkipComment, LexHashError, OpenString, StringByte,
     StringEscape, UnterminatedString, EndOfText, Skip, Fail, Add
<1> QED
  BY <1>4, <1>5, <1>6, <1>7, <1>8, <1>9, <1>10 DEF LexStep

-----------------------------------------------------------------------------
(* Rows of expressions.                                                    *)

\* One after another, the expressions es are the tokens after the first j, up to k.
Row(es, j, k) ==
  \/ es = <<>> /\ j = k
  \/ /\ es # <<>> /\ j < k /\ InARow(es)
     /\ es[1].start = tokens[j + 1].start /\ Last(es).end = tokens[k].end

\* A token starts before any later one ends.
LEMMA TokensInOrder ==
  ASSUME LexInv, NEW j \in 1 .. Len(tokens)
  PROVE  \A k \in j .. Len(tokens) : tokens[j].start < tokens[k].end
<1> DEFINE bad == {k \in j .. Len(tokens) : ~(tokens[j].start < tokens[k].end)}
           m == Min(bad)
<1>1. Len(tokens) \in Nat /\ DOMAIN tokens = 1 .. Len(tokens)
  BY TokensKnown
<1>2. \A k \in 1 .. Len(tokens) : tokens[k].start \in Nat /\ tokens[k].end \in Nat
  BY TokensKnown
<1>3. \A k \in 1 .. Len(tokens) :
        /\ tokens[k].start < tokens[k].end
        /\ k > 1 => tokens[k - 1].end <= tokens[k].start
  BY <1>1 DEF LexInv, Told, InOrder
<1>4. ASSUME bad # {}
      PROVE  FALSE
  <2>1. bad \subseteq Nat
    BY <1>1
  <2> HIDE DEF m
  <2>2. m \in bad /\ \A k \in bad : m <= k
    BY <1>4, <2>1, MinOf DEF m
  <2> HIDE DEF bad
  <2>3. m \in j .. Len(tokens) /\ ~(tokens[j].start < tokens[m].end)
    BY <2>2 DEF bad
  <2>4. m # j
    BY <1>3, <2>3
  <2>5. m - 1 \in j .. Len(tokens) /\ m - 1 < m /\ m > 1 /\ m \in 1 .. Len(tokens)
    BY <1>1, <2>3, <2>4
  <2>6. m - 1 \notin bad
    BY <2>2, <2>5
  <2>7. tokens[j].start < tokens[m - 1].end
    BY <2>5, <2>6 DEF bad
  <2>8. tokens[m - 1].end <= tokens[m].start /\ tokens[m].start < tokens[m].end
    BY <1>3, <2>5
  <2>9. m - 1 \in 1 .. Len(tokens)
    BY <1>1, <2>5
  <2> QED
    BY <1>2, <2>3, <2>5, <2>7, <2>8, <2>9
<1> QED
  BY <1>4

\* One expression is a row.
LEMMA RowOfOne ==
  ASSUME NEW e, NEW j \in Nat, NEW k \in Nat, j < k,
         e.start = tokens[j + 1].start, e.end = tokens[k].end
  PROVE  Row(<<e>>, j, k)
<1>1. <<e>> # <<>> /\ Len(<<e>>) = 1 /\ <<e>>[1] = e /\ Last(<<e>>) = e
  BY DEF Last
<1>2. InARow(<<e>>)
  BY <1>1 DEF InARow
<1> QED
  BY <1>1, <1>2 DEF Row

LEMMA OneInRow ==
  ASSUME NEW e, NEW j, NEW k, Row(<<e>>, j, k)
  PROVE  j < k /\ e.start = tokens[j + 1].start /\ e.end = tokens[k].end
<1>1. <<e>> # <<>> /\ <<e>>[1] = e /\ Last(<<e>>) = e
  BY DEF Last
<1> QED
  BY <1>1 DEF Row

\* A row goes on with an expression that starts at the next token.
LEMMA RowGoesOn ==
  ASSUME LexInv, NEW S, NEW es \in Seq(S), NEW e \in S,
         NEW j \in Nat, NEW k \in Nat, NEW l \in 0 .. Len(tokens),
         Row(es, j, k), Row(<<e>>, k, l)
  PROVE  Row(Append(es, e), j, l)
<1> DEFINE n == Len(es)
           all == Append(es, e)
<1>1. k < l /\ e.start = tokens[k + 1].start /\ e.end = tokens[l].end
  BY OneInRow
<1>2. /\ n \in Nat /\ all \in Seq(S) /\ Len(all) = n + 1
      /\ \A i \in 1 .. n : all[i] = es[i]
      /\ all[n + 1] = e
  BY AppendProperties, LenProperties
<1>3. all # <<>> /\ Last(all) = e
  <2>1. Last(all) = all[Len(all)]
    BY DEF Last
  <2>2. all # <<>>
    BY <1>2, EmptySeq
  <2> HIDE DEF all, n
  <2> QED
    BY <1>2, <2>1, <2>2
<1>4. CASE es = <<>>
  <2>1. n = 0 /\ j = k
    BY <1>4 DEF Row
  <2> HIDE DEF all, n
  <2>2. InARow(all)
    BY <1>2, <2>1 DEF InARow
  <2> QED
    BY <1>1, <1>2, <1>3, <2>1, <2>2 DEF Row, all
<1>5. CASE es # <<>>
  <2>1. /\ j < k /\ InARow(es)
        /\ es[1].start = tokens[j + 1].start /\ es[n].end = tokens[k].end
    BY <1>5 DEF Row, Last
  <2>2. n \in Nat /\ n >= 1
    BY <1>2, <1>5, EmptySeq
  <2>3. k \in 1 .. Len(tokens) - 1
    BY <1>1, <2>1, TokensKnown
  <2>4. \A i \in 1 .. n - 1 : \E m \in 1 .. Len(tokens) - 1 :
          tokens[m].end = es[i].end /\ tokens[m + 1].start = es[i + 1].start
    BY <2>1 DEF InARow
  <2> HIDE DEF all, n
  <2>5. ASSUME NEW i \in 1 .. n
        PROVE  \E m \in 1 .. Len(tokens) - 1 :
                 tokens[m].end = all[i].end /\ tokens[m + 1].start = all[i + 1].start
    <3>1. CASE i = n
      <4>1. tokens[k].end = all[i].end /\ tokens[k + 1].start = all[i + 1].start
        BY <1>1, <1>2, <2>1, <2>2, <3>1
      <4> QED
        BY <2>3, <4>1
    <3>2. CASE i # n
      <4>1. i \in 1 .. n - 1 /\ i \in 1 .. n /\ i + 1 \in 1 .. n
        BY <2>2, <3>2
      <4>2. all[i] = es[i] /\ all[i + 1] = es[i + 1]
        BY <1>2, <4>1
      <4> QED
        BY <2>4, <4>1, <4>2
    <3> QED
      BY <3>1, <3>2
  <2>6. Len(all) - 1 = n
    BY <1>2, <2>2
  <2>7. InARow(all)
    BY <2>5, <2>6 DEF InARow
  <2>8. all[1] = es[1]
    BY <1>2, <2>2
  <2>9. j < l
    BY <1>1, <2>1
  <2> QED
    BY <1>1, <1>3, <2>1, <2>7, <2>8, <2>9 DEF Row, all
<1> QED
  BY <1>4, <1>5

-----------------------------------------------------------------------------
(* Parts.                                                                  *)

PartsOfAll(es) == UNION {Range(PartsOf(e)) : e \in es}

\* Parts, as far as a depth of n.
PartsUpTo(h, n) ==
  h = [depth \in 0 .. n |-> IF depth = 0 THEN Range(forms) ELSE PartsOfAll(h[depth - 1])]

LEMMA PartsUpToAt ==
  ASSUME NEW h, NEW n \in Nat, PartsUpTo(h, n), NEW depth \in 0 .. n
  PROVE  h[depth] = IF depth = 0 THEN Range(forms) ELSE PartsOfAll(h[depth - 1])
BY DEF PartsUpTo

LEMMA PartsAgree ==
  ASSUME NEW g, NEW h, NEW n \in Nat, NEW m \in Nat, PartsUpTo(g, n), PartsUpTo(h, m)
  PROVE  \A depth \in 0 .. n : depth <= m => g[depth] = h[depth]
<1> DEFINE bad == {depth \in 0 .. n : depth <= m /\ g[depth] # h[depth]}
           k == Min(bad)
<1>1. ASSUME bad # {}
      PROVE  FALSE
  <2>1. bad \subseteq Nat
    OBVIOUS
  <2> HIDE DEF k
  <2>2. k \in bad /\ \A depth \in bad : k <= depth
    BY <1>1, <2>1, MinOf DEF k
  <2> HIDE DEF bad
  <2>3. k \in 0 .. n /\ k \in 0 .. m /\ g[k] # h[k]
    BY <2>2 DEF bad
  <2>4. k # 0
    BY <2>3, PartsUpToAt
  <2>5. k - 1 \in 0 .. n /\ k - 1 \in Nat /\ k - 1 < k /\ k - 1 <= m
    BY <2>3, <2>4
  <2>6. k - 1 \notin bad
    BY <2>2, <2>3, <2>5
  <2>7. g[k - 1] = h[k - 1]
    BY <2>5, <2>6 DEF bad
  <2>8. g[k] = PartsOfAll(g[k - 1]) /\ h[k] = PartsOfAll(h[k - 1])
    BY <2>3, <2>4, PartsUpToAt
  <2> QED
    BY <2>3, <2>7, <2>8
<1> QED
  BY <1>1

LEMMA PartsExist == \A n \in Nat : \E h : PartsUpTo(h, n)
<1> DEFINE bad == {n \in Nat : ~\E h : PartsUpTo(h, n)}
           k == Min(bad)
<1>1. ASSUME bad # {}
      PROVE  FALSE
  <2> HIDE DEF k
  <2>1. k \in bad /\ \A n \in bad : k <= n
    BY <1>1, MinOf DEF k
  <2> HIDE DEF bad
  <2>2. k \in Nat /\ ~\E h : PartsUpTo(h, k)
    BY <2>1 DEF bad
  <2>3. CASE k = 0
    <3> DEFINE g == [depth \in 0 .. 0 |-> Range(forms)]
    <3>1. g = [depth \in 0 .. 0 |->
                 IF depth = 0 THEN Range(forms) ELSE PartsOfAll(g[depth - 1])]
      OBVIOUS
    <3> HIDE DEF g
    <3>2. PartsUpTo(g, 0)
      BY <3>1 DEF PartsUpTo
    <3> QED
      BY <2>2, <2>3, <3>2
  <2>4. CASE k # 0
    <3>1. k - 1 \in Nat /\ k - 1 < k
      BY <2>2, <2>4
    <3>2. PICK h : PartsUpTo(h, k - 1)
      BY <2>1, <3>1 DEF bad
    <3> DEFINE g == [depth \in 0 .. k |->
                       IF depth = 0 THEN Range(forms) ELSE PartsOfAll(h[depth - 1])]
    <3>3. \A depth \in 0 .. k :
            g[depth] = IF depth = 0 THEN Range(forms) ELSE PartsOfAll(h[depth - 1])
      OBVIOUS
    <3>4. \A depth \in 0 .. k - 1 : g[depth] = h[depth]
      <4>1. \A depth \in 0 .. k - 1 : depth \in 0 .. k
        BY <2>2
      <4> HIDE DEF g
      <4> QED
        BY <3>1, <3>2, <3>3, <4>1, PartsUpToAt
    <3>5. ASSUME NEW depth \in 0 .. k, depth # 0
          PROVE  h[depth - 1] = g[depth - 1]
      <4>1. depth - 1 \in 0 .. k - 1
        BY <2>2, <3>5
      <4> QED
        BY <3>4, <4>1
    <3>6. g = [depth \in 0 .. k |->
                 IF depth = 0 THEN Range(forms) ELSE PartsOfAll(g[depth - 1])]
      BY Zenon, <3>5
    <3> HIDE DEF g
    <3>7. PartsUpTo(g, k)
      BY <3>6 DEF PartsUpTo
    <3> QED
      BY <2>2, <3>7
  <2> QED
    BY <2>3, <2>4
<1> QED
  BY <1>1

\* Parts is what its definition says.
LEMMA PartsUnfold ==
  /\ Parts[0] = Range(forms)
  /\ \A depth \in Nat : Parts[depth + 1] = PartsOfAll(Parts[depth])
<1> DEFINE upTo(n) == CHOOSE h : PartsUpTo(h, n)
           f == [depth \in Nat |-> upTo(depth)[depth]]
<1>1. \A n \in Nat : PartsUpTo(upTo(n), n)
  BY PartsExist
<1> HIDE DEF upTo
<1>2. \A depth \in Nat : f[depth] = upTo(depth)[depth]
  OBVIOUS
<1>3. ASSUME NEW depth \in Nat
      PROVE  f[depth] = IF depth = 0 THEN Range(forms) ELSE PartsOfAll(f[depth - 1])
  <2>1. upTo(depth)[depth] =
          IF depth = 0 THEN Range(forms) ELSE PartsOfAll(upTo(depth)[depth - 1])
    BY <1>1, PartsUpToAt
  <2>2. ASSUME depth # 0
        PROVE  upTo(depth)[depth - 1] = f[depth - 1]
    <3>1. depth - 1 \in Nat /\ depth - 1 \in 0 .. depth - 1 /\ depth - 1 <= depth
      BY <2>2
    <3>2. upTo(depth - 1)[depth - 1] = upTo(depth)[depth - 1]
      BY <1>1, <3>1, PartsAgree
    <3> QED
      BY <1>2, <3>1, <3>2
  <2> HIDE DEF f
  <2> QED
    BY <1>2, <2>1, <2>2
<1>4. f = [depth \in Nat |-> IF depth = 0 THEN Range(forms)
                             ELSE UNION {Range(PartsOf(e)) : e \in f[depth - 1]}]
  BY Zenon, <1>3 DEF PartsOfAll
<1> HIDE DEF f
<1>5. Parts = [depth \in Nat |-> IF depth = 0 THEN Range(forms)
                                 ELSE UNION {Range(PartsOf(e)) : e \in Parts[depth - 1]}]
  BY Zenon, <1>4 DEF Parts
<1>6. Parts = [depth \in Nat |-> IF depth = 0 THEN Range(forms)
                                 ELSE PartsOfAll(Parts[depth - 1])]
  BY Zenon, <1>5 DEF PartsOfAll
<1>7. \A depth \in Nat : Parts[depth] = IF depth = 0 THEN Range(forms)
                                       ELSE PartsOfAll(Parts[depth - 1])
  BY Zenon, <1>6
<1>8. \A depth \in Nat : depth + 1 \in Nat /\ depth + 1 # 0 /\ (depth + 1) - 1 = depth
  OBVIOUS
<1> QED
  BY Zenon, <1>7, <1>8

\* The parts of a list, of a quote and of a token.
LEMMA PartsOfList ==
  ASSUME NEW items, NEW start, NEW end
  PROVE  LET e == Token(ListOf(items), start, end) IN
         /\ IsList(e) /\ e.kind.list = items /\ e.start = start /\ e.end = end
         /\ Begun(e) = <<Token(LParen, start, start + 1)>> \o items
         /\ PartsOf(e) = Append(Begun(e), Token(RParen, end - 1, end))
<1> DEFINE e == Token(ListOf(items), start, end)
<1>1. e.kind = ListOf(items) /\ e.start = start /\ e.end = end
  BY DEF Token
<1>2. /\ "list" \in DOMAIN ListOf(items) /\ "quote" \notin DOMAIN ListOf(items)
      /\ ListOf(items).list = items
  BY DEF ListOf
<1> HIDE DEF e
<1>3. IsList(e) /\ "quote" \notin DOMAIN e.kind /\ e.kind.list = items
  BY <1>1, <1>2 DEF IsList
<1>4. Begun(e) = <<Token(LParen, start, start + 1)>> \o items
  BY Zenon, <1>1, <1>3 DEF Begun
<1>5. PartsOf(e) = Append(Begun(e), Token(RParen, end - 1, end))
  BY Zenon, <1>1, <1>3 DEF PartsOf
<1> QED
  BY Zenon, <1>1, <1>3, <1>4, <1>5 DEF e

LEMMA PartsOfQuote ==
  ASSUME NEW quoted, NEW start, NEW end
  PROVE  LET e == Token(QuoteOf(quoted), start, end) IN
         /\ ~IsList(e) /\ e.start = start /\ e.end = end
         /\ Begun(e) = <<Token(QuoteMark, start, start + 1)>>
         /\ PartsOf(e) = Append(Begun(e), quoted)
<1> DEFINE e == Token(QuoteOf(quoted), start, end)
<1>1. e.kind = QuoteOf(quoted) /\ e.start = start /\ e.end = end
  BY DEF Token
<1>2. /\ "list" \notin DOMAIN QuoteOf(quoted) /\ "quote" \in DOMAIN QuoteOf(quoted)
      /\ QuoteOf(quoted).quote = quoted
  BY DEF QuoteOf
<1> HIDE DEF e
<1>3. ~IsList(e) /\ "quote" \in DOMAIN e.kind /\ e.kind.quote = quoted
  BY <1>1, <1>2 DEF IsList
<1>4. Begun(e) = <<Token(QuoteMark, start, start + 1)>> \o <<>>
  BY Zenon, <1>1, <1>3 DEF Begun
<1>5. \A x : <<x>> \o <<>> = <<x>>
  OBVIOUS
<1>6. PartsOf(e) = Append(Begun(e), quoted)
  BY Zenon, <1>1, <1>3 DEF PartsOf
<1> QED
  BY Zenon, <1>1, <1>3, <1>4, <1>5, <1>6 DEF e

LEMMA PartsOfToken ==
  ASSUME NEW e, e.kind \in Kinds
  PROVE  PartsOf(e) = <<>>
BY Zenon, KindsOfParts DEF PartsOf, IsList

\* A list begins with its mark and its items.
LEMMA ListBegun ==
  ASSUME NEW S, NEW items \in Seq(S), NEW start, Token(LParen, start, start + 1) \in S,
         NEW item \in S
  PROVE  /\ \A end : /\ Begun(Token(ListOf(items), start, end)) \in Seq(S)
                     /\ Begun(Token(ListOf(items), start, end)) # <<>>
         /\ \A end : Begun(Token(ListOf(Append(items, item)), start, end))
                     = Append(Begun(Token(ListOf(items), start, end)), item)
<1> DEFINE mark == Token(LParen, start, start + 1)
<1>1. mark \in S
  OBVIOUS
<1>2. \A es, end : Begun(Token(ListOf(es), start, end)) = <<mark>> \o es
  BY PartsOfList
<1> HIDE DEF mark
<1>3. <<mark>> \in Seq(S) /\ <<mark>> \o items \in Seq(S)
  BY <1>1
<1>4. <<mark>> \o items # <<>>
  <2>1. Len(<<mark>> \o items) = 1 + Len(items) /\ Len(items) \in Nat
    BY <1>3, LenProperties, ConcatProperties
  <2> QED
    BY <2>1
<1>5. <<mark>> \o Append(items, item) = Append(<<mark>> \o items, item)
  BY <1>3
<1> QED
  BY <1>2, <1>3, <1>4, <1>5

-----------------------------------------------------------------------------
(* Where what the parser has made is among the tokens.                     *)

\* Expressions that are spelt by their parts, these by theirs, down to the tokens.
Closed(made) ==
  /\ Range(tokens) \subseteq made
  /\ \A e \in made : Spelt(e) /\ PartsOf(e) \in Seq(made)

Marked(mark, made) == {start \in Nat : Token(mark, start, start + 1) \in made}

\* Open calls.
ListCalls(made) ==
  {Token(ListOf(read[1]), read[2], read[2] + 1) : read \in Seq(made) \X Marked(LParen, made)}
QuoteCalls(made) ==
  {Token(QuoteOf(NoExpr), start, start + 1) : start \in Marked(QuoteMark, made)}
Calls(made) == ListCalls(made) \union QuoteCalls(made)

\* The forms are the first at[0] of the n tokens taken, what the first open call has
\* read goes on to at[1], and so on; the last of all are the expression returned.
Placed(made, at, fs, calls, e, n) ==
  /\ Closed(made)
  /\ fs \in Seq(made) /\ calls \in Seq(Calls(made))
  /\ at \in [Nat -> 0 .. Len(tokens)] /\ n \in 0 .. Len(tokens)
  /\ Row(fs, 0, at[0])
  /\ \A i \in 1 .. Len(calls) : Row(Begun(calls[i]), at[i - 1], at[i])
  /\ IF e = NoExpr THEN at[Len(calls)] = n ELSE e \in made /\ Row(<<e>>, at[Len(calls)], n)

LEMMA ListCall ==
  ASSUME NEW made, NEW items \in Seq(made), NEW start \in Marked(LParen, made)
  PROVE  Token(ListOf(items), start, start + 1) \in Calls(made)
<1> DEFINE read == <<items, start>>
<1>1. read \in Seq(made) \X Marked(LParen, made) /\ read[1] = items /\ read[2] = start
  OBVIOUS
<1> HIDE DEF read
<1>2. Token(ListOf(read[1]), read[2], read[2] + 1) \in ListCalls(made)
  BY Zenon, <1>1 DEF ListCalls
<1> QED
  BY <1>1, <1>2 DEF Calls

\* An open call is a list with its items or a quote with nothing.
LEMMA CallKinds ==
  ASSUME NEW made, NEW call \in Calls(made)
  PROVE  \/ \E items \in Seq(made), start \in Marked(LParen, made) :
              call = Token(ListOf(items), start, start + 1)
         \/ \E start \in Marked(QuoteMark, made) : call = Token(QuoteOf(NoExpr), start, start + 1)
<1>1. CASE call \in ListCalls(made)
  <2>1. PICK read \in Seq(made) \X Marked(LParen, made) :
          call = Token(ListOf(read[1]), read[2], read[2] + 1)
    BY Zenon, <1>1 DEF ListCalls
  <2>2. read[1] \in Seq(made) /\ read[2] \in Marked(LParen, made)
    BY <2>1
  <2> QED
    BY Zenon, <2>1, <2>2
<1>2. CASE call \in QuoteCalls(made)
  BY Zenon, <1>2 DEF QuoteCalls
<1> QED
  BY <1>1, <1>2 DEF Calls

\* This is about the tokens only.
LEMMA SameTokens ==
  ASSUME tokens' = tokens
  PROVE  \A made, at, fs, calls, e, n :
           Placed(made, at, fs, calls, e, n) => Placed(made, at, fs, calls, e, n)'
<1>1. \A es : InARow(es)' <=> InARow(es)
  BY DEF InARow
<1>2. \A es, j, k : Row(es, j, k)' <=> Row(es, j, k)
  BY <1>1 DEF Row
<1>3. \A e : Spelt(e)' <=> Spelt(e)
  BY <1>1 DEF Spelt
<1>4. \A made : Closed(made) => Closed(made)'
  BY <1>3 DEF Closed
<1>5. ASSUME NEW made, NEW at, NEW fs, NEW calls, NEW e, NEW n, Placed(made, at, fs, calls, e, n)
      PROVE  Placed(made, at, fs, calls, e, n)'
  <2>1. Closed(made)'
    BY <1>4, <1>5 DEF Placed
  <2>2. /\ fs \in Seq(made) /\ calls \in Seq(Calls(made))
        /\ at \in [Nat -> 0 .. Len(tokens')] /\ n \in 0 .. Len(tokens')
    BY <1>5 DEF Placed
  <2>3. /\ Row(fs, 0, at[0])'
        /\ \A i \in 1 .. Len(calls) : Row(Begun(calls[i]), at[i - 1], at[i])'
    BY Zenon, <1>2, <1>5 DEF Placed
  <2>4. IF e = NoExpr THEN at[Len(calls)] = n
        ELSE e \in made /\ Row(<<e>>, at[Len(calls)], n)'
    BY Zenon, <1>2, <1>5 DEF Placed
  <2> QED
    BY <2>1, <2>2, <2>3, <2>4 DEF Placed
<1> QED
  BY <1>5

\* More may be made.
LEMMA MoreMade ==
  ASSUME NEW made, NEW more, made \subseteq more
  PROVE  /\ Seq(made) \subseteq Seq(more)
         /\ Seq(Calls(made)) \subseteq Seq(Calls(more))
<1>1. \A es \in Seq(made) : es \in Seq(more)
  BY SeqMonotonic
<1>2. \A mark : Marked(mark, made) \subseteq Marked(mark, more)
  BY DEF Marked
<1>3. ListCalls(made) \subseteq ListCalls(more) /\ QuoteCalls(made) \subseteq QuoteCalls(more)
  BY <1>1, <1>2 DEF ListCalls, QuoteCalls
<1>4. Calls(made) \subseteq Calls(more)
  BY <1>3 DEF Calls
<1> HIDE DEF Calls
<1>5. \A calls \in Seq(Calls(made)) : calls \in Seq(Calls(more))
  BY <1>4, SeqMonotonic
<1> QED
  BY <1>1, <1>5

\* The innermost call.
LEMMA TopCall ==
  ASSUME NEW made, NEW calls \in Seq(Calls(made)), calls # <<>>
  PROVE  /\ Len(calls) \in Nat /\ Len(calls) >= 1
         /\ Last(calls) = calls[Len(calls)] /\ Last(calls) \in Calls(made)
         /\ Front(calls) \in Seq(Calls(made)) /\ Len(Front(calls)) = Len(calls) - 1
         /\ \A i \in 1 .. Len(calls) - 1 : Front(calls)[i] = calls[i]
<1> DEFINE n == Len(calls)
           S == Calls(made)
<1>1. n \in Nat /\ n # 0 /\ calls \in Seq(S)
  BY LenProperties, EmptySeq
<1> HIDE DEF S
<1>2. n >= 1 /\ n \in 1 .. n
  BY <1>1
<1>3. Last(calls) = calls[n] /\ calls[n] \in S
  BY <1>1, <1>2, ElementOfSeq DEF Last
<1>4. Front(calls) = SubSeq(calls, 1, n - 1)
  BY DEF Front
<1>5. \A i \in 1 .. n - 1 : calls[i] \in S
  BY <1>1, ElementOfSeq
<1> HIDE DEF n
<1>6. /\ Front(calls) \in Seq(S)
      /\ Len(Front(calls)) = IF 1 <= n - 1 THEN (n - 1) - 1 + 1 ELSE 0
      /\ \A i \in 1 .. (n - 1) - 1 + 1 : Front(calls)[i] = calls[1 + i - 1]
  BY <1>1, <1>4, <1>5, SubSeqProperties
<1>7. Len(Front(calls)) = n - 1
  BY <1>1, <1>2, <1>6
<1>8. ASSUME NEW i \in 1 .. n - 1
      PROVE  Front(calls)[i] = calls[i]
  <2>1. i \in 1 .. (n - 1) - 1 + 1 /\ 1 + i - 1 = i
    BY <1>1
  <2> QED
    BY <1>6, <2>1
<1> QED
  BY <1>2, <1>1, <1>3, <1>6, <1>7, <1>8 DEF n, S

\* A token as what it is made of; a mark is one character.
LEMMA TokenShape ==
  ASSUME LexInv, MarksAreShort, NEW k \in 1 .. Len(tokens)
  PROVE  /\ tokens[k] = Token(tokens[k].kind, tokens[k].start, tokens[k].end)
         /\ tokens[k].start \in Nat /\ tokens[k].start >= 1 /\ tokens[k].end \in Nat
         /\ tokens[k] \in Range(tokens) /\ tokens[k] # NoExpr
         /\ tokens[k].kind \in {LParen, RParen, QuoteMark} =>
              tokens[k].end = tokens[k].start + 1
<1>1. tokens[k] \in Tokens
  BY ElementOfSeq DEF LexInv, LexTypes
<1>2. tokens[k] = Token(tokens[k].kind, tokens[k].start, tokens[k].end)
  BY <1>1 DEF Tokens, Token
<1>3. tokens[k].start \in Nat /\ tokens[k].start >= 1 /\ tokens[k].end \in Nat
  BY TokensKnown
<1>4. tokens[k] \in Range(tokens)
  BY TokensKnown DEF Range
<1>5. tokens[k].kind \in {LParen, RParen, QuoteMark} => tokens[k].end = tokens[k].start + 1
  BY MarksDiffer DEF MarksAreShort
<1> QED
  BY <1>2, <1>3, <1>4, <1>5, ExprsStart

-----------------------------------------------------------------------------
(* The steps of the parser.                                                *)

\* What Placed says of the positions.
LEMMA PlacedAt ==
  ASSUME LexInv, NEW made, NEW at, NEW fs, NEW calls, NEW e, NEW n,
         Placed(made, at, fs, calls, e, n)
  PROVE  /\ Closed(made) /\ fs \in Seq(made) /\ calls \in Seq(Calls(made))
         /\ n \in Nat /\ n <= Len(tokens) /\ Len(tokens) \in Nat
         /\ \A i \in Nat : at[i] \in Nat /\ at[i] <= Len(tokens)
         /\ Len(calls) \in Nat /\ DOMAIN calls = 1 .. Len(calls)
<1>1. Len(tokens) \in Nat
  BY TokensKnown
<1>2. Closed(made) /\ fs \in Seq(made) /\ calls \in Seq(Calls(made))
  BY DEF Placed
<1>3. at \in [Nat -> 0 .. Len(tokens)] /\ n \in 0 .. Len(tokens)
  BY DEF Placed
<1>4. Len(calls) \in Nat /\ DOMAIN calls = 1 .. Len(calls)
  BY <1>2, LenProperties
<1>5. \A i \in Nat : at[i] \in 0 .. Len(tokens)
  BY <1>3
<1>6. \A j \in 0 .. Len(tokens) : j \in Nat /\ j <= Len(tokens)
  BY <1>1
<1> QED
  BY Zenon, <1>1, <1>2, <1>3, <1>4, <1>5, <1>6

\* An atom is taken.
LEMMA AtomPlaced ==
  ASSUME LexInv, MarksAreShort, NEW made, NEW at, NEW fs, NEW calls, NEW n,
         Placed(made, at, fs, calls, NoExpr, n), n < Len(tokens)
  PROVE  Placed(made, at, fs, calls, tokens[n + 1], n + 1)
<1>1. n \in Nat /\ n + 1 \in 1 .. Len(tokens) /\ n + 1 \in 0 .. Len(tokens) /\ n < n + 1
  BY PlacedAt
<1>2. at[Len(calls)] = n /\ Range(tokens) \subseteq made
  BY DEF Placed, Closed
<1>3. tokens[n + 1] \in made /\ tokens[n + 1] # NoExpr
  BY <1>1, <1>2, TokenShape
<1>4. Row(<<tokens[n + 1]>>, n, n + 1)
  BY <1>1, RowOfOne
<1> QED
  BY <1>1, <1>2, <1>3, <1>4 DEF Placed

\* A call is opened that has read its mark.
LEMMA CallPlaced ==
  ASSUME LexInv, NEW made, NEW at, NEW fs, NEW calls, NEW n, NEW call \in Calls(made),
         Placed(made, at, fs, calls, NoExpr, n), n < Len(tokens),
         Row(Begun(call), n, n + 1)
  PROVE  Placed(made, [at EXCEPT ![Len(calls) + 1] = n + 1], fs, Append(calls, call), NoExpr, n + 1)
<1> DEFINE m == Len(calls)
           after == [at EXCEPT ![m + 1] = n + 1]
           all == Append(calls, call)
<1>1. /\ n \in Nat /\ n + 1 \in 0 .. Len(tokens) /\ m \in Nat /\ m + 1 \in Nat
      /\ calls \in Seq(Calls(made))
  BY PlacedAt
<1>2. at \in [Nat -> 0 .. Len(tokens)] /\ at[m] = n
  BY DEF Placed
<1>3. /\ after \in [Nat -> 0 .. Len(tokens)]
      /\ after[m + 1] = n + 1 /\ \A i \in 0 .. m : after[i] = at[i]
  <2> HIDE DEF m
  <2>1. \A i \in 0 .. m : i \in Nat /\ i # m + 1
    BY <1>1
  <2> QED
    BY <1>1, <1>2, <2>1
<1>4. /\ all \in Seq(Calls(made)) /\ Len(all) = m + 1
      /\ \A i \in 1 .. m : all[i] = calls[i]
      /\ all[m + 1] = call
  BY <1>1, AppendProperties
<1> HIDE DEF after, all
<1>5. /\ Closed(made) /\ fs \in Seq(made) /\ Row(fs, 0, at[0])
      /\ \A i \in 1 .. m : Row(Begun(calls[i]), at[i - 1], at[i])
  BY DEF Placed
<1> HIDE DEF m
<1>6. Row(fs, 0, after[0])
  <2>1. 0 \in 0 .. m
    BY <1>1
  <2> QED
    BY <1>3, <1>5, <2>1
<1>7. ASSUME NEW i \in 1 .. m + 1
      PROVE  Row(Begun(all[i]), after[i - 1], after[i])
  <2>1. CASE i = m + 1
    <3>1. i - 1 = m /\ m \in 0 .. m
      BY <1>1, <2>1
    <3> QED
      BY <1>2, <1>3, <1>4, <2>1, <3>1
  <2>2. CASE i # m + 1
    <3>1. i \in 1 .. m /\ i \in 0 .. m /\ i - 1 \in 0 .. m
      BY <1>1, <2>2
    <3> QED
      BY <1>3, <1>4, <1>5, <3>1
  <2> QED
    BY <2>1, <2>2
<1>8. Placed(made, after, fs, all, NoExpr, n + 1)
  BY <1>1, <1>3, <1>4, <1>5, <1>6, <1>7 DEF Placed
<1> QED
  BY <1>8 DEF after, all, m

\* A parenthesis or a quote opens a call.
LEMMA MarkPlaced ==
  ASSUME LexInv, MarksAreShort, NEW made, NEW at, NEW fs, NEW calls, NEW n, NEW kind,
         Placed(made, at, fs, calls, NoExpr, n), n < Len(tokens),
         \/ kind = ListOf(<<>>) /\ tokens[n + 1].kind = LParen
         \/ kind = QuoteOf(NoExpr) /\ tokens[n + 1].kind = QuoteMark
  PROVE  \E after : Placed(made, after, fs, Append(calls, Frame(kind, tokens[n + 1])), NoExpr, n + 1)
<1> DEFINE t == tokens[n + 1]
           call == Frame(kind, t)
<1>1. n \in Nat /\ n + 1 \in 1 .. Len(tokens) /\ n < n + 1
  BY PlacedAt
<1>2. Range(tokens) \subseteq made
  BY DEF Placed, Closed
<1>3. /\ t = Token(t.kind, t.start, t.start + 1) /\ t.start \in Nat /\ t.end = t.start + 1
      /\ t \in made
  BY <1>1, <1>2, TokenShape
<1>4. Row(<<t>>, n, n + 1)
  BY <1>1, RowOfOne
<1>5. call = Token(kind, t.start, t.start + 1)
  BY <1>3 DEF Frame
<1>6. \/ kind = ListOf(<<>>) /\ t.kind = LParen
      \/ kind = QuoteOf(NoExpr) /\ t.kind = QuoteMark
  OBVIOUS
<1> HIDE DEF t, call
<1>7. call \in Calls(made) /\ Begun(call) = <<t>>
  <2>1. CASE kind = ListOf(<<>>) /\ t.kind = LParen
    <3>1. t = Token(LParen, t.start, t.start + 1)
      BY <1>3, <2>1
    <3>2. t.start \in Marked(LParen, made)
      BY <1>3, <3>1 DEF Marked
    <3>3. PICK items : items = <<>> /\ items \in Seq(made)
      <4>1. <<>> \in Seq(made)
        OBVIOUS
      <4> QED
        BY Zenon, <4>1
    <3>4. call = Token(ListOf(items), t.start, t.start + 1)
      BY <1>5, <2>1, <3>3
    <3>5. call \in Calls(made)
      BY <3>2, <3>3, <3>4, ListCall DEF Calls
    <3>6. Begun(call) = <<t>> \o items
      BY <3>1, <3>4, PartsOfList
    <3>7. <<t>> \o items = <<t>>
      BY <3>3
    <3> QED
      BY <3>5, <3>6, <3>7
  <2>2. CASE kind = QuoteOf(NoExpr) /\ t.kind = QuoteMark
    <3>1. t = Token(QuoteMark, t.start, t.start + 1)
      BY <1>3, <2>2
    <3>2. t.start \in Marked(QuoteMark, made)
      BY <1>3, <3>1 DEF Marked
    <3>3. call \in QuoteCalls(made)
      BY <1>5, <2>2, <3>2 DEF QuoteCalls
    <3>4. Begun(call) = <<t>>
      BY <1>5, <2>2, <3>1, PartsOfQuote
    <3> QED
      BY <3>3, <3>4 DEF Calls
  <2> QED
    BY <1>6, <2>1, <2>2
<1>8. Placed(made, [at EXCEPT ![Len(calls) + 1] = n + 1], fs, Append(calls, call), NoExpr, n + 1)
  BY <1>4, <1>7, CallPlaced
<1> QED
  BY <1>8 DEF call, t

\* An expression is made of a row of parts.
LEMMA Assembled ==
  ASSUME LexInv, NEW made, NEW begun \in Seq(made), begun # <<>>, NEW part \in made, NEW e,
         PartsOf(e) = Append(begun, part), e.start = begun[1].start, e.end = part.end,
         NEW j \in Nat, NEW k \in Nat, NEW l \in 0 .. Len(tokens),
         Row(begun, j, k), Row(<<part>>, k, l)
  PROVE  Spelt(e) /\ PartsOf(e) \in Seq(made) /\ Row(<<e>>, j, l)
<1> DEFINE all == Append(begun, part)
           n == Len(begun)
<1>1. /\ n \in Nat /\ all \in Seq(made) /\ Len(all) = n + 1
      /\ all[n + 1] = part
  BY AppendProperties, LenProperties
<1>2. Row(all, j, l)
  BY RowGoesOn
<1>3. all # <<>> /\ Last(all) = part
  <2>1. Last(all) = all[Len(all)]
    BY DEF Last
  <2>2. all # <<>>
    BY <1>1, EmptySeq
  <2> HIDE DEF all, n
  <2> QED
    BY <1>1, <2>1, <2>2
<1> HIDE DEF all
<1>4. PartsOf(e) = all
  BY DEF all
<1>5. Spelt(e)
  BY <1>2, <1>3, <1>4 DEF Row, Spelt
<1>6. Row(<<e>>, j, l)
  <2>1. j < k /\ begun[1].start = tokens[j + 1].start
    BY DEF Row
  <2>2. k < l /\ part.end = tokens[l].end
    BY OneInRow
  <2>3. l \in Nat /\ j < l
    BY <2>1, <2>2, TokensKnown
  <2> QED
    BY <2>1, <2>2, <2>3, RowOfOne
<1> QED
  BY <1>1, <1>4, <1>5, <1>6

\* What the innermost call has read.
LEMMA TopPlaced ==
  ASSUME LexInv, NEW made, NEW at, NEW fs, NEW calls, NEW e, NEW n,
         Placed(made, at, fs, calls, e, n), calls # <<>>
  PROVE  /\ Len(calls) - 1 \in Nat
         /\ at[Len(calls) - 1] \in Nat /\ at[Len(calls)] \in Nat
         /\ at[Len(calls)] <= Len(tokens)
         /\ Row(Begun(Last(calls)), at[Len(calls) - 1], at[Len(calls)])
<1>1. calls \in Seq(Calls(made)) /\ \A i \in Nat : at[i] \in Nat /\ at[i] <= Len(tokens)
  BY PlacedAt
<1>2. Len(calls) \in Nat /\ Len(calls) >= 1 /\ Last(calls) = calls[Len(calls)]
  BY <1>1, TopCall
<1>3. Len(calls) \in 1 .. Len(calls) /\ Len(calls) - 1 \in Nat
  BY <1>2
<1> QED
  BY <1>1, <1>2, <1>3 DEF Placed

\* The innermost call returns what it has made.
LEMMA ReturnPlaced ==
  ASSUME LexInv, NEW made, NEW at, NEW fs, NEW calls, NEW was, NEW n,
         Placed(made, at, fs, calls, was, n), calls # <<>>,
         NEW e, e # NoExpr, Spelt(e), PartsOf(e) \in Seq(made), NEW l \in 0 .. Len(tokens),
         Row(<<e>>, at[Len(calls) - 1], l)
  PROVE  Placed(made \union {e}, at, fs, Front(calls), e, l)
<1> DEFINE more == made \union {e}
           m == Len(calls) - 1
           rest == Front(calls)
<1>1. /\ Closed(made) /\ fs \in Seq(made) /\ calls \in Seq(Calls(made))
      /\ at \in [Nat -> 0 .. Len(tokens)] /\ Row(fs, 0, at[0])
      /\ \A i \in 1 .. Len(calls) : Row(Begun(calls[i]), at[i - 1], at[i])
  BY DEF Placed
<1>2. /\ Len(calls) = m + 1 /\ m \in Nat /\ rest \in Seq(Calls(made)) /\ Len(rest) = m
      /\ \A i \in 1 .. m : rest[i] = calls[i]
  <2>1. /\ Len(calls) \in Nat /\ Len(calls) >= 1 /\ rest \in Seq(Calls(made)) /\ Len(rest) = m
        /\ \A i \in 1 .. m : rest[i] = calls[i]
    BY <1>1, TopCall
  <2> HIDE DEF rest
  <2> QED
    BY <2>1
<1>3. /\ made \subseteq more /\ Seq(made) \subseteq Seq(more)
      /\ Seq(Calls(made)) \subseteq Seq(Calls(more))
  BY MoreMade
<1>4. e \in more /\ \A x \in more : x \in made \/ x = e
  OBVIOUS
<1>5. Row(<<e>>, at[m], l)
  OBVIOUS
<1> HIDE DEF more, m, rest
<1>6. Closed(more)
  <2>1. Range(tokens) \subseteq more
    BY <1>1, <1>3 DEF Closed
  <2>2. \A x \in more : Spelt(x) /\ PartsOf(x) \in Seq(more)
    BY <1>1, <1>3, <1>4 DEF Closed
  <2> QED
    BY <2>1, <2>2 DEF Closed
<1>7. \A i \in 1 .. m : Row(Begun(rest[i]), at[i - 1], at[i])
  <2>1. \A i \in 1 .. m : i \in 1 .. Len(calls)
    BY <1>2
  <2> QED
    BY <1>1, <1>2, <2>1
<1>8. Placed(more, at, fs, rest, e, l)
  BY <1>1, <1>2, <1>3, <1>4, <1>5, <1>6, <1>7 DEF Placed
<1> QED
  BY <1>8 DEF more, rest

\* A list ends with its parenthesis.
LEMMA ListPlaced ==
  ASSUME LexInv, MarksAreShort, NEW made, NEW at, NEW fs, NEW calls, NEW n,
         Placed(made, at, fs, calls, NoExpr, n), n < Len(tokens),
         calls # <<>>, IsList(Last(calls)), tokens[n + 1].kind = RParen
  PROVE  LET e == [Last(calls) EXCEPT !.end = tokens[n + 1].end]
         IN Placed(made \union {e}, at, fs, Front(calls), e, n + 1)
<1> DEFINE t == tokens[n + 1]
           call == Last(calls)
           e == [call EXCEPT !.end = t.end]
           j == at[Len(calls) - 1]
<1>1. n \in Nat /\ n + 1 \in 1 .. Len(tokens) /\ n + 1 \in 0 .. Len(tokens) /\ n < n + 1
  BY PlacedAt
<1>2. Range(tokens) \subseteq made /\ at[Len(calls)] = n
  BY DEF Placed, Closed
<1>3. /\ t = Token(RParen, t.start, t.start + 1) /\ t.start \in Nat /\ t.end = t.start + 1
      /\ t \in made
  BY <1>1, <1>2, TokenShape
<1>4. Row(<<t>>, n, n + 1)
  BY <1>1, RowOfOne
<1>5. call \in Calls(made) /\ IsList(call)
  BY PlacedAt, TopCall
<1>6. j \in Nat /\ Row(Begun(call), j, n)
  BY <1>2, TopPlaced
<1> HIDE DEF t, call, j
<1>7. PICK items \in Seq(made), start \in Marked(LParen, made) :
        call = Token(ListOf(items), start, start + 1)
  BY <1>5, CallKinds, PartsOfQuote
<1>8. start \in Nat /\ Token(LParen, start, start + 1) \in made
  BY DEF Marked
<1>9. e = Token(ListOf(items), start, t.end)
  BY <1>7 DEF Token
<1> HIDE DEF e
<1>10. /\ Begun(call) \in Seq(made) /\ Begun(call) # <<>>
       /\ Begun(call)[1].start = start
  <2>1. Begun(call) = <<Token(LParen, start, start + 1)>> \o items
    BY <1>7, PartsOfList
  <2>2. Begun(call) \in Seq(made) /\ Begun(call) # <<>>
    BY <1>7, <1>8, ListBegun
  <2>3. (<<Token(LParen, start, start + 1)>> \o items)[1] = Token(LParen, start, start + 1)
    OBVIOUS
  <2> QED
    BY <2>1, <2>2, <2>3 DEF Token
<1>11. /\ PartsOf(e) = Append(Begun(call), t) /\ e.start = start /\ e.end = t.end
  <2>1. Begun(call) = <<Token(LParen, start, start + 1)>> \o items
    BY <1>7, PartsOfList
  <2>2. PICK end : end = t.end
    OBVIOUS
  <2>3. e = Token(ListOf(items), start, end)
    BY <1>9, <2>2
  <2>4. /\ Begun(e) = <<Token(LParen, start, start + 1)>> \o items
        /\ PartsOf(e) = Append(Begun(e), Token(RParen, end - 1, end))
        /\ e.start = start /\ e.end = end
    BY <2>3, PartsOfList
  <2>5. end - 1 = t.start /\ end = t.start + 1
    BY <1>3, <2>2
  <2>6. Token(RParen, end - 1, end) = t
    BY <1>3, <2>5
  <2> QED
    BY <2>1, <2>2, <2>4, <2>6
<1>12. Spelt(e) /\ PartsOf(e) \in Seq(made) /\ Row(<<e>>, j, n + 1)
  <2>1. e.start = Begun(call)[1].start /\ t \in made
    BY <1>3, <1>10, <1>11
  <2> HIDE DEF Begun
  <2>2. PICK begun : begun = Begun(call)
    OBVIOUS
  <2>3. /\ begun \in Seq(made) /\ begun # <<>> /\ Row(begun, j, n)
        /\ PartsOf(e) = Append(begun, t) /\ e.start = begun[1].start /\ e.end = t.end
    BY <1>6, <1>10, <1>11, <2>1, <2>2
  <2> QED
    BY <1>1, <1>4, <1>6, <2>1, <2>3, Assembled
<1>13. e # NoExpr
  <2>1. j < n + 1 /\ e.start = tokens[j + 1].start
    BY <1>12, OneInRow
  <2>2. j + 1 \in 1 .. Len(tokens)
    BY <1>1, <1>6, <2>1, TokensKnown
  <2> QED
    BY <2>1, <2>2, TokensKnown, ExprsStart
<1>14. Placed(made \union {e}, at, fs, Front(calls), e, n + 1)
  BY <1>1, <1>12, <1>13, ReturnPlaced DEF j
<1> QED
  BY <1>14 DEF e, call, t

\* What is returned to a list becomes its last item.
LEMMA ItemPlaced ==
  ASSUME LexInv, NEW made, NEW at, NEW fs, NEW calls, NEW e, NEW n,
         Placed(made, at, fs, calls, e, n), e # NoExpr, calls # <<>>, IsList(Last(calls))
  PROVE  Placed(made, [at EXCEPT ![Len(calls)] = n], fs,
                [calls EXCEPT ![Len(calls)].kind.list = Append(@, e)], NoExpr, n)
<1> DEFINE m == Len(calls)
           call == Last(calls)
           grown == [call EXCEPT !.kind.list = Append(@, e)]
           all == [calls EXCEPT ![m].kind.list = Append(@, e)]
           after == [at EXCEPT ![m] = n]
<1>1. /\ Closed(made) /\ fs \in Seq(made) /\ calls \in Seq(Calls(made))
      /\ at \in [Nat -> 0 .. Len(tokens)] /\ n \in 0 .. Len(tokens) /\ Row(fs, 0, at[0])
      /\ \A i \in 1 .. m : Row(Begun(calls[i]), at[i - 1], at[i])
      /\ e \in made /\ Row(<<e>>, at[m], n)
  BY DEF Placed
<1>2. m \in Nat /\ m >= 1 /\ call = calls[m] /\ call \in Calls(made) /\ IsList(call)
  BY <1>1, TopCall
<1>3. at[m - 1] \in Nat /\ at[m] \in Nat /\ Row(Begun(call), at[m - 1], at[m])
  BY TopPlaced
<1>4. all = [calls EXCEPT ![m] = grown]
  BY <1>2
<1> HIDE DEF call, grown
<1>5. PICK items \in Seq(made), start \in Marked(LParen, made) :
        call = Token(ListOf(items), start, start + 1)
  BY <1>2, CallKinds, PartsOfQuote
<1>6. start \in Nat /\ Token(LParen, start, start + 1) \in made
  BY DEF Marked
<1>7. grown = Token(ListOf(Append(items, e)), start, start + 1)
  <2>1. call = [kind |-> [list |-> items], start |-> start, end |-> start + 1]
    BY <1>5 DEF Token, ListOf
  <2> DEFINE kind == [call.kind EXCEPT !.list = Append(@, e)]
  <2>2. grown = [call EXCEPT !.kind = kind]
    BY DEF grown
  <2>3. kind = [list |-> Append(items, e)]
    <3> DEFINE was == call.kind
               grew == Append(items, e)
    <3>1. was = [list |-> items] /\ was.list = items
      BY <2>1
    <3>2. kind = [was EXCEPT !.list = grew]
      BY <3>1
    <3> HIDE DEF was, grew, kind
    <3>3. kind = [list |-> grew]
      BY <3>1, <3>2
    <3> QED
      BY <3>3 DEF grew
  <2> HIDE DEF kind
  <2>4. grown = [kind |-> kind, start |-> start, end |-> start + 1]
    BY <2>1, <2>2
  <2> QED
    BY <2>3, <2>4 DEF Token, ListOf
<1>8. /\ Begun(call) \in Seq(made) /\ Begun(grown) = Append(Begun(call), e)
  <2>1. PICK end : end = start + 1
    OBVIOUS
  <2>2. call = Token(ListOf(items), start, end) /\ grown = Token(ListOf(Append(items, e)), start, end)
    BY <1>5, <1>7, <2>1
  <2>3. Token(LParen, start, start + 1) \in made /\ e \in made
    BY <1>1, <1>6
  <2> QED
    BY <2>2, <2>3, ListBegun
<1>9. grown \in Calls(made)
  <2>1. Append(items, e) \in Seq(made)
    BY <1>1, AppendProperties
  <2> QED
    BY <1>7, <2>1, ListCall
<1>10. Row(Begun(grown), at[m - 1], n)
  BY <1>1, <1>3, <1>8, RowGoesOn
<1> HIDE DEF all, m
<1>11. /\ all \in Seq(Calls(made)) /\ Len(all) = m
       /\ \A i \in 1 .. m : all[i] = IF i = m THEN grown ELSE calls[i]
  <2>1. calls \in Seq(Calls(made)) /\ Len(calls) = m
    BY <1>1 DEF m
  <2> HIDE DEF m
  <2>2. m \in 1 .. Len(calls)
    BY <1>2, <2>1
  <2>3. /\ [calls EXCEPT ![m] = grown] \in Seq(Calls(made))
        /\ Len([calls EXCEPT ![m] = grown]) = Len(calls)
        /\ \A i \in 1 .. Len(calls) : [calls EXCEPT ![m] = grown][i] = IF i = m THEN grown ELSE calls[i]
    BY <1>9, <2>1, <2>2, ExceptSeq
  <2> QED
    BY <1>4, <2>1, <2>3
<1>12. /\ after \in [Nat -> 0 .. Len(tokens)] /\ after[m] = n
       /\ \A i \in Nat : i # m => after[i] = at[i]
  BY <1>1, <1>2
<1> HIDE DEF after
<1>13. ASSUME NEW i \in 1 .. m
       PROVE  Row(Begun(all[i]), after[i - 1], after[i])
  <2>1. i \in Nat /\ i - 1 \in Nat /\ i - 1 # m
    BY <1>2
  <2>2. after[i - 1] = at[i - 1]
    BY <1>12, <2>1
  <2>3. CASE i = m
    BY <1>10, <1>11, <1>12, <2>2, <2>3
  <2>4. CASE i # m
    BY <1>1, <1>11, <1>12, <2>1, <2>2, <2>4 DEF m
  <2> QED
    BY <2>3, <2>4
<1>14. Row(fs, 0, after[0])
  <2>1. 0 \in Nat /\ 0 # m
    BY <1>2
  <2>2. after[0] = at[0]
    BY <1>12, <2>1
  <2> QED
    BY <1>1, <2>2
<1>15. Placed(made, after, fs, all, NoExpr, n)
  BY <1>1, <1>11, <1>12, <1>13, <1>14 DEF Placed
<1> QED
  BY <1>15 DEF after, all, m

LEMMA MinMaxOfTwo ==
  ASSUME NEW a \in Nat, NEW b \in Nat, a <= b
  PROVE  Min({a, b}) = a /\ Max({a, b}) = b
<1>1. \E x \in {a, b} : \A y \in {a, b} : x <= y
  OBVIOUS
<1>2. \E x \in {a, b} : \A y \in {a, b} : x >= y
  OBVIOUS
<1>3. Min({a, b}) \in {a, b} /\ \A y \in {a, b} : Min({a, b}) <= y
  BY <1>1 DEF Min
<1>4. Max({a, b}) \in {a, b} /\ \A y \in {a, b} : Max({a, b}) >= y
  BY <1>2 DEF Max
<1> QED
  BY <1>3, <1>4

\* What is returned to a quote is what it quotes: the quote ends where it ends.
LEMMA QuotePlaced ==
  ASSUME LexInv, NEW made, NEW at, NEW fs, NEW calls, NEW x, NEW n,
         Placed(made, at, fs, calls, x, n), x # NoExpr, calls # <<>>, ~IsList(Last(calls))
  PROVE  LET e == Token(QuoteOf(x), Min({Last(calls).start, x.start}), Max({Last(calls).end, x.end}))
         IN Placed(made \union {e}, at, fs, Front(calls), e, n)
<1> DEFINE call == Last(calls)
           e == Token(QuoteOf(x), Min({call.start, x.start}), Max({call.end, x.end}))
           j == at[Len(calls) - 1]
           k == at[Len(calls)]
<1>1. x \in made /\ Row(<<x>>, k, n) /\ n \in 0 .. Len(tokens)
  BY DEF Placed
<1>2. call \in Calls(made) /\ ~IsList(call)
  BY PlacedAt, TopCall
<1>3. j \in Nat /\ k \in Nat /\ Row(Begun(call), j, k)
  BY TopPlaced
<1> HIDE DEF call, j, k
<1>4. PICK start \in Marked(QuoteMark, made) : call = Token(QuoteOf(NoExpr), start, start + 1)
  <2>1. \A items, start, end : IsList(Token(ListOf(items), start, end))
    BY PartsOfList
  <2> QED
    BY <1>2, <2>1, CallKinds
<1> DEFINE mark == Token(QuoteMark, start, start + 1)
<1>5. /\ start \in Nat /\ mark \in made /\ call.start = start /\ call.end = start + 1
      /\ mark.start = start /\ mark.end = start + 1
  BY <1>4 DEF Marked, Token
<1>6. Begun(call) = <<mark>>
  BY <1>4, PartsOfQuote
<1> HIDE DEF mark
<1>7. start = tokens[j + 1].start /\ start + 1 = tokens[k].end /\ j < k
  BY <1>3, <1>5, <1>6, OneInRow
<1>8. x.start = tokens[k + 1].start /\ x.end = tokens[n].end /\ k < n
  BY <1>1, OneInRow
<1>9. x.start \in Nat /\ x.end \in Nat /\ start + 1 <= x.start /\ x.start < x.end
  <2>1. /\ Len(tokens) \in Nat /\ DOMAIN tokens = 1 .. Len(tokens)
        /\ n \in 1 .. Len(tokens) /\ k + 1 \in 1 .. Len(tokens) /\ k + 1 > 1
        /\ n \in k + 1 .. Len(tokens) /\ (k + 1) - 1 = k
    BY <1>1, <1>3, <1>7, <1>8, TokensKnown
  <2>2. x.start \in Nat /\ x.end \in Nat
    BY <1>8, <2>1, TokensKnown
  <2>3. tokens[(k + 1) - 1].end <= tokens[k + 1].start
    BY <2>1 DEF LexInv, Told, InOrder
  <2>4. tokens[k + 1].start < tokens[n].end
    BY <2>1, TokensInOrder
  <2> QED
    BY <1>7, <1>8, <2>1, <2>2, <2>3, <2>4
<1>10. e = Token(QuoteOf(x), start, x.end)
  <2>1. start \in Nat /\ start + 1 \in Nat /\ start <= x.start /\ start + 1 <= x.end
    BY <1>5, <1>9
  <2>2. Min({start, x.start}) = start
    BY <1>9, <2>1, MinMaxOfTwo
  <2>3. Max({start + 1, x.end}) = x.end
    BY <1>9, <2>1, MinMaxOfTwo
  <2> QED
    BY Zenon, <1>5, <2>2, <2>3
<1> HIDE DEF e
<1>11. PartsOf(e) = Append(<<mark>>, x) /\ e.start = start /\ e.end = x.end
  <2>1. PICK end : end = x.end
    OBVIOUS
  <2>2. e = Token(QuoteOf(x), start, end)
    BY <1>10, <2>1
  <2>3. /\ e.start = start /\ e.end = end
        /\ Begun(e) = <<Token(QuoteMark, start, start + 1)>>
        /\ PartsOf(e) = Append(Begun(e), x)
    BY <2>2, PartsOfQuote
  <2> QED
    BY <2>1, <2>3 DEF mark
<1>12. /\ <<mark>> \in Seq(made) /\ <<mark>> # <<>> /\ <<mark>>[1] = mark
       /\ Row(<<mark>>, j, k)
  BY <1>3, <1>5, <1>6
<1>13. Spelt(e) /\ PartsOf(e) \in Seq(made) /\ Row(<<e>>, j, n)
  BY <1>1, <1>3, <1>5, <1>11, <1>12, Assembled
<1>14. e # NoExpr
  BY <1>10, ExprsStart
<1>15. Placed(made \union {e}, at, fs, Front(calls), e, n)
  BY <1>1, <1>13, <1>14, ReturnPlaced DEF j
<1> QED
  BY <1>15 DEF e, call

\* What is returned to no call is a form.
LEMMA FormPlaced ==
  ASSUME LexInv, NEW made, NEW at, NEW fs, NEW calls, NEW e, NEW n,
         Placed(made, at, fs, calls, e, n), e # NoExpr, calls = <<>>
  PROVE  Placed(made, [at EXCEPT ![0] = n], Append(fs, e), calls, NoExpr, n)
<1> DEFINE after == [at EXCEPT ![0] = n]
           all == Append(fs, e)
<1>1. Len(calls) = 0
  OBVIOUS
<1>2. /\ Closed(made) /\ fs \in Seq(made) /\ calls \in Seq(Calls(made))
      /\ at \in [Nat -> 0 .. Len(tokens)] /\ n \in 0 .. Len(tokens) /\ Row(fs, 0, at[0])
      /\ e \in made /\ Row(<<e>>, at[0], n)
  BY <1>1 DEF Placed
<1>3. after \in [Nat -> 0 .. Len(tokens)] /\ after[0] = n
  BY <1>2
<1>4. at[0] \in Nat
  BY PlacedAt
<1>5. all \in Seq(made) /\ Row(all, 0, n)
  BY <1>2, <1>4, AppendProperties, RowGoesOn
<1> HIDE DEF after, all
<1>6. \A i \in 1 .. Len(calls) : FALSE
  BY <1>1
<1>7. Placed(made, after, all, calls, NoExpr, n)
  BY <1>1, <1>2, <1>3, <1>5, <1>6 DEF Placed
<1> QED
  BY <1>7 DEF after, all

-----------------------------------------------------------------------------
(* The specification.                                                      *)

FormsPlaced == \E made, at : Placed(made, at, forms, stack, returned, cursor)

FormsTold == \E made : Closed(made) /\ forms \in Seq(made) /\ Row(forms, 0, Len(tokens))

FormsInv ==
  /\ MarksAreShort
  /\ parsed = "parsing" => FormsPlaced
  /\ parsed = "ok" => FormsTold

\* A step of the parser that goes on.
LEMMA PlacedNext ==
  ASSUME MarksAreShort, tokens' = tokens, parsed' = "parsing",
         NEW made, NEW at, Placed(made, at, forms', stack', returned', cursor')
  PROVE  FormsInv'
<1>1. Placed(made, at, forms, stack, returned, cursor)'
  BY SameTokens
<1>2. FormsPlaced'
  BY <1>1 DEF FormsPlaced
<1>3. MarksAreShort'
  BY DEF MarksAreShort
<1> QED
  BY <1>2, <1>3 DEF FormsInv

LEMMA StartPlaced ==
  ASSUME LexInv
  PROVE  \E made, at : Placed(made, at, <<>>, <<>>, NoExpr, 0)
<1> DEFINE made == Range(tokens)
           at == [i \in Nat |-> 0]
<1>1. Len(tokens) \in Nat /\ DOMAIN tokens = 1 .. Len(tokens)
  BY TokensKnown
<1>2. \A e \in made : e.kind \in Kinds
  BY <1>1, TokensKnown DEF Range
<1> HIDE DEF made
<1>3. \A e \in made : PartsOf(e) = <<>>
  BY <1>2, PartsOfToken
<1>4. PICK none : none = <<>>
  OBVIOUS
<1>5. none \in Seq(made) /\ none \in Seq(Calls(made)) /\ Len(none) = 0
  BY <1>4
<1>6. Closed(made)
  BY <1>3, <1>4, <1>5 DEF Closed, Spelt, made
<1>7. at \in [Nat -> 0 .. Len(tokens)] /\ at[0] = 0 /\ 0 \in 0 .. Len(tokens)
  BY <1>1
<1>8. \A i \in 1 .. Len(none) : FALSE
  BY <1>5
<1> HIDE DEF at
<1>9. Row(none, 0, 0)
  BY <1>4 DEF Row
<1>10. Placed(made, at, none, none, NoExpr, 0)
  BY <1>5, <1>6, <1>7, <1>8, <1>9 DEF Placed
<1> QED
  BY <1>4, <1>10

\* Every step of the parser keeps what it has made in its place.
LEMMA ParseStepPlaces ==
  ASSUME FrontInv, FormsInv, Parse
  PROVE  FormsInv'
<1>1. /\ LexInv /\ ParseInv /\ MarksAreShort /\ ParseStep /\ lexed = "ok"
      /\ tokens' = tokens /\ Len(tokens') = Len(tokens)
  BY DEF FrontInv, FormsInv, Parse, lexVars
<1>2. /\ Len(tokens) \in Nat /\ cursor \in 0 .. Len(tokens)
      /\ returned # NoExpr => parsed = "parsing"
  BY <1>1, TokensKnown DEF ParseInv, ParseTypes
<1>3. parsed = "parsing" => FormsPlaced
  BY DEF FormsInv
<1>4. MarksAreShort'
  BY <1>1 DEF MarksAreShort
<1>5. CASE StartParse
  <2>1. ~\E i \in DOMAIN tokens : tokens[i].kind = Symbol(<<>>)
    BY <1>1, TokensKnown, MarksDiffer
  <2>2. parsed' = "parsing" /\ ParserIdle /\ UNCHANGED <<cursor, stack, returned, forms>>
    BY <1>1, <1>5, <2>1 DEF StartParse, ParseInv, ParseTypes
  <2>3. cursor' = 0 /\ stack' = <<>> /\ returned' = NoExpr /\ forms' = <<>>
    BY <2>2 DEF ParserIdle
  <2>4. PICK made, at : Placed(made, at, <<>>, <<>>, NoExpr, 0)
    BY <1>1, StartPlaced
  <2>5. Placed(made, at, forms', stack', returned', cursor')
    BY <2>3, <2>4
  <2> QED
    BY <1>1, <2>2, <2>5, PlacedNext
<1>6. CASE ParseAtom
  <2>1. /\ parsed = "parsing" /\ returned = NoExpr /\ cursor < Len(tokens)
        /\ cursor' = cursor + 1 /\ returned' = tokens[cursor + 1]
        /\ UNCHANGED <<stack, forms, parsed>>
    BY <1>6 DEF ParseAtom, Ready, Advance, Return, Upcoming
  <2>2. PICK made, at : Placed(made, at, forms, stack, NoExpr, cursor)
    BY <1>3, <2>1 DEF FormsPlaced
  <2>3. Placed(made, at, forms, stack, tokens[cursor + 1], cursor + 1)
    BY <1>1, <2>1, <2>2, AtomPlaced
  <2>4. Placed(made, at, forms', stack', returned', cursor')
    BY <2>1, <2>3
  <2> QED
    BY <1>1, <2>1, <2>4, PlacedNext
<1>7. CASE ParseQuote \/ ParseOpen
  <2>1. PICK kind : \/ kind = ListOf(<<>>) /\ ParseOpen
                    \/ kind = QuoteOf(NoExpr) /\ ParseQuote
    BY <1>7
  <2>2. /\ parsed = "parsing" /\ returned = NoExpr /\ cursor < Len(tokens)
        /\ cursor' = cursor + 1 /\ stack' = Append(stack, Frame(kind, tokens[cursor + 1]))
        /\ UNCHANGED <<returned, forms, parsed>>
        /\ \/ kind = ListOf(<<>>) /\ tokens[cursor + 1].kind = LParen
           \/ kind = QuoteOf(NoExpr) /\ tokens[cursor + 1].kind = QuoteMark
    BY <2>1 DEF ParseOpen, ParseQuote, AtToken, Ready, Advance, Upcoming
  <2>3. PICK made, at : Placed(made, at, forms, stack, NoExpr, cursor)
    BY <1>3, <2>2 DEF FormsPlaced
  <2>4. PICK after : Placed(made, after, forms, Append(stack, Frame(kind, tokens[cursor + 1])),
                            NoExpr, cursor + 1)
    BY <1>1, <2>2, <2>3, MarkPlaced
  <2>5. Placed(made, after, forms', stack', returned', cursor')
    BY <2>2, <2>4
  <2> QED
    BY <1>1, <2>2, <2>5, PlacedNext
<1>8. CASE ParseClose
  <2>1. /\ parsed = "parsing" /\ returned = NoExpr /\ cursor < Len(tokens)
        /\ tokens[cursor + 1].kind = RParen
    BY <1>8 DEF ParseClose, AtToken, Ready, Upcoming
  <2>2. CASE ~(stack # <<>> /\ IsList(Last(stack)))
    <3>1. parsed' = "error"
      BY <1>8, <2>2 DEF ParseClose, Refuse
    <3> QED
      BY <1>4, <3>1 DEF FormsInv
  <2>3. CASE stack # <<>> /\ IsList(Last(stack))
    <3>1. /\ cursor' = cursor + 1 /\ returned' = [Last(stack) EXCEPT !.end = tokens[cursor + 1].end]
          /\ stack' = Front(stack) /\ UNCHANGED <<forms, parsed>>
      BY <1>8, <2>3 DEF ParseClose, Advance, Return, Upcoming
    <3>2. PICK made, at : Placed(made, at, forms, stack, NoExpr, cursor)
      BY <1>3, <2>1 DEF FormsPlaced
    <3> DEFINE e == [Last(stack) EXCEPT !.end = tokens[cursor + 1].end]
    <3>3. Placed(made \union {e}, at, forms, Front(stack), e, cursor + 1)
      BY <1>1, <2>1, <2>3, <3>2, ListPlaced
    <3>4. Placed(made \union {returned'}, at, forms', stack', returned', cursor')
      BY <3>1, <3>3
    <3> QED
      BY <1>1, <2>1, <3>1, <3>4, PlacedNext
  <2> QED
    BY <2>2, <2>3
<1>9. CASE ReturnToList
  <2>1. /\ returned # NoExpr /\ stack # <<>> /\ IsList(Last(stack))
        /\ stack' = [stack EXCEPT ![Len(stack)].kind.list = Append(@, returned)]
        /\ returned' = NoExpr /\ UNCHANGED <<cursor, forms, parsed>>
    BY <1>9 DEF ReturnToList, Return
  <2>2. PICK made, at : Placed(made, at, forms, stack, returned, cursor)
    BY <1>2, <1>3, <2>1 DEF FormsPlaced
  <2>3. PICK after : Placed(made, after, forms,
                            [stack EXCEPT ![Len(stack)].kind.list = Append(@, returned)],
                            NoExpr, cursor)
    BY <1>1, <2>1, <2>2, ItemPlaced
  <2>4. Placed(made, after, forms', stack', returned', cursor')
    BY <2>1, <2>3
  <2> QED
    BY <1>1, <1>2, <2>1, <2>4, PlacedNext
<1>10. CASE ReturnToQuote
  <2> DEFINE e == Token(QuoteOf(returned), Min({Last(stack).start, returned.start}),
                        Max({Last(stack).end, returned.end}))
  <2>1. /\ returned # NoExpr /\ stack # <<>> /\ ~IsList(Last(stack))
        /\ returned' = e /\ stack' = Front(stack) /\ UNCHANGED <<cursor, forms, parsed>>
    BY <1>10 DEF ReturnToQuote, Return
  <2>2. PICK made, at : Placed(made, at, forms, stack, returned, cursor)
    BY <1>2, <1>3, <2>1 DEF FormsPlaced
  <2>3. Placed(made \union {e}, at, forms, Front(stack), e, cursor)
    BY <1>1, <2>1, <2>2, QuotePlaced
  <2>4. Placed(made \union {returned'}, at, forms', stack', returned', cursor')
    BY <2>1, <2>3
  <2> QED
    BY <1>1, <1>2, <2>1, <2>4, PlacedNext
<1>11. CASE ReturnToProgram
  <2>1. /\ returned # NoExpr /\ stack = <<>> /\ forms' = Append(forms, returned)
        /\ returned' = NoExpr /\ UNCHANGED <<cursor, stack, parsed>>
    BY <1>11 DEF ReturnToProgram, Return
  <2>2. PICK made, at : Placed(made, at, forms, stack, returned, cursor)
    BY <1>2, <1>3, <2>1 DEF FormsPlaced
  <2>3. PICK after : Placed(made, after, Append(forms, returned), stack, NoExpr, cursor)
    BY <1>1, <2>1, <2>2, FormPlaced
  <2>4. Placed(made, after, forms', stack', returned', cursor')
    BY <2>1, <2>3
  <2> QED
    BY <1>1, <1>2, <2>1, <2>4, PlacedNext
<1>12. CASE EndOfTokens
  <2>1. /\ parsed = "parsing" /\ returned = NoExpr /\ cursor = Len(tokens)
        /\ parsed' = (IF stack = <<>> THEN "ok" ELSE "error") /\ forms' = forms
    BY <1>12 DEF EndOfTokens, Ready
  <2>2. ASSUME stack = <<>>
        PROVE  FormsTold'
    <3>1. PICK made, at : Placed(made, at, forms, stack, NoExpr, Len(tokens))
      BY <1>3, <2>1 DEF FormsPlaced
    <3>2. Placed(made, at, forms, stack, NoExpr, Len(tokens)) => at[0] = Len(tokens)
      <4>1. Len(stack) = 0
        BY <2>2
      <4> QED
        BY <4>1 DEF Placed
    <3>3. Closed(made) /\ forms \in Seq(made) /\ Row(forms, 0, Len(tokens))
      BY <3>1, <3>2 DEF Placed
    <3>4. \A es : InARow(es)' <=> InARow(es)
      BY <1>1 DEF InARow
    <3>5. Closed(made)'
      BY <1>1, <3>3, <3>4 DEF Closed, Spelt
    <3>6. Row(forms, 0, Len(tokens))'
      BY <1>1, <2>1, <3>3, <3>4 DEF Row
    <3> QED
      BY <2>1, <3>3, <3>5, <3>6 DEF FormsTold
  <2> QED
    BY <1>4, <2>1, <2>2 DEF FormsInv
<1> QED
  BY <1>1, <1>5, <1>6, <1>7, <1>8, <1>9, <1>10, <1>11, <1>12 DEF ParseStep

\* Expressions that are told are spelt, at any depth.
LEMMA ToldIsSpelt ==
  ASSUME LexInv, FormsTold
  PROVE  /\ forms = <<>> <=> tokens = <<>>
         /\ forms # <<>> => /\ forms[1].start = tokens[1].start
                            /\ Last(forms).end = Last(tokens).end
         /\ InARow(forms)
         /\ \A depth \in 0 .. Len(tokens) : \A e \in Parts[depth] : Spelt(e)
<1>1. PICK made : Closed(made) /\ forms \in Seq(made) /\ Row(forms, 0, Len(tokens))
  BY DEF FormsTold
<1>2. Len(tokens) \in Nat /\ tokens \in Seq(Tokens)
  BY TokensKnown DEF LexInv, LexTypes
<1>3. tokens = <<>> <=> Len(tokens) = 0
  BY <1>2, EmptySeq
<1>4. forms = <<>> <=> tokens = <<>>
  BY <1>1, <1>2, <1>3 DEF Row
<1>5. forms # <<>> => /\ forms[1].start = tokens[1].start
                      /\ Last(forms).end = Last(tokens).end
  BY <1>1 DEF Row, Last
<1>6. InARow(forms)
  <2>1. CASE forms = <<>>
    <3>1. Len(forms) = 0
      BY <2>1
    <3>2. \A i \in 1 .. Len(forms) - 1 : FALSE
      BY <3>1
    <3> QED
      BY <3>2 DEF InARow
  <2>2. CASE forms # <<>>
    BY <1>1, <2>2 DEF Row
  <2> QED
    BY <2>1, <2>2
<1>7. \A es \in Seq(made) : Range(es) \subseteq made
  <2> SUFFICES ASSUME NEW es \in Seq(made), NEW k \in DOMAIN es
               PROVE  es[k] \in made
    BY DEF Range
  <2> QED
    BY LenProperties, ElementOfSeq
<1>8. ASSUME NEW es, es \subseteq made
      PROVE  PartsOfAll(es) \subseteq made
  <2>1. \A e \in es : Range(PartsOf(e)) \subseteq made
    BY <1>1, <1>7, <1>8 DEF Closed
  <2> QED
    BY Zenon, <2>1 DEF PartsOfAll
<1> DEFINE bad == {depth \in Nat : ~(Parts[depth] \subseteq made)}
           k == Min(bad)
<1>9. ASSUME bad # {}
      PROVE  FALSE
  <2> HIDE DEF k
  <2>1. k \in bad /\ \A depth \in bad : k <= depth
    BY <1>9, MinOf DEF k
  <2> HIDE DEF bad
  <2>2. k \in Nat /\ ~(Parts[k] \subseteq made)
    BY <2>1 DEF bad
  <2>3. k # 0
    BY <1>1, <1>7, <2>2, PartsUnfold
  <2>4. k - 1 \in Nat /\ k - 1 < k /\ (k - 1) + 1 = k
    BY <2>2, <2>3
  <2>5. k - 1 \notin bad
    BY <2>1, <2>2, <2>4
  <2>6. Parts[k - 1] \subseteq made
    BY <2>4, <2>5 DEF bad
  <2>7. Parts[k] = PartsOfAll(Parts[k - 1])
    BY <2>4, PartsUnfold
  <2> QED
    BY <1>8, <2>2, <2>6, <2>7
<1>10. \A depth \in Nat : Parts[depth] \subseteq made
  BY <1>9
<1>11. \A depth \in 0 .. Len(tokens) : \A e \in Parts[depth] : Spelt(e)
  BY <1>1, <1>2, <1>10 DEF Closed
<1> QED
  BY <1>4, <1>5, <1>6, <1>11

\* The forms that parse_program returns have all the tokens of any text, in order and
\* with their spans, however many there are and however deep they nest.
THEOREM FormsSpelt == ReadSpec => []FormsAreTheTokens
<1>1. ReadInit => FormsInv
  <2> SUFFICES ASSUME ReadInit
               PROVE  FormsInv
    OBVIOUS
  <2>1. tokens = <<>> /\ parsed = "idle"
    BY DEF ReadInit, LexerFresh, ParserIdle
  <2>2. \A k \in 1 .. Len(tokens) : FALSE
    BY <2>1
  <2> QED
    BY <2>1, <2>2 DEF FormsInv, MarksAreShort
<1>2. FormsInv /\ FrontInv /\ [ReadNext]_frontVars => FormsInv'
  <2> SUFFICES ASSUME FormsInv, FrontInv, [ReadNext]_frontVars
               PROVE  FormsInv'
    OBVIOUS
  <2>1. CASE Lex
    <3>1. LexStep /\ parsed' = parsed /\ LexTypes
      BY <2>1 DEF Lex, parseVars, FrontInv, LexInv
    <3>2. lexed = "reading"
      BY <3>1 DEF LexStep, SkipBlank, SkipComment, LexMark, LexBoolean, LexChar, LexHashError,
         LexNumber, LexSymbolOfDigits, LexSymbol, OpenString, StringByte, StringEscape,
         CloseString, UnterminatedString, EndOfText, At, InString
    <3>3. parsed' = "idle"
      BY <3>1, <3>2 DEF FrontInv, ParseInv, ParseTypes
    <3> QED
      BY <3>1, <3>3, MarksStayShort DEF FormsInv
  <2>2. CASE Parse
    BY <2>2, ParseStepPlaces
  <2>3. CASE Reread
    <3>1. tokens' = <<>> /\ parsed' = "idle"
      BY <2>3 DEF Reread, StartLex, ParserReset
    <3>2. \A k \in 1 .. Len(tokens') : FALSE
      BY <3>1
    <3> QED
      BY <3>1, <3>2 DEF FormsInv, MarksAreShort
  <2>4. CASE UNCHANGED frontVars
    <3>1. UNCHANGED <<tokens, cursor, stack, returned, forms, parsed>>
      BY <2>4 DEF frontVars, lexVars, parseVars
    <3>2. MarksAreShort'
      BY <3>1 DEF FormsInv, MarksAreShort
    <3>3. \A es : InARow(es)' <=> InARow(es)
      BY <3>1 DEF InARow
    <3>4. CASE parsed = "parsing"
      <4>1. PICK made, at : Placed(made, at, forms, stack, returned, cursor)
        BY <3>4 DEF FormsInv, FormsPlaced
      <4>2. Placed(made, at, forms', stack', returned', cursor')
        BY <3>1, <4>1
      <4> QED
        BY <3>1, <3>4, <4>2, PlacedNext DEF FormsInv
    <3>5. CASE parsed = "ok"
      <4>1. PICK made : Closed(made) /\ forms \in Seq(made) /\ Row(forms, 0, Len(tokens))
        BY <3>5 DEF FormsInv, FormsTold
      <4>2. Closed(made)'
        BY <3>1, <3>3, <4>1 DEF Closed, Spelt
      <4>3. Row(forms, 0, Len(tokens))'
        BY <3>1, <3>3, <4>1 DEF Row
      <4> QED
        BY <3>1, <3>2, <3>5, <4>1, <4>2, <4>3 DEF FormsInv, FormsTold
    <3> QED
      BY <3>1, <3>2, <3>4, <3>5 DEF FormsInv
  <2> QED
    BY <2>1, <2>2, <2>3, <2>4 DEF ReadNext
<1>3. FrontInv /\ FormsInv => FormsAreTheTokens
  BY ToldIsSpelt DEF FrontInv, FormsInv, FormsAreTheTokens
<1> QED
  BY <1>1, <1>2, <1>3, Invariance, PTL DEF ReadSpec

=============================================================================
