------------------------------ MODULE FrontEnd ------------------------------
(***************************************************************************)
(* parse_program: a text is lexed to its end, or to the first error, and   *)
(* then its tokens are parsed.  What is not ASCII is left out: a character *)
(* is one byte.                                                            *)
(***************************************************************************)
EXTENDS Parser

frontVars == <<lexVars, parseVars>>

ReadInit == text \in Seq(Characters) /\ LexerFresh /\ ParserIdle

Lex == LexStep /\ UNCHANGED parseVars

Parse == lexed = "ok" /\ ParseStep /\ UNCHANGED lexVars

\* Another text, and a Parser of its own.
Reread ==
  /\ lexed = "error" \/ parsed \in {"ok", "error"}
  /\ text' \in Seq(Characters)
  /\ StartLex(text')
  /\ ParserReset

ReadNext == Lex \/ Parse \/ Reread

ReadSpec == ReadInit /\ [][ReadNext]_frontVars

-----------------------------------------------------------------------------
(* Properties.                                                             *)

Kinds ==
  [integer : MinInteger .. MaxInteger] \union [boolean : BOOLEAN] \union [char : Characters]
  \union [string : Seq(Characters)] \union [symbol : Seq(Characters) \ {<<>>}]
  \union [mark : {"(", ")", "'"}]

Tokens == [kind : Kinds, start : Nat, end : Nat]

\* The tokens have the values of their kinds: an integer fits i64, and no symbol is
\* empty, so that lex_from_tokens never refuses; parsing follows lexing.
TypeOK ==
  /\ text \in Seq(Characters)
  /\ index \in 1 .. Len(text) + 1
  /\ tokens \in Seq(Tokens)
  /\ literal \in [start : Nat, value : Seq(Characters)]
  /\ literal # NoLiteral => literal.start \in 1 .. index - 1
  /\ lexed \in {"reading", "ok", "error"}
  /\ cursor \in 0 .. Len(tokens)
  /\ parsed \in {"idle", "parsing", "ok", "error"}
  /\ parsed # "idle" => lexed = "ok"

Covered(i) == \E k \in DOMAIN tokens : tokens[k].start <= i /\ i < tokens[k].end

\* From j on, up to i, the text is a comment.
Comment(j, i) == text[j] = Semicolon /\ ~Covered(j) /\ \A k \in j .. i - 1 : text[k] # "\n"

Commented(i) == \E j \in 1 .. i : Comment(j, i)

\* The literal that UnterminatedString takes for another.
TakenForAnother(i) ==
  /\ tokens # <<>> /\ "string" \in DOMAIN Last(tokens).kind
  /\ \E j \in Last(tokens).end .. i : text[j] = DoubleQuote

\* The tokens are parts of the text, in order, and leave out blanks and comments
\* and nothing else: where lex takes two strings, a sign and digits, or a name and a
\* comment apart, no character is lost or read twice.  One exception: a literal
\* that does not end is lost if the token before it is a string.
TokensCoverText ==
  lexed = "ok" =>
    /\ \A k \in DOMAIN tokens :
         /\ tokens[k].start < tokens[k].end /\ tokens[k].end <= Len(text) + 1
         /\ k > 1 => tokens[k - 1].end <= tokens[k].start
    /\ \A i \in DOMAIN text :
         /\ Covered(i) => ~Commented(i)
         /\ Covered(i) \/ text[i] \in Blanks \/ Commented(i) \/ TakenForAnother(i)

Marks(mark, count) == Cardinality({k \in 1 .. count : tokens[k].kind = mark})

Balanced ==
  /\ \A count \in DOMAIN tokens : Marks(RParen, count) <= Marks(LParen, count)
  /\ Marks(RParen, Len(tokens)) = Marks(LParen, Len(tokens))
  /\ \A k \in DOMAIN tokens :
       tokens[k].kind = QuoteMark => k < Len(tokens) /\ tokens[k + 1].kind # RParen

\* The parser accepts exactly the tokens whose parentheses match and whose quotes
\* have something to quote.
BalancedIsParsed ==
  /\ parsed = "error" => ~Balanced
  /\ parsed = "ok" => Balanced

\* What a list or a quote begins with: its mark, and the items of a list.
Begun(e) ==
  <<Token(IF IsList(e) THEN LParen ELSE QuoteMark, e.start, e.start + 1)>>
  \o (IF IsList(e) THEN e.kind.list ELSE <<>>)

\* A list ends with a mark of its own, a quote with what it quotes; a token has no
\* parts.
PartsOf(e) ==
  CASE IsList(e)                  -> Append(Begun(e), Token(RParen, e.end - 1, e.end))
    [] "quote" \in DOMAIN e.kind -> Append(Begun(e), e.kind.quote)
    [] OTHER                      -> <<>>

\* The forms, their parts, the parts of these, and so on.
Parts[depth \in Nat] ==
  IF depth = 0 THEN Range(forms) ELSE UNION {Range(PartsOf(e)) : e \in Parts[depth - 1]}

\* Where one of them ends a token ends, and the next token starts the next of them.
InARow(es) ==
  \A i \in 1 .. Len(es) - 1 : \E k \in 1 .. Len(tokens) - 1 :
    tokens[k].end = es[i].end /\ tokens[k + 1].start = es[i + 1].start

Spelt(e) ==
  IF PartsOf(e) = <<>> THEN e \in Range(tokens)
  ELSE InARow(PartsOf(e)) /\ Last(PartsOf(e)).end = e.end

\* What the parser accepts is what it was given: the forms have all the tokens,
\* in order and with the spans they had, however lists and quotes nest.
FormsAreTheTokens ==
  parsed = "ok" =>
    /\ forms = <<>> <=> tokens = <<>>
    /\ forms # <<>> => /\ forms[1].start = tokens[1].start
                       /\ Last(forms).end = Last(tokens).end
    /\ InARow(forms)
    /\ \A depth \in 0 .. Len(tokens) : \A e \in Parts[depth] : Spelt(e)

=============================================================================
