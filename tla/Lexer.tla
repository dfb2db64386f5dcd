------------------------------- MODULE Lexer -------------------------------
(***************************************************************************)
(* lexer.rs: one step for each round of lex's loop, and of the loop over a *)
(* string literal.  A text is a sequence of characters; positions count    *)
(* from 1, and the end of a span is the position after it.  Blanks are     *)
(* " " and "\n"; the letters of an escape and of a name count, other       *)
(* characters stand for all of their kind.                                 *)
(***************************************************************************)
EXTENDS TaggedValue, Sequences, FiniteSetsExt, SequencesExt

CONSTANT CodePoints   \* the characters, in the order of their codes

Characters == Range(CodePoints)

VARIABLES
  text,     \* what is read
  index,    \* the position of the next character
  tokens,   \* the tokens so far
  literal,  \* the string literal that is being read, or NoLiteral
  lexed     \* "reading", "ok" or "error"

lexVars == <<text, index, tokens, literal, lexed>>

\* Kinds of tokens and data.
Integer(n) == [integer |-> n]
Boolean(b) == [boolean |-> b]
Char(c)    == [char |-> c]
String(cs) == [string |-> cs]
Symbol(cs) == [symbol |-> cs]
LParen     == [mark |-> "("]
RParen     == [mark |-> ")"]
QuoteMark  == [mark |-> "'"]

Token(kind, start, end) == [kind |-> kind, start |-> start, end |-> end]

NoLiteral == [start |-> 0, value |-> <<>>]

Semicolon   == ";"
DoubleQuote == "\""

Blanks == {" ", "\n"}
Digits == {"0", "1"}

Escapes == [c \in {DoubleQuote, "\\", "n"} |-> IF c = "n" THEN "\n" ELSE c]

CharNames == [c \in {" ", "\n"} |->
  IF c = " " THEN <<"s", "p", "a", "c", "e">> ELSE <<"n", "e", "w", "l", "i", "n", "e">>]

\* What an escape or a name stands for is a character.
ASSUME CharactersAssumption == {DoubleQuote, "\\", "\n", " "} \subseteq Characters

Delimiters == Blanks \union {"(", ")", Semicolon, "'", DoubleQuote}

\* The first position from i on with a character of stops, or one that is no
\* digit; if there is none, the end of the text.
EndOf(i, stops) == Min({j \in i .. Len(text) : text[j] \in stops} \union {Len(text) + 1})
EndOfDigits(i) == Min({j \in i .. Len(text) : text[j] \notin Digits} \union {Len(text) + 1})

\* The number that digits with a sign before them stand for.
NumberOf(cs) ==
  LET magnitude == FoldLeft(LAMBDA n, c : 10 * n + (IF c = "1" THEN 1 ELSE 0), 0,
                            SelectSeq(cs, LAMBDA c : c \in Digits))
  IN IF cs[1] = "-" THEN -magnitude ELSE magnitude

LexerFresh == index = 1 /\ tokens = <<>> /\ literal = NoLiteral /\ lexed = "reading"

StartLex(t) ==
  /\ text' = t
  /\ index' = 1
  /\ tokens' = <<>>
  /\ literal' = NoLiteral
  /\ lexed' = "reading"

-----------------------------------------------------------------------------

\* Between tokens, at a character of a set.
At(cs) ==
  /\ lexed = "reading" /\ literal = NoLiteral
  /\ index <= Len(text) /\ text[index] \in cs

Fail == lexed' = "error" /\ UNCHANGED <<text, index, tokens, literal>>

Skip(to) == index' = to /\ UNCHANGED <<text, tokens, literal, lexed>>

Emit(kind, end) ==
  /\ tokens' = Append(tokens, Token(kind, index, end))
  /\ index' = end
  /\ UNCHANGED <<text, literal, lexed>>

SkipBlank == At(Blanks) /\ Skip(index + 1)

\* Variant: the last character of a comment is read as what follows it.
SkipCommentShort ==
  At({Semicolon}) /\ Skip(IF index < Len(text) THEN EndOf(index + 1, {"\n"}) - 1
                                         ELSE index + 1)

SkipComment == At({Semicolon}) /\ Skip(EndOf(index, {"\n"}))

LexMark ==
  \E mark \in {LParen, RParen, QuoteMark} : At({mark.mark}) /\ Emit(mark, index + 1)

LexBoolean ==
  /\ At({"#"}) /\ index < Len(text) /\ text[index + 1] \in {"t", "f"}
  /\ Emit(Boolean(text[index + 1] = "t"), index + 2)

\* A character by its name or itself, up to a delimiter, which cannot be one.
LexChar ==
  /\ At({"#"}) /\ index < Len(text) /\ text[index + 1] = "\\"
  /\ LET end  == EndOf(index + 2, Delimiters)
         name == SubSeq(text, index + 2, end - 1)
     IN \/ \E c \in DOMAIN CharNames : name = CharNames[c] /\ Emit(Char(c), end)
        \/ Len(name) = 1 /\ Emit(Char(name[1]), end)
        \/ Len(name) # 1 /\ name \notin Range(CharNames) /\ Fail

LexHashError ==
  /\ At({"#"})
  /\ index < Len(text) => text[index + 1] \notin {"t", "f", "\\"}
  /\ Fail

\* Variant: no test for the range.
LexNumberUnchecked ==
  /\ At(Digits \union {"-"})
  /\ LET first == IF text[index] = "-" THEN index + 1 ELSE index
         end   == EndOfDigits(first)
     IN /\ end > first
        /\ end <= Len(text) => text[end] \in Delimiters
        /\ Emit(Integer(NumberOf(SubSeq(text, index, end - 1))), end)

\* A number, if digits reach to a delimiter, and else a symbol.
LexNumber ==
  /\ At(Digits \union {"-"})
  /\ LET first == IF text[index] = "-" THEN index + 1 ELSE index
         end   == EndOfDigits(first)
         n     == NumberOf(SubSeq(text, index, end - 1))
     IN /\ end > first
        /\ end <= Len(text) => text[end] \in Delimiters
        /\ IF n \in MinInteger .. MaxInteger THEN Emit(Integer(n), end) ELSE Fail

LexSymbolOfDigits ==
  /\ At(Digits \union {"-"})
  /\ LET first == IF text[index] = "-" THEN index + 1 ELSE index
         digits == EndOfDigits(first)
         end   == EndOf(index, Delimiters)
     IN /\ digits > first => digits <= Len(text) /\ text[digits] \notin Delimiters
        /\ Emit(Symbol(SubSeq(text, index, end - 1)), end)

LexSymbol ==
  /\ lexed = "reading" /\ literal = NoLiteral /\ index <= Len(text)
  /\ text[index] \notin Blanks \union Digits \union {"(", ")", "'", Semicolon, "#", DoubleQuote, "-"}
  /\ LET end == EndOf(index, Delimiters)
     IN Emit(Symbol(SubSeq(text, index, end - 1)), end)

OpenString ==
  /\ At({DoubleQuote})
  /\ literal' = [start |-> index, value |-> <<>>]
  /\ index' = index + 1
  /\ UNCHANGED <<text, tokens, lexed>>

-----------------------------------------------------------------------------
(* Within a string literal.                                                *)

InString == lexed = "reading" /\ literal # NoLiteral

Add(c, to) ==
  /\ literal' = [literal EXCEPT !.value = Append(@, c)]
  /\ index' = to
  /\ UNCHANGED <<text, tokens, lexed>>

StringByte ==
  /\ InString /\ index <= Len(text) /\ text[index] \notin {DoubleQuote, "\\"}
  /\ Add(text[index], index + 1)

StringEscape ==
  /\ InString /\ index <= Len(text) /\ text[index] = "\\"
  /\ IF index < Len(text) /\ text[index + 1] \in DOMAIN Escapes
     THEN Add(Escapes[text[index + 1]], index + 2)
     ELSE Fail

CloseString ==
  /\ InString /\ index <= Len(text) /\ text[index] = DoubleQuote
  /\ tokens' = Append(tokens, Token(String(literal.value), literal.start, index + 1))
  /\ index' = index + 1
  /\ literal' = NoLiteral
  /\ UNCHANGED <<text, lexed>>

\* The literal does not end.  lex looks for it at the end of the tokens, and
\* takes any string that it finds there for this one.
UnterminatedString ==
  /\ InString /\ index > Len(text)
  /\ IF tokens # <<>> /\ "string" \in DOMAIN Last(tokens).kind
     THEN literal' = NoLiteral /\ UNCHANGED <<text, index, tokens, lexed>>
     ELSE Fail

EndOfText ==
  /\ lexed = "reading" /\ literal = NoLiteral /\ index > Len(text)
  /\ lexed' = "ok"
  /\ UNCHANGED <<text, index, tokens, literal>>

LexStep ==
  \/ SkipBlank \/ SkipComment \/ LexMark \/ LexBoolean \/ LexChar \/ LexHashError
  \/ LexNumber \/ LexSymbolOfDigits \/ LexSymbol \/ OpenString
  \/ StringByte \/ StringEscape \/ CloseString \/ UnterminatedString \/ EndOfText
=============================================================================
