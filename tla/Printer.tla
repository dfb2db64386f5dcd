------------------------------ MODULE Printer ------------------------------
(***************************************************************************)
(* The values that compile_quote makes of data, and write of abi.rs on them. *)
(***************************************************************************)
EXTENDS FrontEnd

RECURSIVE Decimal(_)
Decimal(n) ==
  IF n < 0 THEN <<"-">> \o Decimal(-n)
  ELSE (IF n < 10 THEN <<>> ELSE Decimal(n \div 10)) \o <<IF n % 10 = 1 THEN "1" ELSE "0">>

Spelled(c) == IF c \in DOMAIN CharNames THEN CharNames[c] ELSE <<c>>

\* Texts with a separator between them.
Joined(texts, separator) ==
  IF texts = <<>> THEN <<>>
  ELSE FoldLeft(LAMBDA all, t : all \o separator \o t, Head(texts), Tail(texts))

Parenthesised(texts) == <<"(">> \o Joined(texts, <<" ">>) \o <<")">>

-----------------------------------------------------------------------------
(* The values of data.                                                     *)

\* lower_datum: data have no spans, and what is quoted is a list.
RECURSIVE DatumOf(_)
DatumOf(e) ==
  CASE "list" \in DOMAIN e.kind  ->
         ListOf([i \in DOMAIN e.kind.list |-> DatumOf(e.kind.list[i])])
    [] "quote" \in DOMAIN e.kind ->
         ListOf(<<Symbol(<<"q", "u", "o", "t", "e">>), DatumOf(e.kind.quote)>>)
    [] OTHER -> e.kind

CodeOf(c) == CHOOSE i \in DOMAIN CodePoints : CodePoints[i] = c

Immediate(word) == [word |-> word]

\* The data whose integers const_fixnum_checked takes.
RECURSIVE Representable(_)
Representable(d) ==
  /\ "integer" \in DOMAIN d => EncodesFixnum(d.integer)
  /\ "list" \in DOMAIN d => \A i \in DOMAIN d.list : Representable(d.list[i])

\* The word of a datum, or the object it refers to.
RECURSIVE ValueOf(_)
ValueOf(d) ==
  CASE "integer" \in DOMAIN d -> Immediate(Tagged(d.integer))
    [] "boolean" \in DOMAIN d -> Immediate(EncodeBool(d.boolean))
    [] "char" \in DOMAIN d    -> Immediate(EncodeChar(CodeOf(d.char)))
    [] "list" \in DOMAIN d    ->
         IF d.list = <<>> THEN Immediate(EmptyList)
         ELSE ListOf([i \in DOMAIN d.list |-> ValueOf(d.list[i])])
    [] OTHER                  -> d

-----------------------------------------------------------------------------

\* decode_fixnum, or decode_immediate.
WriteImmediate(word) ==
  CASE IsFixnum(word)     -> Decimal(DecodeFixnum(word))
    [] IsChar(word)       -> <<"#", "\\">> \o Spelled(CodePoints[DecodeChar(word)])
    [] word = BoolFalse   -> <<"#", "f">>
    [] word = BoolTrue    -> <<"#", "t">>
    [] word = EmptyList   -> <<"(", ")">>

\* Variant: strings are never quoted.
RECURSIVE WriteValueBare(_, _)
WriteValueBare(v, quoted) ==
  CASE "word" \in DOMAIN v   -> WriteImmediate(v.word)
    [] "symbol" \in DOMAIN v -> v.symbol
    [] "string" \in DOMAIN v -> v.string
    [] "list" \in DOMAIN v   ->
         Parenthesised([i \in DOMAIN v.list |-> WriteValueBare(v.list[i], FALSE)])

\* write_value, and display_pair for the elements of a list.
RECURSIVE WriteValue(_, _)
WriteValue(v, quoted) ==
  CASE "word" \in DOMAIN v   -> WriteImmediate(v.word)
    [] "symbol" \in DOMAIN v -> v.symbol
    [] "string" \in DOMAIN v -> IF quoted THEN <<"\"">> \o v.string \o <<"\"">> ELSE v.string
    [] "list" \in DOMAIN v   ->
         Parenthesised([i \in DOMAIN v.list |-> WriteValue(v.list[i], FALSE)])

\* write_scheme_value, and write_pair for the elements of a list.
WriteSchemeValue(v) ==
  IF "list" \in DOMAIN v
  THEN Parenthesised([i \in DOMAIN v.list |-> WriteValue(v.list[i], TRUE)])
  ELSE WriteValue(v, TRUE)
=============================================================================
