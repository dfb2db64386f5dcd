------------------------------- MODULE Parser -------------------------------
(***************************************************************************)
(* parser.rs: from tokens to expressions with spans.  The recursion of     *)
(* parse_expr and parse_list is a stack: a frame for each list and each    *)
(* quote that is open, and the expression that a call has just returned.   *)
(***************************************************************************)
EXTENDS Lexer

VARIABLES
  cursor,    \* the tokens taken
  stack,     \* the open calls, the innermost last
  returned,  \* the expression returned, or NoExpr
  forms,     \* the expressions of the program so far
  parsed     \* "idle", "parsing", "ok" or "error"

parseVars == <<cursor, stack, returned, forms, parsed>>

ListOf(es)  == [list |-> es]
QuoteOf(e)  == [quote |-> e]

NoExpr == Token(ListOf(<<>>), 0, 0)

\* An open list, its items so far as its kind; an open quote.
Frame(kind, token) == Token(kind, token.start, token.end)
IsList(frame) == "list" \in DOMAIN frame.kind

ParserIdle ==
  cursor = 0 /\ stack = <<>> /\ returned = NoExpr /\ forms = <<>> /\ parsed = "idle"

ParserReset ==
  /\ cursor' = 0 /\ stack' = <<>> /\ returned' = NoExpr
  /\ forms' = <<>> /\ parsed' = "idle"

\* Parser::new has the tokens, and lex_from_tokens looks for an empty symbol.
StartParse ==
  /\ parsed = "idle"
  /\ parsed' = IF \E i \in DOMAIN tokens : tokens[i].kind = Symbol(<<>>)
               THEN "error" ELSE "parsing"
  /\ UNCHANGED <<cursor, stack, returned, forms>>

-----------------------------------------------------------------------------

\* The token that parse_program, parse_list or parse_expr looks at.
Upcoming == tokens[cursor + 1]

Ready == parsed = "parsing" /\ returned = NoExpr
AtToken(kinds) == Ready /\ cursor < Len(tokens) /\ Upcoming.kind \in kinds

Advance == cursor' = cursor + 1 /\ UNCHANGED <<forms, parsed>>
Return(e) == returned' = e
Refuse == parsed' = "error" /\ UNCHANGED <<cursor, stack, returned, forms>>

ParseAtom ==
  /\ Ready /\ cursor < Len(tokens) /\ "mark" \notin DOMAIN Upcoming.kind
  /\ Advance
  /\ Return(Upcoming)
  /\ UNCHANGED stack

ParseQuote ==
  /\ AtToken({QuoteMark})
  /\ Advance
  /\ stack' = Append(stack, Frame(QuoteOf(NoExpr), Upcoming))
  /\ UNCHANGED returned

ParseOpen ==
  /\ AtToken({LParen})
  /\ Advance
  /\ stack' = Append(stack, Frame(ListOf(<<>>), Upcoming))
  /\ UNCHANGED returned

\* Variant: a list in a list ends both.
ParseCloseAll ==
  /\ AtToken({RParen})
  /\ IF stack # <<>> /\ IsList(Last(stack))
     THEN /\ Advance
          /\ Return([Last(stack) EXCEPT !.end = Upcoming.end])
          /\ stack' = IF Len(stack) > 1 /\ IsList(stack[Len(stack) - 1])
                      THEN SubSeq(stack, 1, Len(stack) - 2) ELSE Front(stack)
     ELSE Refuse

\* The end of the innermost list; no expression starts with it.
ParseClose ==
  /\ AtToken({RParen})
  /\ IF stack # <<>> /\ IsList(Last(stack))
     THEN /\ Advance
          /\ Return([Last(stack) EXCEPT !.end = Upcoming.end])
          /\ stack' = Front(stack)
     ELSE Refuse

\* Variant: what follows a quote in a list is lost.
ReturnToListLate ==
  /\ returned # NoExpr /\ stack # <<>> /\ IsList(Last(stack))
  /\ stack' = [stack EXCEPT ![Len(stack)].kind.list =
                 IF @ # <<>> /\ "quote" \in DOMAIN Last(@).kind THEN @ ELSE Append(@, returned)]
  /\ Return(NoExpr)
  /\ UNCHANGED <<cursor, forms, parsed>>

ReturnToList ==
  /\ returned # NoExpr /\ stack # <<>> /\ IsList(Last(stack))
  /\ stack' = [stack EXCEPT ![Len(stack)].kind.list = Append(@, returned)]
  /\ Return(NoExpr)
  /\ UNCHANGED <<cursor, forms, parsed>>

\* The span of a quote reaches over what it quotes.
ReturnToQuote ==
  /\ returned # NoExpr /\ stack # <<>> /\ ~IsList(Last(stack))
  /\ LET mark == Last(stack) IN
     Return(Token(QuoteOf(returned), Min({mark.start, returned.start}),
                  Max({mark.end, returned.end})))
  /\ stack' = Front(stack)
  /\ UNCHANGED <<cursor, forms, parsed>>

ReturnToProgram ==
  /\ returned # NoExpr /\ stack = <<>>
  /\ forms' = Append(forms, returned)
  /\ Return(NoExpr)
  /\ UNCHANGED <<cursor, stack, parsed>>

\* Variant: an open list goes on looking for its parenthesis.
EndOfTokensWaiting ==
  /\ Ready /\ cursor = Len(tokens)
  /\ parsed' = IF stack = <<>> THEN "ok"
               ELSE IF IsList(Last(stack)) THEN parsed ELSE "error"
  /\ UNCHANGED <<cursor, stack, returned, forms>>

\* parse_program is done, unless a list or a quote is open.
EndOfTokens ==
  /\ Ready /\ cursor = Len(tokens)
  /\ parsed' = IF stack = <<>> THEN "ok" ELSE "error"
  /\ UNCHANGED <<cursor, stack, returned, forms>>

ParseStep ==
  \/ StartParse \/ ParseAtom \/ ParseQuote \/ ParseOpen \/ ParseClose
  \/ ReturnToList \/ ReturnToQuote \/ ReturnToProgram \/ EndOfTokens
=============================================================================
