------------------------------ MODULE Lowering ------------------------------
(***************************************************************************)
(* lowering.rs: the derived forms become let, if and begin, with temporary *)
(* names made from a counter that is threaded through the whole program.   *)
(* A result is [e, n]: the lowered form, or Malformed if anything in it is *)
(* refused, and the counter.                                               *)
(***************************************************************************)
EXTENDS Scheme

Gensym(prefix, n) == "__" \o prefix \o "_" \o ToString(n)

\* The node, unless one of its parts was refused.
Node(parts, n, node) ==
  [e |-> IF Malformed \in ToSet(parts) THEN Malformed ELSE node, n |-> n]

\* lower_datum: what is quoted within a datum is a list of the symbol quote.
RECURSIVE LowerDatum(_)
LowerDatum(d) ==
  CASE d.op = "list"  -> List([i \in DOMAIN d.items |-> LowerDatum(d.items[i])])
    [] d.op = "quote" -> List(<<Symbol("quote"), LowerDatum(d.datum)>>)
    [] OTHER          -> d

RECURSIVE Lower(_, _), LowerAll(_, _), LowerJunction(_, _, _), LowerClauses(_, _),
          NestLetrecStar(_, _)

\* Expressions from left to right: [es, n].
LowerAll(es, n) ==
  IF es = <<>> THEN [es |-> <<>>, n |-> n]
  ELSE LET first == Lower(Head(es), n)
           rest  == LowerAll(Tail(es), first.n)
       IN [es |-> <<first.e>> \o rest.es, n |-> rest.n]

LowerBody(es, n) ==
  IF es = <<>> THEN [e |-> Malformed, n |-> n]
  ELSE LET low == LowerAll(es, n) IN
       Node(low.es, low.n, IF Len(es) = 1 THEN low.es[1] ELSE Begin(low.es))

\* let temp = value in (if temp yes no)
Tested(temp, value, yes, no) ==
  LetForm("let", <<Binding(temp, value)>>, If(Var(temp), yes, no))

\* Variant: no temporary, the operand is there twice.
LowerJunctionTwice(and, es, n) ==
  IF es = <<>> THEN [e |-> Const(Truth(and = "and")), n |-> n]
  ELSE LET first == Lower(Head(es), n) IN
       IF Len(es) = 1 THEN first
       ELSE LET rest == LowerJunction(and, Tail(es), first.n) IN
            Node(<<first.e, rest.e>>, rest.n,
                 IF and = "and" THEN If(first.e, rest.e, first.e)
                                ELSE If(first.e, first.e, rest.e))

LowerJunction(and, es, n) ==
  IF es = <<>> THEN [e |-> Const(Truth(and = "and")), n |-> n]
  ELSE LET first == Lower(Head(es), n) IN
       IF Len(es) = 1 THEN first
       ELSE LET temp == Gensym(and, first.n)
                rest == LowerJunction(and, Tail(es), first.n + 1)
            IN Node(<<first.e, rest.e>>, rest.n,
                    IF and = "and" THEN Tested(temp, first.e, rest.e, Var(temp))
                                   ELSE Tested(temp, first.e, Var(temp), rest.e))

LowerWhen(e, n) ==
  LET test == Lower(e.test, n)
      body == LowerBody(e.exprs, test.n)
      none == Const(Unspecified)
  IN Node(<<test.e, body.e>>, body.n,
          IF e.op = "when" THEN If(test.e, body.e, none) ELSE If(test.e, none, body.e))

\* What a clause does when its test holds, the test being in temp.
LowerConsequent(clause, temp, n) ==
  CASE clause.exprs = <<>> /\ ~clause.arrow -> [e |-> Var(temp), n |-> n]
    [] clause.arrow /\ Len(clause.exprs) # 1 -> [e |-> Malformed, n |-> n]
    [] clause.arrow /\ Len(clause.exprs) = 1 ->
         LET recipient == Lower(clause.exprs[1], n) IN
         Node(<<recipient.e>>, recipient.n, Call(recipient.e, <<Var(temp)>>))
    [] clause.exprs # <<>> /\ ~clause.arrow -> LowerBody(clause.exprs, n)

LowerClauses(clauses, n) ==
  IF clauses = <<>> THEN [e |-> Const(Unspecified), n |-> n]
  ELSE LET clause == Head(clauses) rest == Tail(clauses) IN
       IF clause.test = Else
       THEN IF rest # <<>> THEN [e |-> Malformed, n |-> n]
            ELSE LowerBody(clause.exprs, n)
       ELSE LET test == Lower(clause.test, n)
                temp == Gensym("cond", test.n)
                no   == LowerClauses(rest, test.n + 1)
                yes  == LowerConsequent(clause, temp, no.n)
            IN Node(<<test.e, no.e, yes.e>>, yes.n, Tested(temp, test.e, yes.e, no.e))

NestLetrecStar(bs, body) ==
  IF bs = <<>> THEN body
  ELSE LetForm("letrec", <<Head(bs)>>, NestLetrecStar(Tail(bs), body))

LowerLet(e, n) ==
  LET inits == LowerAll(Values(e.bindings), n)
      body  == Lower(e.body, inits.n)
      bs    == [i \in DOMAIN inits.es |-> Binding(e.bindings[i].name, inits.es[i])]
  IN Node(Append(inits.es, body.e), body.n,
          IF e.op = "letrec*" THEN NestLetrecStar(bs, body.e)
          ELSE LetForm(e.op, bs, body.e))

Lower(e, n) ==
  CASE e.op \in {"const", "string", "var", "malformed"} -> [e |-> e, n |-> n]
    [] e.op = "quote" -> [e |-> Quote(LowerDatum(e.datum)), n |-> n]
    [] e.op = "set" -> LET value == Lower(e.value, n) IN
         Node(<<value.e>>, value.n, Assign(e.name, value.e))
    [] e.op = "begin" -> LET all == LowerAll(e.exprs, n) IN
         Node(all.es, all.n, Begin(all.es))
    [] e.op = "if" -> LET all == LowerAll(<<e.test, e.yes, e.no>>, n) IN
         Node(all.es, all.n, If(all.es[1], all.es[2], all.es[3]))
    [] e.op = "lambda" -> LET body == Lower(e.body, n) IN
         Node(<<body.e>>, body.n, Lambda(e.params, body.e))
    [] e.op = "call" -> LET all == LowerAll(<<e.callee>> \o e.args, n) IN
         Node(all.es, all.n, Call(all.es[1], Tail(all.es)))
    [] e.op \in LetFlavors         -> LowerLet(e, n)
    [] e.op \in {"and", "or"}      -> LowerJunction(e.op, e.exprs, n)
    [] e.op \in {"when", "unless"} -> LowerWhen(e, n)
    [] e.op = "cond"               -> LowerClauses(e.clauses, n)

\* lower_program: [items, ok], one counter for the whole program.
LowerProgram(program) ==
  LET bodies == LowerAll([i \in DOMAIN program |-> program[i].body], 0).es IN
  [ok |-> Malformed \notin ToSet(bodies),
   items |-> [i \in DOMAIN program |-> [program[i] EXCEPT !.body = bodies[i]]]]
=============================================================================
