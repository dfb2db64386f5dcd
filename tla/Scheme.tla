------------------------------- MODULE Scheme -------------------------------
(***************************************************************************)
(* Programs as the parser delivers them, and what they mean.               *)
(*                                                                         *)
(* The constructors stand for ast.rs with the special forms recognised     *)
(* and for hir.rs, which keeps the core ones.  Meaning is the reference:   *)
(* the semantics of R7RS, which docs/runtime.md:3 names as the target,     *)
(* with one location per variable.                                         *)
(***************************************************************************)
EXTENDS Integers, Sequences, SequencesExt, TLC

CONSTANT Depth   \* bound: procedure calls of one run

ASSUME DepthAssumption == Depth \in Nat

Const(v)       == [op |-> "const", value |-> v]
Text(s)        == [op |-> "string", text |-> s]   \* s is a sequence of bytes
Var(x)         == [op |-> "var", name |-> x]
Assign(x, e)   == [op |-> "set", name |-> x, value |-> e]
Begin(es)      == [op |-> "begin", exprs |-> es]
If(c, t, e)    == [op |-> "if", test |-> c, yes |-> t, no |-> e]
Lambda(ps, e)  == [op |-> "lambda", params |-> ps, body |-> e]
Call(f, es)    == [op |-> "call", callee |-> f, args |-> es]
Binding(x, e)  == [name |-> x, value |-> e]
\* flavor: "let", "let*", "letrec", and "letrec*", which is not in the HIR.
LetForm(flavor, bs, e) == [op |-> flavor, bindings |-> bs, body |-> e]
\* A datum is a constant, a text, a symbol, a list, or a datum quoted once more.
Quote(d)       == [op |-> "quote", datum |-> d]
Symbol(s)      == [op |-> "symbol", text |-> s]
List(ds)       == [op |-> "list", items |-> ds]

\* The derived forms.  A clause of cond is a test, an arrow or none, a body.
Junction(and, es)  == [op |-> and, exprs |-> es]
When(when, c, es)  == [op |-> when, test |-> c, exprs |-> es]
Clause(c, arrow, es) == [test |-> c, arrow |-> arrow, exprs |-> es]
Cond(clauses)      == [op |-> "cond", clauses |-> clauses]
Else               == [op |-> "else"]
Malformed          == [op |-> "malformed"]   \* a form lowering refuses

Define(x, e)         == [item |-> "define", name |-> x, body |-> e]
Procedure(f, ps, e)  == [item |-> "procedure", name |-> f, params |-> ps, body |-> e]
Expression(e)        == [item |-> "expression", body |-> e]

LetFlavors == {"let", "let*", "letrec", "letrec*"}

Names(bs)  == [i \in DOMAIN bs |-> bs[i].name]
Values(bs) == [i \in DOMAIN bs |-> bs[i].value]

\* env with names bound to vals.  The names of one form are distinct.
Extend(env, names, vals) ==
  [x \in ToSet(names) |-> vals[CHOOSE i \in DOMAIN names : names[i] = x]] @@ env

Nothing == [x \in {} |-> 0]

-----------------------------------------------------------------------------
(* Values and the machine they live in: a heap that only grows, what was   *)
(* displayed, and the calls left.                                          *)

Imm(c)    == [imm |-> c]
Fixnum(n) == [int |-> n]
Ref(a)    == [ref |-> a]
Wrong(why) == [wrong |-> why]   \* not a value: the run went wrong

IsRef(v)    == "ref" \in DOMAIN v
IsFixnum(v) == "int" \in DOMAIN v
IsWrong(v)  == "wrong" \in DOMAIN v

False       == Imm("#f")
True        == Imm("#t")
EmptyList   == Imm("()")
Unspecified == Imm("unspecified")
Truth(b)    == IF b THEN True ELSE False
Letters     == {Imm("#\\a"), Imm("#\\b")}

Machine == [heap |-> <<>>, out |-> <<>>, left |-> Depth, code |-> Nothing]

Done(v, m) == [v |-> v, m |-> m]

\* The result r, and then K of it unless it went wrong.
Then(r, K(_)) == IF IsWrong(r.v) THEN r ELSE K(r)

New(m, object) == [m EXCEPT !.heap = Append(@, object)]
Allocated(object, m) == Done(Ref(Len(m.heap) + 1), New(m, object))

HasKind(v, kind, m) == IsRef(v) /\ m.heap[v.ref].kind = kind

Pair(a, d)   == [kind |-> "pair", fields |-> <<a, d>>]
Vector(vs)   == [kind |-> "vector", fields |-> vs]
String(s)    == [kind |-> "string", text |-> s]
SymbolNamed(s) == [kind |-> "symbol", text |-> s]
Cell(v)      == [kind |-> "box", value |-> v]

\* What one sees of a value.
RECURSIVE Show(_, _)
Show(v, m) ==
  IF IsFixnum(v) THEN <<ToString(v.int)>>
  ELSE IF ~IsRef(v) THEN <<v.imm>>
  ELSE LET object == m.heap[v.ref] IN
       IF object.kind \in {"pair", "vector"}
       THEN <<object.kind>>
            \o FlattenSeq([i \in DOMAIN object.fields |-> Show(object.fields[i], m)])
            \o <<"end">>
       ELSE IF object.kind \in {"string", "symbol"}
       THEN <<object.kind, ToString(object.text)>> ELSE <<object.kind>>

\* The list of vs before the end tail, built from the right.
Consed(vs, tail, m) ==
  FoldRight(LAMBDA v, r : Allocated(Pair(v, r.v), r.m), vs, Done(tail, m))

\* v, its cdr, and so on to what is not a pair.
RECURSIVE Tails(_, _)
Tails(v, m) ==
  <<v>> \o (IF HasKind(v, "pair", m) THEN Tails(m.heap[v.ref].fields[2], m) ELSE <<>>)

IsList(v, m) == Last(Tails(v, m)) = EmptyList

Cars(v, m) == LET pairs == Front(Tails(v, m)) IN
  [i \in DOMAIN pairs |-> m.heap[pairs[i].ref].fields[1]]

\* One fresh cell for each of vs, the first of them at Len(m.heap) + 1.
Cells(vs, m) == [m EXCEPT !.heap = @ \o [i \in DOMAIN vs |-> Cell(vs[i])]]
CellRefs(vs, m) == [i \in DOMAIN vs |-> Len(m.heap) + i]

-----------------------------------------------------------------------------
(* The reference.  An environment takes a name to the location of its cell.*)

\* The number of arguments a builtin takes, and of those it needs if it takes any.
Arity ==
  [p \in {"newline"} |-> 0]
  @@ [p \in {"car", "cdr", "vector-length", "string-length", "length", "not", "pair?", "null?",
             "list?", "vector?", "string?", "symbol?", "char?", "boolean?", "procedure?",
             "zero?", "display", "write", "gc-stress"} |-> 1]
  @@ [p \in {"cons", "eq?", "eqv?", "vector-ref", "string-ref", "list-tail", "list-ref"} |-> 2]
  @@ [p \in {"vector-set!"} |-> 3]

AtLeast == [p \in {"+", "*", "vector", "list", "append"} |-> 0] @@ [p \in {"-"} |-> 1]
           @@ [p \in {"/"} |-> 2]

Builtins == DOMAIN Arity \union DOMAIN AtLeast

Takes(p, count) == IF p \in DOMAIN Arity THEN count = Arity[p] ELSE count >= AtLeast[p]

KindOfPredicate ==
  ("pair?" :> "pair") @@ ("vector?" :> "vector") @@ ("string?" :> "string")
  @@ ("symbol?" :> "symbol") @@ ("procedure?" :> "procedure")

Numeric == {"+", "-", "*", "/"}

\* Division that rounds towards zero.
Quotient(a, b) ==
  LET abs(n) == IF n < 0 THEN -n ELSE n
      q == abs(a) \div abs(b)
  IN IF (a < 0) = (b < 0) THEN q ELSE -q

\* The fixnums vs from the left; - of one is its negation.
Arithmetic(p, vs) ==
  LET ns   == [i \in DOMAIN vs |-> vs[i].int]
      unit == IF p \in {"+", "-"} THEN 0 ELSE 1
      all  == IF p \in {"-", "/"} /\ Len(ns) > 1 THEN ns ELSE <<unit>> \o ns
      step(a, b) == CASE p = "+" -> a + b [] p = "-" -> a - b
                      [] p = "*" -> a * b [] p = "/" -> Quotient(a, b)
  IN Fixnum(FoldLeft(step, Head(all), Tail(all)))

\* The quotient of integers is one: all that fixnums can say of it.
Divides(vs) ==
  /\ Fixnum(0) \notin ToSet(Tail(vs))
  /\ vs[1] = Arithmetic("*", <<Arithmetic("/", vs)>> \o Tail(vs))

\* Symbols are the same if their names are.
Same(a, b, m) ==
  \/ a = b
  \/ HasKind(a, "symbol", m) /\ HasKind(b, "symbol", m) /\ m.heap[a.ref] = m.heap[b.ref]

Require(condition, r, m) == IF condition THEN r ELSE Done(Wrong("argument"), m)

\* Where the element at index of object lies, and whether there is one.
InRange(v, kind, index, m) ==
  /\ HasKind(v, kind, m) /\ IsFixnum(index)
  /\ index.int + 1 \in DOMAIN (IF kind = "string" THEN m.heap[v.ref].text
                                                  ELSE m.heap[v.ref].fields)

InList(v, index, m, above) ==
  IsFixnum(index) /\ index.int \in 0 .. Len(Tails(v, m)) - above

AppendTwo(left, right, m) ==
  Require(IsList(left, m), Consed(Cars(left, m), right, m), m)

\* What p makes of vs, where v is the first of them.
OnList(p, v, vs, m) ==
  CASE p = "cons"   -> Allocated(Pair(v, vs[2]), m)
    [] p = "list"   -> Consed(vs, EmptyList, m)
    [] p = "append" ->
         IF vs = <<>> THEN Done(EmptyList, m)
         ELSE FoldRight(LAMBDA left, r : Then(r, LAMBDA right : AppendTwo(left, right.v, right.m)),
                        Front(vs), Done(Last(vs), m))
    [] p \in {"car", "cdr"} ->
         Require(HasKind(v, "pair", m),
                 Done(m.heap[v.ref].fields[IF p = "car" THEN 1 ELSE 2], m), m)
    [] p = "length" -> Require(IsList(v, m), Done(Fixnum(Len(Tails(v, m)) - 1), m), m)
    [] p = "list-tail" ->
         Require(InList(v, vs[2], m, 1), Done(Tails(v, m)[vs[2].int + 1], m), m)
    [] p = "list-ref" -> Require(InList(v, vs[2], m, 2), Done(Cars(v, m)[vs[2].int + 1], m), m)

OnIndexed(p, v, vs, m) ==
  CASE p = "vector" -> Allocated(Vector(vs), m)
    [] p = "vector-length" ->
         Require(HasKind(v, "vector", m), Done(Fixnum(Len(m.heap[v.ref].fields)), m), m)
    [] p = "string-length" ->
         Require(HasKind(v, "string", m), Done(Fixnum(Len(m.heap[v.ref].text)), m), m)
    [] p = "vector-ref" ->
         Require(InRange(v, "vector", vs[2], m),
                 Done(m.heap[v.ref].fields[vs[2].int + 1], m), m)
    [] p = "string-ref" ->   \* the byte there, as the tests have it (abi.rs:1080)
         Require(InRange(v, "string", vs[2], m),
                 Done(Fixnum(m.heap[v.ref].text[vs[2].int + 1]), m), m)
    [] p = "vector-set!" ->
         Require(InRange(v, "vector", vs[2], m),
                 Done(Unspecified, [m EXCEPT !.heap[v.ref].fields[vs[2].int + 1] = vs[3]]), m)

Test(p, v, vs, m) ==
  CASE p \in {"eq?", "eqv?"} -> Same(v, vs[2], m)
    [] p = "not"      -> v = False
    [] p = "null?"    -> v = EmptyList
    [] p = "boolean?" -> v \in {False, True}
    [] p = "char?"    -> v \in Letters
    [] p = "list?"    -> IsList(v, m)
    [] p \in DOMAIN KindOfPredicate -> HasKind(v, KindOfPredicate[p], m)

Tests == {"eq?", "eqv?", "not", "null?", "boolean?", "char?", "list?"} \union DOMAIN KindOfPredicate

Lists == {"cons", "list", "append", "car", "cdr", "length", "list-tail", "list-ref"}

Primitive(p, vs, m) ==
  LET v == IF vs = <<>> THEN Unspecified ELSE vs[1]
      fixnums == \A i \in DOMAIN vs : IsFixnum(vs[i])
  IN CASE p \in Lists   -> OnList(p, v, vs, m)
       [] p \in Tests   -> Done(Truth(Test(p, v, vs, m)), m)
       [] p \in Numeric -> Require(fixnums /\ (p = "/" => Divides(vs)),
                                   Done(Arithmetic(p, vs), m), m)
       [] p = "zero?"     -> Require(fixnums, Done(Truth(v.int = 0), m), m)
       [] p = "gc-stress" -> Require(fixnums, Done(Unspecified, m), m)
       [] p = "newline"   -> Done(Unspecified, [m EXCEPT !.out = Append(@, p)])
       [] p \in {"display", "write"} ->
            Done(Unspecified, [m EXCEPT !.out = @ \o <<p>> \o Show(v, m)])
       [] OTHER -> OnIndexed(p, v, vs, m)

\* What a variable holds before its initialiser has run.
Unassigned == Imm("unassigned")

RECURSIVE Eval(_, _, _), EvalAll(_, _, _), EvalJunction(_, _, _, _),
          EvalCond(_, _, _), Apply(_, _, _), Represent(_, _)

EvalBody(es, env, m) == Eval(IF Len(es) = 1 THEN es[1] ELSE Begin(es), env, m)

\* Expressions from left to right: their values in vs.
EvalAll(es, env, m) ==
  IF es = <<>> THEN [v |-> Unspecified, vs |-> <<>>, m |-> m]
  ELSE LET first == Eval(Head(es), env, m) IN
       IF IsWrong(first.v) THEN [v |-> first.v, vs |-> <<>>, m |-> first.m]
       ELSE LET rest == EvalAll(Tail(es), env, first.m) IN
            [v  |-> IF Len(es) = 1 THEN first.v ELSE rest.v,
             vs |-> <<first.v>> \o rest.vs,
             m  |-> rest.m]

\* R7RS leaves the order of operands open; list and append take the last first.
FromRight == {"list", "append"}

EvalOperands(p, es, env, m) ==
  IF p \notin FromRight THEN EvalAll(es, env, m)
  ELSE LET all == EvalAll(Reverse(es), env, m) IN [all EXCEPT !.vs = Reverse(@)]

Apply(f, vs, m) ==
  IF ~HasKind(f, "procedure", m) \/ m.left = 0 THEN Done(Wrong("call"), m)
  ELSE LET proc == m.heap[f.ref] IN
       IF Len(proc.params) # Len(vs) THEN Done(Wrong("arity"), m)
       ELSE Eval(proc.body, Extend(proc.env, proc.params, CellRefs(vs, m)),
                 [Cells(vs, m) EXCEPT !.left = @ - 1])

\* and stops at the first false value, or at the first true one.
EvalJunction(and, es, env, m) ==
  IF es = <<>> THEN Done(Truth(and), m)
  ELSE Then(Eval(Head(es), env, m),
            LAMBDA r : IF Len(es) = 1 \/ (r.v # False) # and THEN r
                       ELSE EvalJunction(and, Tail(es), env, r.m))

EvalCond(clauses, env, m) ==
  IF clauses = <<>> THEN Done(Unspecified, m)
  ELSE LET clause == Head(clauses) IN
       IF clause.test = Else THEN EvalBody(clause.exprs, env, m)
       ELSE Then(Eval(clause.test, env, m),
              LAMBDA r :
                CASE r.v = False         -> EvalCond(Tail(clauses), env, r.m)
                  [] r.v # False /\ clause.exprs = <<>> -> r
                  [] r.v # False /\ clause.exprs # <<>> /\ ~clause.arrow ->
                       EvalBody(clause.exprs, env, r.m)
                  [] r.v # False /\ clause.exprs # <<>> /\ clause.arrow ->
                       Then(Eval(clause.exprs[1], env, r.m),
                            LAMBDA f : Apply(f.v, <<r.v>>, f.m)))

\* A datum, each of its objects new.
Represent(d, m) ==
  CASE d.op = "const"  -> Done(d.value, m)
    [] d.op = "string" -> Allocated(String(d.text), m)
    [] d.op = "symbol" -> Allocated(SymbolNamed(d.text), m)
    [] d.op = "quote"  -> Represent(List(<<Symbol("quote"), d.datum>>), m)
    [] d.op = "list"   ->
         FoldRight(LAMBDA item, rest : LET first == Represent(item, rest.m) IN
                     Allocated(Pair(first.v, rest.v), first.m),
                   d.items, Done(EmptyList, m))

Eval(e, env, m) ==
  CASE e.op = "const"  -> Done(e.value, m)
    [] e.op = "quote"  -> Represent(e.datum, m)
    [] e.op = "string" -> Allocated(String(e.text), m)
    [] e.op = "var" ->
         IF e.name \notin DOMAIN env THEN Done(Wrong("undefined"), m)
         ELSE LET v == m.heap[env[e.name]].value IN
              Done(IF v = Unassigned THEN Wrong("unassigned") ELSE v, m)
    [] e.op = "set" ->
         IF e.name \notin DOMAIN env THEN Done(Wrong("undefined"), m)
         ELSE Then(Eval(e.value, env, m),
                   LAMBDA r : Done(Unspecified,
                                   [r.m EXCEPT !.heap[env[e.name]] = Cell(r.v)]))
    [] e.op = "begin" /\ e.exprs # <<>> -> EvalAll(e.exprs, env, m)
    [] e.op = "if" -> Then(Eval(e.test, env, m),
                           LAMBDA r : Eval(IF r.v # False THEN e.yes ELSE e.no, env, r.m))
    [] e.op = "lambda" ->
         Allocated([kind |-> "procedure", params |-> e.params, body |-> e.body,
                    env |-> env], m)
    [] e.op = "let" ->
         Then(EvalAll(Values(e.bindings), env, m),
              LAMBDA r : Eval(e.body, Extend(env, Names(e.bindings), CellRefs(r.vs, r.m)),
                              Cells(r.vs, r.m)))
    [] e.op = "let*" ->
         IF e.bindings = <<>> THEN Eval(e.body, env, m)
         ELSE Eval(LetForm("let", <<Head(e.bindings)>>,
                           LetForm("let*", Tail(e.bindings), e.body)), env, m)
    [] e.op \in {"letrec", "letrec*"} ->
         LET none == [i \in DOMAIN e.bindings |-> Unassigned]
             set  == [i \in DOMAIN e.bindings |->
                        Assign(e.bindings[i].name, e.bindings[i].value)]
         IN Eval(Begin(set \o <<e.body>>),
                 Extend(env, Names(e.bindings), CellRefs(none, m)), Cells(none, m))
    [] e.op = "call" ->
         IF e.callee.op = "var" /\ e.callee.name \in Builtins \ DOMAIN env
         THEN IF ~Takes(e.callee.name, Len(e.args)) THEN Done(Wrong("arity"), m)
              ELSE Then(EvalOperands(e.callee.name, e.args, env, m),
                        LAMBDA r : Primitive(e.callee.name, r.vs, r.m))
         ELSE Then(Eval(e.callee, env, m),
                   LAMBDA f : Then(EvalAll(e.args, env, f.m),
                                   LAMBDA r : Apply(f.v, r.vs, r.m)))
    [] e.op \in {"and", "or"} -> EvalJunction(e.op = "and", e.exprs, env, m)
    [] e.op \in {"when", "unless"} ->
         Then(Eval(e.test, env, m),
              LAMBDA r : IF (r.v # False) = (e.op = "when")
                         THEN EvalBody(e.exprs, env, r.m) ELSE Done(Unspecified, r.m))
    [] e.op = "cond" -> EvalCond(e.clauses, env, m)
    [] OTHER -> Done(Wrong("malformed"), m)

\* The items in order, in one scope; a definition assigns its variable.
ItemExpr(item) ==
  CASE item.item = "define"     -> Assign(item.name, item.body)
    [] item.item = "procedure"  -> Assign(item.name, Lambda(item.params, item.body))
    [] item.item = "expression" -> item.body

\* What a run shows: its value and its output, or that it went wrong.
Observed(r) == IF IsWrong(r.v) THEN [ok |-> FALSE, value |-> <<>>, out |-> <<>>]
               ELSE [ok |-> TRUE, value |-> Show(r.v, r.m), out |-> r.m.out]

Meaning(program) ==
  LET named == SelectSeq(program, LAMBDA item : item.item # "expression")
      none  == [i \in DOMAIN named |-> Unassigned]
  IN Observed(EvalAll([i \in DOMAIN program |-> ItemExpr(program[i])],
                      Extend(Nothing, Names(named), CellRefs(none, Machine)),
                      Cells(none, Machine)))
=============================================================================
