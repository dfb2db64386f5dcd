---------------------------- MODULE CompiledCode ----------------------------
(***************************************************************************)
(* What compiled code does.  A local is a word: an immediate, or the       *)
(* address of a pair, a vector, a box or a closure.  Broken is what a step *)
(* that trusts a shape makes of a word of another shape.                   *)
(***************************************************************************)
EXTENDS Codegen

Broken == Wrong("broken")

\* The locals names with the words vs, those in boxed moved into new boxes.
Bind(names, boxed, vs, env, m) ==
  FoldLeft(LAMBDA s, i :
             IF names[i] \in boxed
             THEN [env |-> Extend(s.env, <<names[i]>>, <<Ref(Len(s.m.heap) + 1)>>),
                   m   |-> New(s.m, Cell(vs[i]))]
             ELSE [env |-> Extend(s.env, <<names[i]>>, <<vs[i]>>), m |-> s.m],
           [env |-> env, m |-> m], [i \in DOMAIN names |-> i])

\* The operands that are tested to be fixnums, with a trap where they are not.
FixnumOperands(p, vs) ==
  CASE p \in Numeric \union {"zero?", "gc-stress"} -> ToSet(vs)
    [] p \in {"vector-ref", "vector-set!", "string-ref", "list-tail", "list-ref"} -> {vs[2]}
    [] OTHER -> {}

\* Where R7RS knows no answer the runtime has one: another object's first word
\* for car, a quotient cut short, and unspecified for a word of another kind or
\* an index out of range.
PrimitiveCall(p, trusted, vs, m) ==
  LET r == Primitive(p, vs, m) IN
  CASE trusted # "word" /\ ~HasKind(vs[1], trusted, m)     -> Done(Broken, m)
    [] \E v \in FixnumOperands(p, vs) : ~IsFixnum(v)       -> Done(Wrong("trap"), m)
    [] p \in {"eq?", "eqv?"}                               -> Done(Truth(vs[1] = vs[2]), m)
    [] p = "/" -> IF Fixnum(0) \in ToSet(Tail(vs)) THEN Done(Wrong("division"), m)
                  ELSE Done(Arithmetic(p, vs), m)
    [] p \in {"car", "cdr"} /\ IsRef(vs[1])                -> IF IsWrong(r.v)
                                                              THEN Done(Wrong("garbage"), m) ELSE r
    [] OTHER -> IF IsWrong(r.v) THEN Done(Unspecified, m) ELSE r

ClosureObject(captured, body) ==
  [kind |-> "procedure", env |-> captured, body |-> body]

RECURSIVE Exec(_, _, _), ExecAll(_, _, _)

ExecAll(cs, env, m) ==
  IF cs = <<>> THEN [v |-> Unspecified, vs |-> <<>>, m |-> m]
  ELSE LET first == Exec(Head(cs), env, m) IN
       IF IsWrong(first.v) THEN [v |-> first.v, vs |-> <<>>, m |-> first.m]
       ELSE LET rest == ExecAll(Tail(cs), env, first.m) IN
            [v  |-> IF Len(cs) = 1 THEN first.v ELSE rest.v,
             vs |-> <<first.v>> \o rest.vs,
             m  |-> rest.m]

\* A call of body, whose free locals are those of env.
Enter(body, env, vs, m) ==
  IF m.left = 0 THEN Done(Wrong("call"), m)
  ELSE LET s == Bind(body.params, body.boxed, vs, env, m) IN
       Exec(body.body, s.env, [s.m EXCEPT !.left = @ - 1])

ExecCall(c, f, vs, m) ==
  CASE c.target.op = "procedure" -> Enter(m.code[c.target.name], Nothing, vs, m)
    [] c.target.op = "body"      -> Enter(c.target, Nothing, vs, m)
    [] c.target.op = "none"      ->
         IF ~HasKind(f, "procedure", m) THEN Done(Broken, m)
         ELSE Enter(m.heap[f.ref].body, m.heap[f.ref].env, vs, m)

Exec(c, env, m) ==
  CASE c.op = "const"  -> Done(c.value, m)
    [] c.op = "string" -> Allocated(String(c.text), m)
    [] c.op = "symbol" -> Allocated(SymbolNamed(c.text), m)
    [] c.op = "none"  -> Done(Unspecified, m)   \* a function has no word
    [] c.op = "get"   -> Done(env[c.name], m)
    [] c.op = "load"  ->
         LET box == env[c.name] IN
         IF HasKind(box, "box", m) THEN Done(m.heap[box.ref].value, m) ELSE Done(Broken, m)
    [] c.op = "store" ->
         Then(Exec(c.value, env, m),
              LAMBDA r : LET box == env[c.name] IN
                IF ~HasKind(box, "box", r.m) THEN Done(Broken, r.m)
                ELSE Done(Unspecified, [r.m EXCEPT !.heap[box.ref] = Cell(r.v)]))
    [] c.op = "begin" -> ExecAll(c.exprs, env, m)
    [] c.op = "if"    ->
         Then(Exec(c.test, env, m),
              LAMBDA r : Exec(IF c.always \/ r.v # False THEN c.yes ELSE c.no, env, r.m))
    [] c.op = "let"   ->
         Then(ExecAll(c.inits, env, m),
              LAMBDA r : LET s == Bind(c.names, c.boxed, r.vs, env, r.m) IN
                         Exec(c.body, s.env, s.m))
    [] c.op = "letrec" ->
         LET scope  == Extend(env, c.names, [i \in DOMAIN c.names |-> Ref(Len(m.heap) + i)])
             object(i) == ClosureObject([x \in c.captures[i] |-> scope[x]], c.bodies[i])
         IN Exec(c.body, scope,
                 [m EXCEPT !.heap = @ \o [i \in DOMAIN c.names |-> object(i)]])
    [] c.op = "closure" ->
         Allocated(ClosureObject([x \in c.captures |-> env[x]], c.body), m)
    [] c.op = "call"  ->
         Then(Exec(c.callee, env, m),
              LAMBDA f : Then(ExecAll(c.args, env, f.m),
                              LAMBDA r : ExecCall(c, f.v, r.vs, r.m)))
    [] c.op = "prim"  ->
         Then(ExecAll(c.args, env, m), LAMBDA r : PrimitiveCall(c.prim, c.trusted, r.vs, r.m))
    [] c.op = "rightFirst" ->
         Then(Exec(c.right, env, m),
              LAMBDA right : Then(Exec(c.left, env, right.m),
                LAMBDA left : PrimitiveCall(c.prim, "word", <<left.v, right.v>>, left.m)))
    [] c.op = "static" ->
         Then(ExecAll(c.args, env, m), LAMBDA r : Done(c.answer, r.m))

\* main: the items in order, each definition a new local of main.
RunMain(code) ==
  FoldLeft(LAMBDA s, c :
             IF IsWrong(s.v) THEN s
             ELSE IF c.op = "define"
             THEN LET r == Exec(c.value, s.env, s.m) IN
                  IF IsWrong(r.v) THEN [s EXCEPT !.v = r.v, !.m = r.m]
                  ELSE LET b == Bind(<<c.name>>, c.boxed, <<r.v>>, s.env, r.m) IN
                       [v |-> Unspecified, env |-> b.env, m |-> b.m]
             ELSE LET r == Exec(c, s.env, s.m) IN [s EXCEPT !.v = r.v, !.m = r.m],
           [v |-> Fixnum(0), env |-> Nothing, m |-> [Machine EXCEPT !.code = code.procs]],
           code.main)

Run(code) == LET r == RunMain(code) IN Done(r.v, r.m)
=============================================================================
