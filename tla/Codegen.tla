------------------------------- MODULE Codegen -------------------------------
(***************************************************************************)
(* llvm.rs: from the HIR to code, and what the code does.                  *)
(*                                                                         *)
(* Compile translates an expression under a static environment of shapes   *)
(* (CodegenValue) to [shape, code].  The code is the HIR with what code    *)
(* generation decides made explicit: which variables are boxes, what a     *)
(* closure captures, which calls are direct, which accesses trust a shape. *)
(* A heap pointer is the same word whether its shape is known or not.      *)
(* Of several parts that are refused the code reports the first it meets;  *)
(* here a part that cannot be compiled comes before one of a wrong kind.   *)
(***************************************************************************)
EXTENDS Lowering, FiniteSets

\* AbiValueKind: "word" or the kind of a heap object.
Word       == [k |-> "word"]
Box        == [k |-> "box"]
Heap(kind) == [k |-> "heap", kind |-> kind]
Closure(sig)          == [k |-> "closure", sig |-> sig]
Function(sig, target) == [k |-> "function", sig |-> sig, target |-> target]

ShapeOf(kind) == IF kind = "word" THEN Word ELSE Heap(kind)

Compiled(shape, code) == [shape |-> shape, code |-> code]
Rejected(why) == Compiled([k |-> "rejected", why |-> why], [op |-> "none"])
IsRejected(c) == c.shape.k = "rejected"

\* What K makes of c, or of all of cs: the first rejection ends the work, as ?.
Try(c, K(_)) == IF IsRejected(c) THEN c ELSE K(c)
TryAll(cs, K(_)) ==
  LET bad == SelectSeq(cs, IsRejected) IN IF bad # <<>> THEN Head(bad) ELSE K(cs)

Codes(cs) == [i \in DOMAIN cs |-> cs[i].code]

\* value_to_word, expect_word, expect_heap_object.
ToWord(c) ==
  CASE c.shape.k = "function" -> Rejected("procedure value")
    [] c.shape.k \in {"word", "box", "heap", "closure"} -> [c EXCEPT !.shape = Word]
    [] OTHER -> c
ExpectWord(c) ==
  IF IsRejected(c) \/ c.shape = Word THEN c ELSE Rejected("kind")
ExpectHeap(c, kind) ==
  IF IsRejected(c) \/ c.shape = Heap(kind) THEN c ELSE Rejected("kind")

\* Variant: takes any word for the heap object.
CoerceAny(c, kind) == IF kind = "word" THEN ToWord(c) ELSE ToWord(c)

\* What an argument or a result goes through on its way into kind.
Coerce(c, kind) == IF kind = "word" THEN ToWord(c) ELSE ExpectHeap(c, kind)

-----------------------------------------------------------------------------
(* Names: what an expression assigns, and what a closure captures.         *)

\* The subexpressions of e, each with the names e binds around it.
Parts(e) ==
  CASE e.op = "set"   -> {<<e.value, {}>>}
    [] e.op = "begin" -> {<<x, {}>> : x \in ToSet(e.exprs)}
    [] e.op = "if"    -> {<<x, {}>> : x \in {e.test, e.yes, e.no}}
    [] e.op = "call"  -> {<<x, {}>> : x \in {e.callee} \union ToSet(e.args)}
    [] e.op = "lambda" -> {<<e.body, ToSet(e.params)>>}
    [] e.op \in LetFlavors ->
         LET names == Names(e.bindings)
             scope(i) == CASE e.op = "let"  -> {}
                           [] e.op = "let*" -> {names[j] : j \in 1 .. i - 1}
                           [] OTHER         -> ToSet(names)
         IN {<<e.bindings[i].value, scope(i)>> : i \in DOMAIN names}
            \union {<<e.body, ToSet(names)>>}
    [] OTHER -> {}

RECURSIVE Mutated(_, _), FreeVars(_, _, _)

\* Variant: does not look into lambdas.
MutatedHere(e, bound) ==
  (IF e.op = "set" /\ e.name \in bound THEN {e.name} ELSE {})
  \union UNION {Mutated(p[1], bound \union p[2]) :
                  p \in IF e.op = "lambda" THEN {} ELSE Parts(e)}

\* collect_mutated_in_expr: by name, so an inner variable of the same name counts.
Mutated(e, bound) ==
  (IF e.op = "set" /\ e.name \in bound THEN {e.name} ELSE {})
  \union UNION {Mutated(p[1], bound \union p[2]) : p \in Parts(e)}

\* collect_free_vars.
FreeVars(e, names, bound) ==
  (IF e.op \in {"var", "set"} THEN {e.name} \intersect (names \ bound) ELSE {})
  \union UNION {FreeVars(p[1], names, bound \union p[2]) : p \in Parts(e)}

\* collect_captures, and the shapes of the captures inside the closure.
Captures(env, params, body) == FreeVars(body, DOMAIN env, ToSet(params))

InClosure(shape) ==
  IF shape.k \in {"function", "closure"} THEN Closure(shape.sig) ELSE shape

ClosureEnv(env, captures) == [x \in captures |-> InClosure(env[x])]

CapturesAreWords(env, captures) == \A x \in captures : env[x].k # "function"

\* collect_program_mutations.
ProgramMutations(items) ==
  UNION {LET before == SubSeq(items, 1, i)
             bound  == {before[j].name : j \in {j \in DOMAIN before :
                                                  before[j].item # "expression"}}
         IN Mutated(items[i].body, bound) : i \in DOMAIN items}

-----------------------------------------------------------------------------
(* Inference of kinds.  A signature is [ret, params]; an environment takes *)
(* a name to a value of a kind or to a function of a signature.            *)

ValueKind(kind)   == [k |-> "value", kind |-> kind]
FunctionKind(sig) == [k |-> "function", sig |-> sig]

WithFunctions(env, sigs) == [x \in DOMAIN sigs |-> FunctionKind(sigs[x])] @@ env

WordSignature(params) == [ret |-> "word", params |-> [i \in DOMAIN params |-> "word"]]

Combine(left, right) ==
  CASE left = "word"                    -> right
    [] left # "word" /\ right \in {"word", left} -> left
    [] OTHER                            -> "word"

Accessors == [p \in {"car", "cdr"} |-> "pair"]
             @@ [p \in {"string-length", "string-ref"} |-> "string"]
             @@ [p \in {"vector-length", "vector-ref", "vector-set!"} |-> "vector"]

Makers == [p \in {"cons", "list"} |-> "pair"] @@ [p \in {"vector"} |-> "vector"]

\* infer_quote_kind.
QuoteKind(d) ==
  CASE d.op \in {"string", "symbol"}           -> d.op
    [] d.op = "list" /\ d.items # <<>>          -> "pair"
    [] OTHER                                   -> "word"

RECURSIVE InferParam(_, _), InferKind(_, _, _)

\* What the uses of a parameter say of it.
InferParam(p, e) ==
  LET Kind(x) == InferParam(p, x)
      Folded(es) == FoldLeft(LAMBDA kind, x : Combine(kind, Kind(x)), "word", es)
  IN CASE e.op = "set"   -> Kind(e.value)
       [] e.op = "begin" -> Folded(e.exprs)
       [] e.op = "if"    -> Combine(Kind(e.test), Combine(Kind(e.yes), Kind(e.no)))
       [] e.op \in LetFlavors ->
            Folded(Values(SelectSeq(e.bindings, LAMBDA b : b.name # p)) \o <<e.body>>)
       [] e.op = "lambda" -> IF p \in ToSet(e.params) THEN "word" ELSE Kind(e.body)
       [] e.op = "call" ->
            IF /\ e.callee.op = "var" /\ e.callee.name \in DOMAIN Accessors
               /\ e.args # <<>> /\ e.args[1] = Var(p)
            THEN Accessors[e.callee.name]
            ELSE Folded(<<e.callee>> \o e.args)
       [] OTHER -> "word"

InferLambda(params, body, env, functions) ==
  LET kinds == [i \in DOMAIN params |-> InferParam(params[i], body)] IN
  [ret |-> InferKind(body, Extend(env, params, [i \in DOMAIN params |-> ValueKind(kinds[i])]),
                     functions),
   params |-> kinds]

\* infer_letrec_function_signatures: from all words, at most as many rounds as
\* there are bindings, each from the signatures of the round before.
LetrecSignatures(bindings, env) ==
  LET lambdas == SelectSeq(bindings, LAMBDA b : b.value.op = "lambda")
      names   == Names(lambdas)
      start   == Extend(Nothing, names,
                        [i \in DOMAIN names |-> WordSignature(lambdas[i].value.params)])
      round(sigs) ==
        Extend(Nothing, names,
               [i \in DOMAIN names |->
                  InferLambda(lambdas[i].value.params, lambdas[i].value.body,
                              WithFunctions(env, sigs), sigs)])
  IN FoldLeft(LAMBDA sigs, b : round(sigs), start, bindings)

\* infer_expr_kind.
InferKind(e, env, functions) ==
  LET Bound(b, scope) ==
        IF b.value.op = "lambda"
        THEN FunctionKind(InferLambda(b.value.params, b.value.body, scope, functions))
        ELSE ValueKind(InferKind(b.value, scope, functions))
      With(scope, b, kind) == Extend(scope, <<b.name>>, <<kind>>)
  IN CASE e.op = "var" /\ e.name \in DOMAIN env /\ env[e.name].k = "value" ->
            env[e.name].kind
       [] e.op = "string" -> "string"
       [] e.op = "quote"  -> QuoteKind(e.datum)
       [] e.op = "begin" /\ e.exprs # <<>> -> InferKind(Last(e.exprs), env, functions)
       [] e.op = "let" ->
            InferKind(e.body, FoldLeft(LAMBDA scope, b : With(scope, b, Bound(b, env)),
                                       env, e.bindings), functions)
       [] e.op = "let*" ->
            InferKind(e.body, FoldLeft(LAMBDA scope, b : With(scope, b, Bound(b, scope)),
                                       env, e.bindings), functions)
       [] e.op = "letrec" ->
            InferKind(e.body, WithFunctions(env, LetrecSignatures(e.bindings, Nothing)), functions)
       [] e.op = "if" ->
            LET yes == InferKind(e.yes, env, functions)
                no  == InferKind(e.no, env, functions)
            IN IF yes = no THEN yes ELSE "word"
       [] e.op = "call" /\ e.callee.op = "var" ->
            LET f == e.callee.name IN
            IF f \in Builtins
            THEN IF f \in DOMAIN Makers THEN Makers[f] ELSE "word"
            ELSE IF f \in DOMAIN env /\ env[f].k = "function" THEN env[f].sig.ret
            ELSE IF f \in DOMAIN functions THEN functions[f].ret ELSE "word"
       [] OTHER -> "word"

\* The shapes of an environment, as inference sees them.
KindOfShape(shape) ==
  CASE shape.k \in {"word", "box"}         -> ValueKind("word")
    [] shape.k = "heap"                    -> ValueKind(shape.kind)
    [] shape.k \in {"function", "closure"} -> FunctionKind(shape.sig)

KindsOf(env) == [x \in DOMAIN env |-> KindOfShape(env[x])]

-----------------------------------------------------------------------------
(* Expressions.  functions takes a declared procedure to its signature.    *)

RECURSIVE Compile(_, _, _), CompileSequential(_, _, _, _, _)

CompileAll(es, env, functions) == [i \in DOMAIN es |-> Compile(es[i], env, functions)]

\* box_value, or the value itself.
Stored(c, boxed) ==
  IF ~boxed THEN c ELSE Try(ToWord(c), LAMBDA w : Compiled(Box, w.code))

\* compile_function_body and compile_closure_body: parameters that the body
\* assigns move into boxes, the result into the kind the signature promises.
Body(params, sig, env, body, functions) ==
  LET boxed  == Mutated(body, ToSet(params)) \intersect ToSet(params)
      shapes == [i \in DOMAIN params |->
                   IF params[i] \in boxed THEN Box ELSE ShapeOf(sig.params[i])]
  IN Try(Coerce(Compile(body, Extend(env, params, shapes), functions), sig.ret),
         LAMBDA result : Compiled(ShapeOf(sig.ret),
           [op |-> "body", params |-> params, boxed |-> boxed, body |-> result.code]))

CompileVar(e, env, functions) ==
  IF e.name \in DOMAIN env
  THEN IF env[e.name] = Box THEN Compiled(Word, [op |-> "load", name |-> e.name])
       ELSE Compiled(env[e.name], [op |-> "get", name |-> e.name])
  ELSE IF e.name \in DOMAIN functions
       THEN Compiled(Function(functions[e.name], [op |-> "procedure", name |-> e.name]),
                     [op |-> "none"])
       ELSE Rejected("undefined")

CompileSet(e, env, functions) ==
  IF e.name \notin DOMAIN env THEN Rejected("undefined")
  ELSE IF env[e.name] # Box THEN Rejected("immutable")
  ELSE Try(ToWord(Compile(e.value, env, functions)),
           LAMBDA c : Compiled(Word, [op |-> "store", name |-> e.name, value |-> c.code]))

\* The body in the scope of the bindings kept, and the code of both.
Scoped(names, boxed, kept, body, env, functions) ==
  Try(Compile(body, Extend(env, names, [i \in DOMAIN kept |-> kept[i].shape]), functions),
      LAMBDA c : Compiled(c.shape, [op |-> "let", names |-> names, boxed |-> boxed,
                                    inits |-> Codes(kept), body |-> c.code]))

\* Variant: a binding sees the ones before it.
CompileLetInOrder(e, env, functions) ==
  CompileSequential(e.bindings, Mutated(e.body, ToSet(Names(e.bindings))), e.body,
                    env, functions)

\* compile_parallel_bindings: boxes for what the body assigns.
CompileLet(e, env, functions) ==
  LET names == Names(e.bindings)
      boxed == Mutated(e.body, ToSet(names))
  IN TryAll([i \in DOMAIN names |->
               Stored(Compile(e.bindings[i].value, env, functions), names[i] \in boxed)],
            LAMBDA kept : Scoped(names, boxed, kept, e.body, env, functions))

\* compile_sequential_bindings: one scope per binding, and boxes for what the
\* body of the whole form assigns, whatever the initialisers do.
CompileSequential(bindings, boxed, body, env, functions) ==
  IF bindings = <<>> THEN Compile(body, env, functions)
  ELSE LET name == Head(bindings).name IN
       Try(Stored(Compile(Head(bindings).value, env, functions), name \in boxed),
           LAMBDA kept :
             Try(CompileSequential(Tail(bindings), boxed, body,
                                   Extend(env, <<name>>, <<kept.shape>>), functions),
                 LAMBDA rest : Compiled(rest.shape,
                   [op |-> "let", names |-> <<name>>, boxed |-> boxed,
                    inits |-> <<kept.code>>, body |-> rest.code])))

\* Closures with empty slots first, then the slots, then the bodies.
Recursive(bs, sigs, body, env, functions) ==
  LET scope  == [x \in DOMAIN sigs |-> Closure(sigs[x])] @@ env
      caught == [i \in DOMAIN bs |-> Captures(scope, bs[i].value.params, bs[i].value.body)]
  IN IF \E i \in DOMAIN bs : ~CapturesAreWords(scope, caught[i])
     THEN Rejected("procedure value")
     ELSE TryAll([i \in DOMAIN bs |->
                    Body(bs[i].value.params, sigs[bs[i].name], ClosureEnv(scope, caught[i]),
                         bs[i].value.body, functions)],
            LAMBDA bodies :
              Try(Compile(body, scope, functions),
                  LAMBDA c : Compiled(c.shape,
                    [op |-> "letrec", names |-> Names(bs), captures |-> caught,
                     bodies |-> Codes(bodies), body |-> c.code])))

\* compile_recursive_bindings.
CompileLetrec(e, env, functions) ==
  IF \E i \in DOMAIN e.bindings : e.bindings[i].value.op # "lambda"
  THEN Rejected("letrec")
  ELSE Recursive(e.bindings, LetrecSignatures(e.bindings, KindsOf(env)), e.body, env, functions)

\* A function if the lambda captures nothing, else a closure.
Procedural(e, sig, caught, env, functions) ==
  Try(Body(e.params, sig, ClosureEnv(env, caught), e.body, functions),
      LAMBDA c :
        IF caught = {} THEN Compiled(Function(sig, c.code), [op |-> "none"])
        ELSE IF ~CapturesAreWords(env, caught) THEN Rejected("procedure value")
        ELSE Compiled(Closure(sig), [op |-> "closure", captures |-> caught, body |-> c.code]))

CompileLambda(e, env, functions) ==
  Procedural(e, InferLambda(e.params, e.body, KindsOf(env), Nothing),
             Captures(env, e.params, e.body), env, functions)

\* merge_branch_values.
Merged(yes, no, code) ==
  IF \/ yes.shape = Word /\ no.shape = Word
     \/ yes.shape.k = "heap" /\ no.shape.k = "heap" /\ yes.shape.kind = no.shape.kind
     \/ yes.shape.k = "closure" /\ no.shape.k = "closure" /\ yes.shape.sig = no.shape.sig
  THEN Compiled(yes.shape, code)
  ELSE Rejected("branches")

\* What is surely an object is true.
Predicate(c) ==
  IF c.shape.k \in {"heap", "closure"} THEN c
  ELSE ExpectWord(c)

CompileIf(e, env, functions) ==
  Try(Predicate(Compile(e.test, env, functions)),
      LAMBDA test : Try(Compile(e.yes, env, functions),
        LAMBDA yes : Try(Compile(e.no, env, functions),
          LAMBDA no : Merged(yes, no,
            [op |-> "if", always |-> test.shape # Word, test |-> test.code,
             yes |-> yes.code, no |-> no.code]))))

\* A primitive on the words of args, the first of which is trusted to be the
\* address of an object of a kind, or "word"; or an answer known from the shapes.
Primitively(p, trusted, shape, args) ==
  TryAll(args, LAMBDA cs : Compiled(shape,
           [op |-> "prim", prim |-> p, trusted |-> trusted, args |-> Codes(cs)]))

OnWords(p, args) == Primitively(p, "word", Word, args)

Static(answer, cs) == Compiled(Word, [op |-> "static", answer |-> answer, args |-> Codes(cs)])

AllWords(cs)  == [i \in DOMAIN cs |-> ToWord(cs[i])]
AllPlain(cs)  == [i \in DOMAIN cs |-> ExpectWord(cs[i])]

\* cons, vector.
Made(p, cs) == Primitively(p, "word", Heap(Makers[p]), AllWords(cs))

\* p of left and right, where right is computed first.
RightFirst(p, shape, left, right) ==
  TryAll(<<ToWord(right), ToWord(left)>>, LAMBDA cs : Compiled(shape,
           [op |-> "rightFirst", prim |-> p, left |-> left.code, right |-> right.code]))

\* compile_list: the pairs from the last element; none, and it is a word.
Listed(cs) ==
  FoldRight(LAMBDA c, rest : RightFirst("cons", Heap("pair"), c, rest),
            cs, Compiled(Word, Const(EmptyList)))

\* compile_append: the last argument as it is, and each before it by a call.
Appended(cs) ==
  IF cs = <<>> THEN Compiled(Word, Const(EmptyList))
  ELSE FoldRight(LAMBDA c, rest : RightFirst("append", Word, c, rest), Front(cs), Last(cs))

\* compile_quote, by the kinds of compile_list.
RECURSIVE Quoted(_)
Quoted(d) ==
  CASE d.op = "const"              -> Compiled(Word, d)
    [] d.op \in {"string", "symbol"} -> Compiled(Heap(d.op), d)
    [] d.op = "list" -> Listed([i \in DOMAIN d.items |-> Quoted(d.items[i])])

\* An access to c, a word in wordOfC, and more arguments: trusting where c is
\* known to be what p accesses.
Accessed(p, c, wordOfC, more) ==
  IF c.shape = Heap(Accessors[p]) THEN Primitively(p, Accessors[p], Word, <<c>> \o more)
  ELSE OnWords(p, <<wordOfC>> \o more)

\* car, cdr.
PairAccess(p, c) == Accessed(p, c, ExpectWord(c), <<>>)

\* vector-length, string-length.
Measured(p, c) == Accessed(p, c, ToWord(c), <<>>)

\* vector-ref, string-ref, vector-set!: an index, an element.
Indexed(p, cs) ==
  Accessed(p, cs[1], ToWord(cs[1]), <<ExpectWord(cs[2])>> \o AllWords(SubSeq(cs, 3, Len(cs))))

\* length, list-tail, list-ref.
InListAt(p, cs) == OnWords(p, <<ToWord(cs[1])>> \o AllPlain(Tail(cs)))

\* Numbers, and words that are looked at.
Computed(p, cs) == OnWords(p, AllPlain(cs))
WordPredicate(p, c) == OnWords(p, <<ExpectWord(c)>>)

\* display, write, newline.
Output(p, cs) == OnWords(p, AllWords(cs))

\* A predicate for the objects of one kind, on a word in wordOfC.
IsOfKind(p, c, wordOfC) ==
  IF c.shape.k = "heap" THEN Static(Truth(c.shape.kind = KindOfPredicate[p]), <<c>>)
  ELSE OnWords(p, <<wordOfC>>)

PairPredicate(c) == IsOfKind("pair?", c, ExpectWord(c))

\* vector?, string?.
KindPredicate(p, c) == IsOfKind(p, c, ToWord(c))

SymbolPredicate(c) ==
  IF c.shape = Word THEN OnWords("symbol?", <<c>>)
  ELSE Static(Truth(c.shape = Heap("symbol")), <<c>>)

ListPredicate(c) ==
  IF c.shape.k \in {"heap", "closure"} /\ c.shape # Heap("pair") THEN Static(False, <<c>>)
  ELSE OnWords("list?", <<IF c.shape = Heap("pair") THEN c ELSE ExpectWord(c)>>)

NullPredicate(c) ==
  IF c.shape.k = "heap" THEN Static(False, <<c>>) ELSE OnWords("null?", <<ExpectWord(c)>>)

BooleanPredicate(c) ==
  IF c.shape = Word THEN OnWords("boolean?", <<c>>) ELSE Static(False, <<c>>)

ProcedurePredicate(c) == Static(Truth(c.shape.k \in {"function", "closure"}), <<c>>)

Not(c) ==
  IF c.shape.k \in {"heap", "closure"} THEN Static(False, <<c>>)
  ELSE OnWords("not", <<ExpectWord(c)>>)

\* compare_codegen_values compares the words of these shapes; it takes values
\* of any others for different ones.
Comparable(left, right) ==
  \/ left = Word /\ right = Word
  \/ left.k = "heap" /\ right.k = "heap" /\ left.kind = right.kind
  \/ left.k = "closure" /\ right.k = "closure"

Identity(cs) ==
  IF Comparable(cs[1].shape, cs[2].shape) THEN OnWords("eq?", cs) ELSE Static(False, cs)

\* compile_builtin_call.
CompileBuiltin(p, es, env, functions) ==
  IF ~Takes(p, Len(es)) THEN Rejected("arity")
  ELSE TryAll(CompileAll(es, env, functions),
         LAMBDA cs :
           CASE p \in {"cons", "vector"} -> Made(p, cs)
             [] p = "list"       -> Listed(cs)
             [] p = "append"     -> Appended(cs)
             [] p \in {"vector-ref", "vector-set!", "string-ref"} -> Indexed(p, cs)
             [] p \in {"length", "list-tail", "list-ref"} -> InListAt(p, cs)
             [] p \in {"car", "cdr"} -> PairAccess(p, cs[1])
             [] p \in {"vector-length", "string-length"} -> Measured(p, cs[1])
             [] p = "pair?"      -> PairPredicate(cs[1])
             [] p \in {"vector?", "string?"} -> KindPredicate(p, cs[1])
             [] p = "symbol?"    -> SymbolPredicate(cs[1])
             [] p = "list?"      -> ListPredicate(cs[1])
             [] p = "null?"      -> NullPredicate(cs[1])
             [] p = "boolean?"   -> BooleanPredicate(cs[1])
             [] p = "procedure?" -> ProcedurePredicate(cs[1])
             [] p = "not"        -> Not(cs[1])
             [] p \in {"eq?", "eqv?"} -> Identity(cs)
             [] p \in Numeric \union {"gc-stress"} -> Computed(p, cs)
             [] p \in {"zero?", "char?"} -> WordPredicate(p, cs[1])
             [] p \in {"display", "write", "newline"} -> Output(p, cs))

\* A call of f with the arguments cs, each moved into the kind f takes.
CallCode(f, cs) ==
  TryAll([i \in DOMAIN cs |-> Coerce(cs[i], f.shape.sig.params[i])],
    LAMBDA args : Compiled(ShapeOf(f.shape.sig.ret),
      [op |-> "call", callee |-> f.code, args |-> Codes(args),
       target |-> IF f.shape.k = "closure" THEN [op |-> "none"] ELSE f.shape.target]))

\* compile_call: a builtin by its name, before any variable of that name.
CompileCall(e, env, functions) ==
  IF e.callee.op = "var" /\ e.callee.name \in Builtins
  THEN CompileBuiltin(e.callee.name, e.args, env, functions)
  ELSE Try(Compile(e.callee, env, functions),
         LAMBDA f :
           IF f.shape.k \notin {"function", "closure"} THEN Rejected("not a procedure")
           ELSE IF Len(f.shape.sig.params) # Len(e.args) THEN Rejected("arity")
           ELSE TryAll(CompileAll(e.args, env, functions), LAMBDA cs : CallCode(f, cs)))

Compile(e, env, functions) ==
  CASE e.op = "const"  -> Compiled(Word, e)
    [] e.op = "string" -> Compiled(Heap("string"), e)
    [] e.op = "quote"  -> Quoted(e.datum)
    [] e.op = "var"    -> CompileVar(e, env, functions)
    [] e.op = "set"    -> CompileSet(e, env, functions)
    [] e.op = "begin"  ->
         IF e.exprs = <<>> THEN Compiled(Word, Const(Fixnum(0)))
         ELSE TryAll(CompileAll(e.exprs, env, functions),
                     LAMBDA cs : Compiled(Last(cs).shape, [op |-> "begin", exprs |-> Codes(cs)]))
    [] e.op = "let"    -> CompileLet(e, env, functions)
    [] e.op = "let*"   ->
         CompileSequential(e.bindings, Mutated(e.body, ToSet(Names(e.bindings))), e.body,
                           env, functions)
    [] e.op = "letrec" -> CompileLetrec(e, env, functions)
    [] e.op = "if"     -> CompileIf(e, env, functions)
    [] e.op = "lambda" -> CompileLambda(e, env, functions)
    [] e.op = "call"   -> CompileCall(e, env, functions)

-----------------------------------------------------------------------------
(* Programs.                                                               *)

\* infer_top_level_function_signatures: a procedure sees those before it.
TopLevelSignatures(procedures) ==
  FoldLeft(LAMBDA sigs, p : Extend(sigs, <<p.name>>,
                                   <<InferLambda(p.params, p.body, Nothing, sigs)>>),
           Nothing, procedures)

\* compile_top_level_procedures.
CompileProcedures(procedures, sigs) ==
  [i \in DOMAIN procedures |->
     Body(procedures[i].params, sigs[procedures[i].name], Nothing, procedures[i].body, sigs)]

\* An item of main, compiled to c: a definition binds a new local.
AddItem(main, item, c, boxed) ==
  LET kept == Stored(c, item.name \in boxed) IN
  IF item.item = "expression" THEN [main EXCEPT !.cs = Append(@, c)]
  ELSE IF IsRejected(kept) THEN [main EXCEPT !.cs = Append(@, kept)]
  ELSE [env |-> Extend(main.env, <<item.name>>, <<kept.shape>>),
        cs  |-> Append(main.cs, Compiled(Word, [op |-> "define", name |-> item.name,
                                                boxed |-> boxed, value |-> kept.code]))]

CompileItems(items, boxed, functions) ==
  FoldLeft(LAMBDA main, item :
             AddItem(main, item, Compile(item.body, main.env, functions), boxed),
           [env |-> Nothing, cs |-> <<>>], items).cs

\* The module, or why there is none.
Refused(why) == [ok |-> FALSE, why |-> why, procs |-> Nothing, main |-> <<>>]

Linked(names, bodies, main) ==
  LET result == IF main = <<>> THEN <<>> ELSE <<ToWord(Last(main))>>
      bad    == SelectSeq(bodies \o main \o result, IsRejected)
  IN IF bad # <<>> THEN Refused(Head(bad).shape.why)
     ELSE [ok |-> TRUE, why |-> "", procs |-> Extend(Nothing, names, Codes(bodies)),
           main |-> Codes(main)]

\* compile_program: [ok, why, procs, main].
CompileProgram(program) ==
  LET procedures == SelectSeq(program, LAMBDA item : item.item = "procedure")
      items      == SelectSeq(program, LAMBDA item : item.item # "procedure")
      names      == Names(procedures)
      sigs       == TopLevelSignatures(procedures)
  IN IF Cardinality(ToSet(names)) # Len(names) THEN Refused("duplicate")
     ELSE Linked(names, CompileProcedures(procedures, sigs),
                 CompileItems(items, ProgramMutations(program), sigs))
=============================================================================
