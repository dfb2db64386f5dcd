-------------------------- MODULE MCCompilePipeline --------------------------
(* Families of programs: every choice of their parts.                      *)
EXTENDS CompilePipeline

One == Const(Fixnum(1))
Two == Const(Fixnum(2))
No  == Const(False)
Nil == Const(EmptyList)
Hi  == Text(<<104, 105>>)
A   == Symbol("a")
Letter == Const(Imm("#\\a"))
X == Var("x")
Y == Var("y")
P == Var("p")
Prim(p, es)   == Call(Var(p), es)
Pairing(a, b) == Prim("cons", <<a, b>>)
Vec(a)        == Prim("vector", <<a>>)
Car(a)        == Prim("car", <<a>>)
Let1(x, e, body)  == LetForm("let", <<Binding(x, e)>>, body)
AssignThen(x, e, body) == Begin(<<Assign(x, e), body>>)
Shown(c, e)       == Begin(<<Prim("display", <<c>>), e>>)
Scripts(bodies)   == {<<Expression(e)>> : e \in bodies}

\* Words, a pair, a vector.
Inits == {One, Pairing(One, Two), Vec(One)}

\* A variable x that a closure g of one parameter p sees, used before and after.
CaptureBodies ==
  {X, P, Assign("x", P), AssignThen("p", Two, P), Pairing(X, P), Car(X),
   AssignThen("p", X, Pairing(P, X)), Call(Lambda(<<>>, AssignThen("x", P, X)), <<>>),
   Let1("x", P, AssignThen("x", Two, X)), Let1("p", X, P), Lambda(<<"y">>, X)}

CaptureTails ==
  LET g(e) == Call(Var("g"), <<e>>) IN
  {X, g(Two), Car(X), Pairing(g(X), X), Prim("pair?", <<X>>), Prim("eq?", <<X, X>>),
   AssignThen("x", Two, g(X)), AssignThen("x", Pairing(X, X), Pairing(g(Two), X)),
   Prim("vector-length", <<X>>), Prim("procedure?", <<Var("g")>>)}

Captured(tail, body, arg) ==
  Let1("g", Lambda(<<"p">>, body), Begin(<<Call(Var("g"), <<arg>>), tail>>))

CapturePrograms ==
  LET inner == {Captured(tail, body, arg) :
                  tail \in CaptureTails, body \in CaptureBodies, arg \in {Two, X}}
      binders(e, i) == {<<Expression(Let1("x", i, e))>>,
                        <<Expression(Call(Lambda(<<"x">>, e), <<i>>))>>,
                        <<Define("x", i), Expression(e)>>}
  IN UNION {binders(e, i) : e \in inner, i \in Inits}

\* Variables of one name, one hiding the other.
ShadowPrograms ==
  LET seconds == {X, Lambda(<<>>, X), Lambda(<<>>, AssignThen("x", Two, X)), Pairing(X, X)}
      thirds  == {Two, Pairing(X, One), Lambda(<<>>, X), Y}
      tails   == {X, Y, Pairing(X, Y), Call(Y, <<>>), Pairing(Call(Y, <<>>), X),
                  AssignThen("x", Y, X), AssignThen("x", Two, Call(Y, <<>>)),
                  Let1("x", Y, Begin(<<Assign("x", One), X>>)), If(X, Y, X)}
      two(b, c) == <<Binding("y", b), Binding("x", c)>>
      outer(i, flavor, bs, t) == Let1("x", i, LetForm(flavor, bs, t))
      pairs == {two(b, c) : b \in seconds, c \in thirds \ {Y}}
      \* an assignment in an initialiser of let* is refused
  IN Scripts({outer(i, flavor, bs, t) :
                i \in {One, Pairing(One, Two)}, flavor \in {"let", "let*"},
                bs \in pairs, t \in tails}
             \union {outer(One, "let", Reverse(bs), t) : bs \in pairs, t \in tails}
             \union {outer(One, "let*", two(b, Y), t) : b \in seconds, t \in tails})

\* Two closures that call one another.
LetrecPrograms ==
  LET call(f, e) == Call(Var(f), <<e>>)
      bodies(other) == {P, X, Pairing(P, X), Car(P), call(other, P), Assign("x", P),
                        If(P, call(other, No), X), If(P, call(other, Pairing(P, X)), Pairing(P, X)),
                        AssignThen("p", X, call(other, P))}
      tails == {call("f", One), Car(call("f", Two)), call("f", Pairing(One, Two)),
                Pairing(call("f", No), X), Let1("h", Var("f"), Call(Var("h"), <<Two>>))}
  IN Scripts({Let1("x", i, LetForm(flavor, <<Binding("f", Lambda(<<"p">>, b)),
                                            Binding("g", Lambda(<<"p">>, c))>>, t)) :
                i \in {One, Pairing(One, Two)}, flavor \in {"letrec"},
                b \in bodies("g"), c \in bodies("f"), t \in tails})
     \union Scripts({Let1("x", One, LetForm("letrec*", <<Binding("f", Lambda(<<"p">>, b)),
                                                 Binding("g", Lambda(<<"p">>, c))>>, t)) :
                b \in {P, X, Pairing(P, X)}, c \in bodies("f"), t \in tails})

\* What the uses of a parameter make of it, and what is passed for it.
KindBodies ==
  {P, Car(P), Prim("vector-length", <<P>>), Prim("not", <<P>>), If(P, One, Two),
   If(Prim("pair?", <<P>>), Car(P), P), If(Prim("pair?", <<P>>), P, Pairing(P, P)),
   Let1("p", Pairing(One, P), Car(P)), Let1("y", P, Car(Y)), AssignThen("p", Pairing(P, P), Car(P)),
   Begin(<<Car(P), Prim("vector-length", <<P>>)>>), Begin(<<>>), Vec(P),
   Car(Let1("y", Pairing(P, P), Y)), Call(P, <<>>), Let1("y", Lambda(<<"p">>, Car(P)), Call(Y, <<P>>))}

KindArgs ==
  {One, No, Pairing(One, Two), Vec(Two), If(No, Pairing(One, One), Pairing(Two, Two)),
   If(No, One, Vec(One)), Lambda(<<>>, One), Car(Pairing(Pairing(One, Two), One))}

KindPrograms ==
  LET wraps(e) == {e, Car(e), Prim("not", <<e>>), If(e, One, Two), Let1("y", e, Prim("pair?", <<Y>>))}
      direct  == {Call(Lambda(<<"p">>, b), <<a>>) : b \in KindBodies, a \in KindArgs}
      through == {<<Procedure("h", <<"p">>, b), Procedure("k", <<"p">>, Call(Var("h"), <<P>>)),
                    Expression(w)>> :
                   b \in KindBodies,
                   w \in UNION {wraps(Call(Var(f), <<a>>)) : f \in {"h", "k"}, a \in KindArgs}}
      early   == {<<Procedure("k", <<"p">>, Call(Var("h"), <<P>>)), Procedure("h", <<"p">>, b),
                    Expression(Call(Var("k"), <<a>>))>> : b \in KindBodies, a \in KindArgs}
  IN Scripts(UNION {wraps(e) : e \in direct}) \union through \union early
     \union {<<Procedure("h", <<>>, One), Procedure("h", <<>>, Two)>>,
             <<Procedure("h", <<>>, One), Expression(Call(Var("h"), <<One>>))>>,
             <<Expression(LetForm("letrec", <<Binding("x", One)>>, X))>>}

\* Derived forms over operands that show when they are evaluated.
DerivedPrograms ==
  LET operands == {Shown(One, No), Shown(Two, Two), No, Assign("x", No)}
      upTo(n, S) == UNION {[1 .. k -> S] : k \in 0 .. n}
      whole(es)  == [i \in DOMAIN es |-> es[i]]
      junctions == {Junction(and, whole(es)) : and \in {"and", "or"}, es \in upTo(3, operands)}
      nested    == {Junction(and, <<a, Junction(or, <<b, c>>)>>) : and, or \in {"and", "or"},
                      a \in operands, b \in operands, c \in operands}
      whens     == {When(when, c, whole(es)) : when \in {"when", "unless"}, c \in operands,
                      es \in upTo(2, operands)}
      clauses   == {Clause(c, FALSE, whole(es)) : c \in operands,
                      es \in upTo(1, {Shown(Two, X)})}
                   \union {Clause(c, TRUE, whole(es)) : c \in {Shown(One, Two), No},
                      es \in upTo(2, {Lambda(<<"y">>, Pairing(Y, X))})}
                   \union {Clause(Else, FALSE, whole(es)) : es \in upTo(1, {Shown(One, X)})}
      conds     == {Cond(whole(cs)) : cs \in upTo(2, clauses)}
      \* cond with an arrow and no recipient is a body of =>
      sound(e)  == e.op # "cond" \/ \A i \in DOMAIN e.clauses :
                     e.clauses[i].arrow => e.clauses[i].exprs # <<>>
  IN Scripts({Let1("x", One, Pairing(e, X)) :
                e \in {d \in junctions \union nested \union whens \union conds : sound(d)}})

\* Builtins, with operands whose shapes are known, and unknown: each operand as
\* it is, and as a word read out of a pair, a parameter or a variable.
Operands ==
  {One, No, Const(Fixnum(0)), Nil, Letter, Hi, Quote(A), Quote(List(<<One, Two>>)),
   Pairing(One, No), Vec(Two), Lambda(<<>>, One), Lambda(<<>>, X)}

\* A symbol is another object each time it is written: eq? knows only the same one.
Comparands == Operands \ {Quote(A)}

UnaryBuiltins == {p \in DOMAIN Arity : Arity[p] = 1}

BuiltinPrograms ==
  LET word(e)    == Car(Pairing(e, One))
      through(e, body) == Call(Lambda(<<"p">>, body), <<e>>)
      \* a procedure that has become a word answers #f to procedure?
      sound(p, e) == p # "procedure?" \/ e.op # "lambda"
      unary == UNION {{Prim(p, <<a>>), Let1("p", a, Prim(p, <<P>>))}
                      \union (IF sound(p, a) THEN {Prim(p, <<word(a)>>), through(a, Prim(p, <<P>>))}
                              ELSE {}) : p \in UnaryBuiltins, a \in Operands}
      \* a procedure without captures is not even eq? to itself
      same  == {Let1("p", a, Prim("eq?", <<P, P>>)) : a \in Operands \ {Lambda(<<>>, One)}}
               \union
               UNION {{Let1("p", a, Prim("eq?", <<P, b>>)),
                       Prim("eqv?", <<word(a), word(b)>>), Prim("-", <<a, word(b), One>>)} :
                      a \in Comparands, b \in Comparands}
      numbers == {Prim(p, es) : p \in Numeric,
                    es \in {<<>>} \union {<<a>> : a \in {Two, Const(Fixnum(-6)), Letter}}
                          \union {<<a, b>> : a, b \in {Two, Const(Fixnum(-6)), Const(Fixnum(0))}}
                          \union {<<Const(Fixnum(12)), a, b>> : a, b \in {Two, Const(Fixnum(-3))}}}
      ref(v, i)    == Prim("vector-ref", <<v, i>>)
      set(v, i, e) == Prim("vector-set!", <<v, i, e>>)
      vectors == {Vec(Pairing(One, Two)), Prim("vector", <<>>), Prim("vector", <<One, Hi>>), One}
      indices == {One, No, Const(Fixnum(0)), Prim("vector-length", <<Y>>)}
      uses(i) == {ref(Y, i), Begin(<<set(Y, i, Two), ref(Y, i)>>),
                  Begin(<<Call(Lambda(<<>>, set(Y, i, Hi)), <<>>), Y>>),
                  Prim("string-ref", <<Hi, i>>), through(Hi, Prim("string-ref", <<P, i>>)),
                  Begin(<<through(Y, set(P, i, No)), Pairing(ref(Y, i), X)>>),
                  AssignThen("x", ref(Y, i), Begin(<<set(Y, i, X), Pairing(X, Y)>>))}
      wrongly == {Prim(p, es) : p \in DOMAIN Arity, es \in {<<>>, <<One, One, One, One>>}}
  IN Scripts({Let1("x", One, e) : e \in unary \union same \union numbers \union wrongly})
     \union Scripts({Prim("newline", <<>>)}
             \union {Let1("x", One, Let1("y", v, e)) :
                       v \in vectors \union {word(w) : w \in vectors},
                       e \in UNION {uses(i) : i \in indices}})
     \union {<<Procedure("h", <<"p">>, Prim(p, <<P>>)), Expression(Prim("display", <<e>>))>> :
               p \in UnaryBuiltins \ {"procedure?"},
               e \in {Call(Var("h"), <<a>>) : a \in Operands \ {Lambda(<<>>, X)}}}

\* Lists and quoted data, their kinds known and unknown, walked and put together.
ListPrograms ==
  LET data    == {One, Letter, Hi, A, List(<<>>), List(<<A>>), List(<<List(<<One>>), Hi>>),
                  Quote(A), List(<<A, Quote(List(<<Letter>>))>>)}
      made    == {Prim("list", es) : es \in {<<>>, <<One>>, <<Shown(One, No), Shown(Two, Hi)>>}}
      \* a pair, read out of a pair
      lists   == {Quote(d) : d \in data} \union made
                 \union {Pairing(One, Two), Car(Pairing(Quote(List(<<One, A>>)), One))}
      at(i)   == {Prim("list-tail", <<Y, i>>), Prim("list-ref", <<Y, i>>),
                  Pairing(Prim("list-tail", <<Y, i>>), Y)}
      uses    == {Y, Car(Y), Prim("write", <<Y>>), Prim("list?", <<Y>>), Prim("length", <<Y>>),
                  Prim("append", <<Y>>), Prim("append", <<Y, Y>>), Prim("append", <<Nil, Y>>),
                  Prim("append", <<Y, Shown(One, Y), Shown(Two, Nil)>>),
                  Car(Prim("append", <<Y, One>>)), If(Prim("null?", <<Y>>), Two, Y),
                  If(No, Prim("list", <<Y>>), Pairing(Y, Y)),
                  Call(Lambda(<<"p">>, Car(P)), <<Y>>),
                  Call(Lambda(<<"p">>, Prim("list", <<P, X>>)), <<Y>>),
                  AssignThen("x", Prim("list", <<X, Y>>), Prim("length", <<X>>))}
                 \union UNION {at(i) : i \in {Const(Fixnum(0)), One, Two, Const(Fixnum(-1)), No}}
  IN Scripts({Let1("x", One, Let1("y", e, use)) : e \in lists, use \in uses})
     \union {<<Procedure("h", <<"y">>, use), Expression(Prim("list", <<Call(Var("h"), <<e>>)>>))>> :
               e \in lists, use \in {Car(Y), Prim("append", <<>>), Prim("append", <<Y, Nil>>),
                                    Quote(List(<<A>>)), Prim("list", <<Y>>), Prim("list", <<>>)}}
     \union Scripts({Prim("append", <<Lambda(<<>>, One)>>), Prim("list", <<Lambda(<<>>, One)>>),
                     Prim("append", <<>>)})

SoundPrograms ==
  ListPrograms \union BuiltinPrograms \union CapturePrograms \union ShadowPrograms \union LetrecPrograms
  \union KindPrograms \union DerivedPrograms

\* A variable of the name of a builtin, which let binds.
HidingPrograms ==
  Scripts({Let1("car", Lambda(<<"p">>, P), Call(Var("car"), <<a>>)) : a \in Inits})
=============================================================================
