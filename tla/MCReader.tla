------------------------------ MODULE MCReader ------------------------------
(* Texts put together from pieces.                                         *)
EXTENDS Reader

MCCodePoints ==
  <<"x", "1", "-", "(", ")", "'", " ", "\n",
    "\"", "\\", "#", ";", "t", "n", "s", "p", "a", "c", "e",
    "q", "u", "o">>

Bare == {<<"(">>, <<")">>, <<"'">>, <<" ">>, <<"1">>, <<"x">>, <<"\"", "x", "\"">>}

Pieces ==
  Bare \union
  {<<"-">>, <<"\\">>, <<"#">>, <<"\"">>, <<"#", "t">>, <<"#", "\\">>, <<"\\", "n">>,
   <<";", "x", "\n">>, <<";", "'">>, <<"#", "\\", "s", "p", "a", "c", "e">>}

\* Up to n pieces of S.
OfPieces(S, n) ==
  FoldLeft(LAMBDA ts, i : ts \union {t \o p : t \in ts, p \in S}, {<<>>}, [i \in 1 .. n |-> i])

MCTexts ==
  OfPieces(Bare, 5) \union OfPieces(Pieces, 3) \union OfPieces({<<"1">>, <<"-">>}, 5) \union
  {<<"(", "(">> \o t : t \in OfPieces(Bare, 4)}
=============================================================================
