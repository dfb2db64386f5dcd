--------------------------- MODULE MCCompileDriver ---------------------------
(***************************************************************************)
(* TLC instance of CompileDriver: up to three of the stems a, a-, a_ and   *)
(* the one without a character, where a- and a_ have one module name.      *)
(***************************************************************************)
EXTENDS CompileDriver

MCAlphanumeric == {"a", "m", "o", "d", "u", "l", "e"}
Stems == {<<"a">>, <<"a", "-">>, <<"a", "_">>, <<>>}
MCInputLists == {<<>>} \union [1 .. 1 -> Stems] \union [1 .. 2 -> Stems] \union [1 .. 3 -> Stems]
=============================================================================
