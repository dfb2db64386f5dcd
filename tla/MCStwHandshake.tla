--------------------------- MODULE MCStwHandshake ---------------------------
(***************************************************************************)
(* TLC instances of StwHandshake.                                          *)
(***************************************************************************)
EXTENDS StwHandshake

NoThread == {}
EveryThread == Threads
=============================================================================
