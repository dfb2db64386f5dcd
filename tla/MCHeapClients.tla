---------------------------- MODULE MCHeapClients ----------------------------
(***************************************************************************)
(* TLC instances of HeapClients.                                           *)
(***************************************************************************)
EXTENDS HeapClients, TLC

Slots == {"local_root", "shared", "box", "left", "right"}
Rooted == {"worker", "cells"}
EveryClient == AllClients
TwoElements == <<"right", "immediate">>
Unrooted == {"gcStress", "append", "cons", "operands"}

AddrSymmetry == Permutations(Addr)
=============================================================================
