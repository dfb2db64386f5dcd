----------------------------- MODULE HeapClients -----------------------------
(***************************************************************************)
(* The code that allocates, over MovingHeap, one client in a behaviour:    *)
(*   worker    the loop of run_mutator_stress_checked                      *)
(*   gcStress  gc_stress_checked                                           *)
(*   append    append_two_lists, its arguments rooted by the caller        *)
(*   cons      alloc_pair_checked on a word the caller has in a rooted slot*)
(*   cells     mlisp_alloc_box, then mlisp_box_set_gc on it again and again*)
(*   operands  the code compile_vector emits for (vector (cons 1 1) ...)   *)
(* A collection starts at a poll, and inside an allocation of the clients  *)
(* in AllocCollects.                                                       *)
(***************************************************************************)
EXTENDS MovingHeap

CONSTANTS
  Clients,         \* the clients to choose from
  Iterations,      \* their iterations
  AllocCollects,   \* the clients in whose allocations a collection may start
  LeftElements     \* what the list has in it that append copies

AllClients == {"worker", "gcStress", "append", "cons", "cells", "operands"}

ASSUME ClientsAssumption ==
  /\ Clients \subseteq AllClients
  /\ Iterations \in Nat \ {0}
  /\ AllocCollects \subseteq Clients
  /\ Slot = {"local_root", "shared", "box", "left", "right"}
  /\ LeftElements \in Seq({"right", "immediate"})

VARIABLES
  client, pc,
  todo,        \* iterations left
  local,       \* words in native locals and registers
  elements,    \* the Vec of append_two_lists, the alloca of compile_vector
  published    \* history: pairs the worker put on the shared list

clientVars == <<todo, elements, published>>
vars == <<heapVars, rootVars, slot, collections, client, pc, local, clientVars>>

LocalNames == {"object", "string", "vector", "word", "result"}

\* Where a client allocates.
AllocPcs ==
  {"pair", "string", "vector", "stressPair", "cons", "consCar", "box", "operand", "vectorOf"}

Pcs == AllocPcs \union
  {"begin", "poll", "store", "boxSet", "walk", "call", "pop", "done", "failed"}

EmptyHeap == [a \in {} |-> Imm]

Pair(car, cdr) == [kind |-> "pair", fields |-> <<car, cdr>>]

\* An element of the left argument: the right one, or an immediate.
Element(i, right) == IF LeftElements[i] = "right" THEN right ELSE Imm

\* The cdr that leads to the i-th of these pairs; behind them is last.
Cdr(pairs, i, last) == IF i \in DOMAIN pairs THEN pairs[i] ELSE last

ListedPair(pairs, i, last, right) == Pair(Element(i, right), Cdr(pairs, i + 1, last))

\* The arguments of append and cons, which the caller has in roots: a list of the
\* pairs left, which may share the other argument, a pair itself.
TwoLists(left, right) ==
  [a \in {left[i] : i \in DOMAIN left} \union {right} |->
     IF a = right THEN Pair(Imm, Imm)
     ELSE ListedPair(left, CHOOSE i \in DOMAIN left : left[i] = a, Imm, right)]

Init ==
  /\ HeapInit
  /\ client \in Clients
  /\ IF client \in {"append", "cons"}
     THEN \E right \in Addr : \E left \in [DOMAIN LeftElements -> Addr \ {right}] :
            /\ \A i, j \in DOMAIN left : left[i] = left[j] => i = j
            /\ heap = TwoLists(left, right)
            /\ slot = [x \in Slot |-> CASE x = "left" -> Cdr(left, 1, Imm)
                                       [] x = "right" -> right
                                       [] OTHER -> Imm]
     ELSE heap = EmptyHeap /\ slot = [x \in Slot |-> Imm]
  /\ pc = "begin"
  /\ todo = Iterations
  /\ local = [n \in LocalNames |-> Imm]
  /\ elements = <<>>
  /\ published = 0

-----------------------------------------------------------------------------

Goto(label) == pc' = label

SetLocal(n, word) == local' = [local EXCEPT ![n] = word]

SetSlot(s, word) == slot' = [slot EXCEPT ![s] = word]

FirstPc ==
  [c \in AllClients |-> CASE c \in {"worker", "gcStress"} -> "poll"
                          [] c = "append" -> "walk"
                          [] c = "cons" -> "call"
                          [] c = "cells" -> "box"
                          [] c = "operands" -> "operand"]

\* The roots a client registers before it works.
Begin ==
  /\ pc = "begin"
  /\ Goto(FirstPc[client])
  /\ CASE client = "worker" -> PushRoot("local_root") /\ RegisterGlobalRoot("shared")
       [] client = "gcStress" -> PushRoot("local_root") /\ UNCHANGED globals
       [] client = "cells" -> PushRoot("box") /\ UNCHANGED globals
       [] client = "operands" -> UNCHANGED rootVars
       [] OTHER -> stack' = <<"left", "right">> /\ UNCHANGED globals
  /\ SetLocal("result", slot["right"])
  /\ UNCHANGED <<heapVars, slot, collections, client, clientVars>>

\* gc_poll_current_checked; a collection there is a Collect step.
Poll ==
  /\ pc = "poll"
  /\ Goto(CASE client = "gcStress" -> "string" [] OTHER -> "pair")
  /\ UNCHANGED <<heapVars, rootVars, slot, collections, client, local, clientVars>>

\* The client is in alloc_slow: append is, while it has an element to cons.
Allocating == pc \in AllocPcs /\ (pc = "cons" => elements # <<>>)

\* MMTk collects while the client is at a safepoint.
GarbageCollection ==
  /\ pc = "poll" \/ (client \in AllocCollects /\ Allocating)
  /\ Collect
  /\ UNCHANGED <<client, pc, local, clientVars>>

\* Variant: the loop's test sees the count before the decrement.
EndIterationLate ==
  /\ todo' = todo - 1
  /\ Goto(IF todo = 0 THEN "pop" ELSE "poll")

\* The end of an iteration.
EndIteration ==
  /\ todo' = todo - 1
  /\ Goto(IF todo = 1 THEN "pop" ELSE "poll")

\* A pair of two fixnums.
AllocPair ==
  /\ pc = "pair"
  /\ \E a \in Addr : Alloc(a, "pair", <<Imm, Imm>>) /\ SetLocal("object", a)
  /\ Goto(IF client = "worker" THEN "store" ELSE "boxSet")
  /\ UNCHANGED <<rootVars, slot, collections, client, clientVars>>

\* The worker links the pair to the shared list and publishes it.
WorkerStore ==
  /\ pc = "store"
  /\ ObjectWritePost(local["object"], 2, slot["shared"])
  /\ slot' = [slot EXCEPT !["local_root"] = local["object"], !["shared"] = local["object"]]
  /\ published' = published + 1
  /\ EndIteration
  /\ UNCHANGED <<rootVars, collections, client, local, elements>>

AllocBox ==
  /\ pc = "box"
  /\ \E a \in Addr : Alloc(a, "box", <<Imm>>) /\ SetSlot("box", a)
  /\ Goto("poll")
  /\ UNCHANGED <<rootVars, collections, client, local, clientVars>>

BoxSet ==
  /\ pc = "boxSet"
  /\ ObjectWritePost(slot["box"], 1, local["object"])
  /\ EndIteration
  /\ UNCHANGED <<rootVars, slot, collections, client, local, elements, published>>

StressString ==
  /\ pc = "string"
  /\ \E a \in Addr : Alloc(a, "string", <<>>) /\ SetLocal("string", a)
  /\ Goto("vector")
  /\ UNCHANGED <<rootVars, slot, collections, client, clientVars>>

StressVector ==
  /\ pc = "vector"
  /\ \E a \in Addr : Alloc(a, "vector", <<Imm, local["string"], Imm>>) /\ SetLocal("vector", a)
  /\ Goto("stressPair")
  /\ UNCHANGED <<rootVars, slot, collections, client, clientVars>>

StressPair ==
  /\ pc = "stressPair"
  /\ \E a \in Addr :
       Alloc(a, "pair", <<local["vector"], local["string"]>>) /\ SetSlot("local_root", a)
  /\ EndIteration
  /\ UNCHANGED <<rootVars, collections, client, local, elements, published>>

\* append_two_lists walks left, keeping its elements in a Vec, and then conses
\* them on the result from the last.
AppendWalk ==
  /\ pc = "walk"
  /\ LET cell == IF elements = <<>> THEN slot["left"] ELSE local["word"]
     IN IF cell = Imm
        THEN Goto("cons") /\ UNCHANGED <<local, elements>>
        ELSE /\ elements' = Append(elements, heap[cell].fields[1])
             /\ SetLocal("word", heap[cell].fields[2])
             /\ UNCHANGED pc
  /\ UNCHANGED <<heapVars, rootVars, slot, collections, client, todo, published>>

\* Variant: conses from the first element.
AppendConsForward ==
  /\ pc = "cons"
  /\ elements # <<>>
  /\ \E a \in Addr :
       /\ Alloc(a, "pair", <<elements[1], local["result"]>>)
       /\ SetLocal("result", a)
  /\ elements' = Tail(elements)
  /\ UNCHANGED <<rootVars, slot, collections, client, pc, todo, published>>

AppendCons ==
  /\ pc = "cons"
  /\ elements # <<>>
  /\ \E a \in Addr :
       /\ Alloc(a, "pair", <<elements[Len(elements)], local["result"]>>)
       /\ SetLocal("result", a)
  /\ elements' = SubSeq(elements, 1, Len(elements) - 1)
  /\ UNCHANGED <<rootVars, slot, collections, client, pc, todo, published>>

\* The caller puts the result in a slot of its own.
AppendReturn ==
  /\ pc = "cons"
  /\ elements = <<>>
  /\ SetSlot("local_root", local["result"])
  /\ Goto("done")
  /\ UNCHANGED <<heapVars, rootVars, collections, client, local, clientVars>>

\* alloc_pair_checked takes its words by value; the caller has the car in a root.
ConsCall ==
  /\ pc = "call"
  /\ SetLocal("word", slot["left"])
  /\ Goto("consCar")
  /\ UNCHANGED <<heapVars, rootVars, slot, collections, client, clientVars>>

ConsAlloc ==
  /\ pc = "consCar"
  /\ \E a \in Addr : Alloc(a, "pair", <<local["word"], Imm>>) /\ SetSlot("right", a)
  /\ Goto("done")
  /\ UNCHANGED <<rootVars, collections, client, local, clientVars>>

\* The operands of a vector expression, one allocation each; the alloca that
\* keeps their words is no root.
VectorOperand ==
  /\ pc = "operand"
  /\ \E a \in Addr :
       Alloc(a, "pair", <<Imm, Imm>>) /\ elements' = Append(elements, a)
  /\ Goto(IF Len(elements) = 1 THEN "vectorOf" ELSE "operand")
  /\ UNCHANGED <<rootVars, slot, collections, client, local, todo, published>>

VectorOfOperands ==
  /\ pc = "vectorOf"
  /\ \E a \in Addr : Alloc(a, "vector", elements) /\ SetLocal("vector", a)
  /\ Goto("done")
  /\ UNCHANGED <<rootVars, slot, collections, client, clientVars>>

\* Variant: returns with its root still on the shadow stack.
PopForgotten ==
  /\ pc = "pop"
  /\ Goto("done")
  /\ UNCHANGED <<heapVars, rootVars, slot, collections, client, local, clientVars>>

Pop ==
  /\ pc = "pop"
  /\ PopRoot
  /\ Goto("done")
  /\ UNCHANGED <<heapVars, globals, slot, collections, client, local, clientVars>>

\* alloc_slow finds no room.
AllocationFailed ==
  /\ Allocating
  /\ Addr \subseteq DOMAIN heap
  /\ Goto("failed")
  /\ UNCHANGED <<heapVars, rootVars, slot, collections, client, local, clientVars>>

Step ==
  \/ Begin \/ Poll \/ AllocPair \/ WorkerStore \/ AllocBox \/ BoxSet
  \/ StressString \/ StressVector \/ StressPair
  \/ AppendWalk \/ AppendCons \/ AppendReturn
  \/ ConsCall \/ ConsAlloc \/ VectorOperand \/ VectorOfOperands
  \/ Pop \/ AllocationFailed

Next == Step \/ GarbageCollection

Spec == Init /\ [][Next]_vars

-----------------------------------------------------------------------------
(* Properties.                                                             *)

\* Every variable of the heap and of the client holds a value of its kind.
TypeOK ==
  /\ HeapTypeOK
  /\ client \in Clients
  /\ pc \in Pcs
  /\ todo \in 0 .. Iterations
  /\ local \in [LocalNames -> Word]
  /\ elements \in Seq(Word)
  /\ published \in 0 .. Iterations

\* A collection is invisible to the code that it interrupts: every object that is
\* left is one that was there, no two of them the same one, with the kind it had
\* and with fields that refer to the objects they referred to, and so do the
\* registered slots.  Sharing and cycles are what they were.
CollectionInvisible ==
  [][collections' # collections =>
       \E from \in [DOMAIN heap' -> DOMAIN heap] :
         /\ \A x, y \in DOMAIN heap' : from[x] = from[y] => x = y
         /\ \A x \in DOMAIN heap' :
              /\ heap'[x].kind = heap[from[x]].kind
              /\ DOMAIN heap'[x].fields = DOMAIN heap[from[x]].fields
              /\ \A i \in DOMAIN heap'[x].fields :
                   SameReferent(from, heap'[x].fields[i], heap[from[x]].fields[i])
         /\ \A s \in RootSlots : SameReferent(from, slot'[s], slot[s])]_vars

\* The shared list of a worker holds exactly the pairs it published, in a chain
\* that ends in the initial word, whatever was moved.
PublishedListIntact ==
  client = "worker" =>
    IF published = 0 THEN slot["shared"] = Imm
    ELSE \E chain \in [1 .. published -> DOMAIN heap] :
           /\ chain[1] = slot["shared"]
           /\ \A i, j \in 1 .. published : chain[i] = chain[j] => i = j
           /\ \A i \in 1 .. published :
                heap[chain[i]].kind = "pair" /\
                heap[chain[i]].fields[2] = IF i = published THEN Imm ELSE chain[i + 1]

\* The pairs are a list of LeftElements that starts at head and ends in last.
ListAt(pairs, head, last) ==
  /\ head = Cdr(pairs, 1, last)
  /\ \A i \in DOMAIN pairs : heap[pairs[i]] = ListedPair(pairs, i, last, slot["right"])

\* append returns a new list of the elements of left, in their order, that ends
\* in right itself, and leaves left as it was.
AppendShares ==
  client = "append" /\ pc = "done" =>
    \E left, copy \in [DOMAIN LeftElements -> DOMAIN heap] :
      /\ ListAt(left, slot["left"], Imm)
      /\ ListAt(copy, slot["local_root"], slot["right"])
      /\ \A i, j \in DOMAIN LeftElements : copy[i] # left[j] /\ copy[i] # slot["right"]

\* The object at word, if there is one, is of this kind and has these fields.
Holds(word, kind, fields) ==
  Resolves(word) /\ word # Imm /\ heap[word] = [kind |-> kind, fields |-> fields]

\* What a call builds refers to what it was given, wherever collections fall in
\* it: a pair, in alloc_pair_checked; the pair on the vector and the string, in
\* gc_stress_checked; the copy, in append; the operands, in compiled code.
BuiltAsGiven ==
  /\ client = "cons" /\ pc = "done" => Holds(slot["right"], "pair", <<slot["left"], Imm>>)
  /\ client = "gcStress" /\ todo < Iterations /\ pc = "pop" =>
       \E string, vector \in DOMAIN heap :
         /\ Holds(slot["local_root"], "pair", <<vector, string>>)
         /\ Holds(vector, "vector", <<Imm, string, Imm>>)
         /\ Holds(string, "string", <<>>)
  /\ AppendShares
  /\ client = "operands" /\ pc = "done" =>
       \E first, second \in DOMAIN heap :
         /\ first # second
         /\ Holds(local["vector"], "vector", <<first, second>>)
         /\ Holds(first, "pair", <<Imm, Imm>>) /\ Holds(second, "pair", <<Imm, Imm>>)

\* A call that returned left the shadow stack as it found it (append and cons
\* leave the caller's roots).
ShadowStackBalanced ==
  pc = "done" => stack = IF client \in {"append", "cons"} THEN <<"left", "right">> ELSE <<>>

=============================================================================
