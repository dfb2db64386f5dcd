-------------------------- MODULE HeapClientsProofs --------------------------
(***************************************************************************)
(* Proofs about the moving heap and its clients, for heaps of every size   *)
(* and any number of iterations and collections, when a collection may     *)
(* start only at polls and in the allocations of the clients that keep no  *)
(* word but in roots.  What the barrier owes a nursery collection is       *)
(* BarrierInv: an old object that is not remembered refers to old objects  *)
(* only.                                                                   *)
(***************************************************************************)
EXTENDS HeapClients, TLAPS, SequenceTheorems

\* The clients that keep no word but in roots over an allocation.
RootedClients == {"worker", "cells"}

ScannedKinds == {"pair", "box", "closure", "vector"}

\* An object that has fields is one of those whose fields are scanned.
ScannedInv ==
  \A a \in DOMAIN heap : \A i \in DOMAIN heap[a].fields : heap[a].kind \in ScannedKinds

BarrierInv ==
  \A a \in old \ remembered :
    \A i \in DOMAIN heap[a].fields : heap[a].fields[i] \in old \union {Imm}

HeapInv == HeapTypeOK /\ HeapClosed /\ ScannedInv /\ BarrierInv

\* The program counters of each client between its first step and its end.
PcsOf(c) ==
  CASE c = "worker"   -> {"poll", "pair", "store", "pop"}
    [] c = "gcStress" -> {"poll", "string", "vector", "stressPair", "pop"}
    [] c = "append"   -> {"walk", "cons"}
    [] c = "cons"     -> {"call", "consCar"}
    [] c = "cells"    -> {"box", "poll", "pair", "boxSet", "pop"}
    [] c = "operands" -> {"operand", "vectorOf"}

StackOf(c) ==
  CASE c \in {"worker", "gcStress"} -> <<"local_root">>
    [] c = "cells"                  -> <<"box">>
    [] c \in {"append", "cons"}     -> <<"left", "right">>
    [] c = "operands"               -> <<>>

GlobalsOf(c) == IF c = "worker" THEN {"shared"} ELSE {}

\* Which roots are registered when, and how many iterations are left.
ControlInv ==
  /\ client \in Clients
  /\ pc \in PcsOf(client) \union {"begin", "done", "failed"}
  /\ todo \in 0 .. Iterations /\ published \in Nat /\ published + todo <= Iterations
  /\ pc \notin {"pop", "done", "failed"} => todo >= 1
  /\ pc = "begin" => stack = <<>> /\ globals = {}
  /\ pc # "begin" => globals = GlobalsOf(client)
  /\ pc \notin {"begin", "done"} => stack = StackOf(client)
  /\ ShadowStackBalanced

\* The words a client holds outside the roots, where it still reads them; append
\* walks over pairs.
LocalsInv ==
  /\ local \in [LocalNames -> Word] /\ elements \in Seq(Word)
  /\ pc = "begin" => elements = <<>> /\ \A s \in Slot : Resolves(slot[s])
  /\ pc \in {"store", "boxSet"} => Resolves(local["object"])
  /\ pc \in {"vector", "stressPair"} => Resolves(local["string"])
  /\ pc = "stressPair" => Resolves(local["vector"])
  /\ pc \in {"walk", "cons"} => Resolves(local["result"])
  /\ pc \in {"begin", "walk", "consCar"} => Resolves(local["word"])
  /\ pc \in {"walk", "cons", "operand", "vectorOf"} =>
       \A i \in DOMAIN elements : Resolves(elements[i])
  /\ client = "append" => \A a \in DOMAIN heap : Len(heap[a].fields) = 2

Inv == HeapInv /\ ControlInv /\ LocalsInv

-----------------------------------------------------------------------------
(* The heap.                                                               *)

\* A new object whose fields resolve keeps the heap as it should be.
LEMMA AllocHeapInv ==
  ASSUME HeapInv, NEW a, NEW kind \in Kinds, NEW fields \in Seq(Word), Alloc(a, kind, fields),
         \A i \in DOMAIN fields : Resolves(fields[i]) /\ kind \in ScannedKinds,
         UNCHANGED <<rootVars, collections>>, slot' \in [Slot -> Word],
         \A s \in RootSlots : slot'[s] = a \/ Resolves(slot'[s])
  PROVE  /\ HeapInv'
         /\ a \in Addr /\ DOMAIN heap' = DOMAIN heap \union {a}
         /\ heap'[a].fields = fields
         /\ \A x \in DOMAIN heap : heap'[x] = heap[x]
<1> USE DEF HeapInv, Alloc, rootVars
<1>1. /\ a \in Addr /\ a \notin DOMAIN heap
      /\ DOMAIN heap' = DOMAIN heap \union {a}
      /\ heap'[a] = [kind |-> kind, fields |-> fields]
      /\ \A x \in DOMAIN heap : heap'[x] = heap[x]
  OBVIOUS
<1>2. RootSlots' = RootSlots
  BY DEF RootSlots
<1>3. HeapTypeOK'
  BY <1>1 DEF HeapTypeOK, Object
<1>5. HeapClosed'
  <2>1. ASSUME NEW x \in DOMAIN heap', NEW i \in DOMAIN heap'[x].fields
        PROVE  heap'[x].fields[i] = Imm \/ heap'[x].fields[i] \in DOMAIN heap'
    <3>1. CASE x = a
      BY <1>1, <3>1 DEF Resolves
    <3>2. CASE x # a
      BY <1>1, <3>2 DEF HeapClosed, Resolves
    <3> QED
      BY <3>1, <3>2
  <2>2. \A s \in RootSlots : slot'[s] = Imm \/ slot'[s] \in DOMAIN heap'
    BY <1>1 DEF Resolves
  <2> QED
    BY <1>2, <2>1, <2>2 DEF HeapClosed, Resolves
<1>6. ScannedInv'
  BY <1>1 DEF ScannedInv
<1>7. BarrierInv'
  BY <1>1 DEF BarrierInv, HeapTypeOK
<1> QED
  BY <1>1, <1>3, <1>5, <1>6, <1>7

\* An overwritten element is the only one that changes.
LEMMA Overwritten ==
  ASSUME NEW S, NEW s \in Seq(S), NEW index, NEW e \in S
  PROVE  /\ [s EXCEPT ![index] = e] \in Seq(S)
         /\ DOMAIN [s EXCEPT ![index] = e] = DOMAIN s
         /\ \A i \in DOMAIN s : [s EXCEPT ![index] = e][i] = IF i = index THEN e ELSE s[i]
<1>1. DOMAIN s = 1 .. Len(s)
  OBVIOUS
<1>2. CASE index \in 1 .. Len(s)
  BY <1>1, <1>2, ExceptSeq
<1>3. CASE index \notin 1 .. Len(s)
  <2>1. [s EXCEPT ![index] = e] = s
    BY <1>1, <1>3
  <2> QED
    BY <1>1, <1>3, <2>1
<1> QED
  BY <1>2, <1>3

\* A store with the barrier does, too.
LEMMA WriteHeapInv ==
  ASSUME HeapInv, NEW src, NEW index, NEW target \in Word, ObjectWritePost(src, index, target),
         Resolves(target), UNCHANGED <<rootVars, collections>>, slot' \in [Slot -> Word],
         \A s \in RootSlots : Resolves(slot'[s])
  PROVE  /\ HeapInv'
         /\ DOMAIN heap' = DOMAIN heap
         /\ \A x \in DOMAIN heap : DOMAIN heap'[x].fields = DOMAIN heap[x].fields
<1> USE DEF HeapInv, rootVars
<1>1. /\ DOMAIN heap' = DOMAIN heap
      /\ \A x \in DOMAIN heap : x # src => heap'[x] = heap[x]
      /\ src \in DOMAIN heap => heap'[src] = [heap[src] EXCEPT !.fields[index] = target]
      /\ old' = old
      /\ remembered' = IF src \in old THEN remembered \union {src} ELSE remembered
  BY DEF ObjectWritePost
<1>2. RootSlots' = RootSlots
  BY DEF RootSlots
<1>3. ASSUME src \in DOMAIN heap
      PROVE  /\ heap'[src] \in Object /\ heap'[src].kind = heap[src].kind
             /\ DOMAIN heap'[src].fields = DOMAIN heap[src].fields
             /\ \A i \in DOMAIN heap[src].fields :
                  heap'[src].fields[i] = IF i = index THEN target ELSE heap[src].fields[i]
  <2>1. heap[src] \in Object
    BY <1>3 DEF HeapTypeOK
  <2>2. heap[src].fields \in Seq(Word)
    BY <2>1 DEF Object
  <2>3. /\ heap'[src].kind = heap[src].kind
        /\ heap'[src].fields = [heap[src].fields EXCEPT ![index] = target]
        /\ heap'[src] = [kind |-> heap'[src].kind, fields |-> heap'[src].fields]
    BY <1>1, <1>3, <2>1 DEF Object
  <2>4. heap'[src].fields \in Seq(Word)
    BY <2>2, <2>3, Overwritten
  <2>5. heap'[src] \in Object
    BY <2>1, <2>3, <2>4 DEF Object
  <2> QED
    BY <2>2, <2>3, <2>5, Overwritten
<1>4. HeapTypeOK'
  BY <1>1, <1>3 DEF HeapTypeOK
<1>6. HeapClosed'
  <2>1. ASSUME NEW x \in DOMAIN heap', NEW i \in DOMAIN heap'[x].fields
        PROVE  heap'[x].fields[i] = Imm \/ heap'[x].fields[i] \in DOMAIN heap'
    <3>1. CASE x = src
      BY <1>1, <1>3, <3>1 DEF HeapClosed, Resolves
    <3>2. CASE x # src
      BY <1>1, <3>2 DEF HeapClosed, Resolves
    <3> QED
      BY <3>1, <3>2
  <2>2. \A s \in RootSlots : slot'[s] = Imm \/ slot'[s] \in DOMAIN heap'
    BY <1>1 DEF Resolves
  <2> QED
    BY <1>2, <2>1, <2>2 DEF HeapClosed, Resolves
<1>7. ScannedInv'
  BY <1>1, <1>3 DEF ScannedInv
<1>8. BarrierInv'
  BY <1>1 DEF BarrierInv, HeapTypeOK
<1> QED
  BY <1>1, <1>3, <1>4, <1>6, <1>7, <1>8

-----------------------------------------------------------------------------
(* A collection.                                                           *)

\* The object at the new address of a survivor.
LEMMA MovedObject ==
  ASSUME NEW nursery \in BOOLEAN, NEW kept \in SUBSET DOMAIN heap, NEW move \in [kept -> Addr],
         CollectWith(nursery, kept, move), NEW a \in kept
  PROVE  heap'[move[a]] =
           IF a \in TracedObjects(nursery)
           THEN [heap[a] EXCEPT !.fields =
                   [i \in DOMAIN heap[a].fields |-> Moved(move, heap[a].fields[i])]]
           ELSE heap[a]
<1> DEFINE back(x) == CHOOSE b \in kept : move[b] = x
           new(b) == IF b \in TracedObjects(nursery)
                     THEN [heap[b] EXCEPT !.fields =
                             [i \in DOMAIN heap[b].fields |-> Moved(move, heap[b].fields[i])]]
                     ELSE heap[b]
<1>1. back(move[a]) \in kept /\ move[back(move[a])] = move[a]
  OBVIOUS
<1>2. back(move[a]) = a
  BY <1>1 DEF CollectWith
<1>3. heap' = [x \in {move[b] : b \in kept} |-> new(back(x))]
  BY DEF CollectWith
<1>4. heap'[move[a]] = new(back(move[a]))
  <2> HIDE DEF new, back
  <2> QED
    BY <1>3
<1> QED
  BY <1>2, <1>4

\* A collection leaves the heap as it should be: every reference that was left
\* alone refers to an object that was left alone.
LEMMA CollectHeapInv ==
  ASSUME HeapInv, Collect
  PROVE  HeapInv'
<1> USE DEF HeapInv
<1>1. PICK nursery \in BOOLEAN, kept \in SUBSET DOMAIN heap :
        \E move \in [kept -> Addr] : CollectWith(nursery, kept, move)
  BY DEF Collect
<1>2. PICK move \in [kept -> Addr] : CollectWith(nursery, kept, move)
  BY <1>1
<1>3. /\ DOMAIN heap' = {move[a] : a \in kept}
      /\ old' = DOMAIN heap' /\ remembered' = {}
      /\ stack' = stack /\ globals' = globals /\ RootSlots' = RootSlots
      /\ slot' = [s \in Slot |-> IF s \in RootSlots THEN Moved(move, slot[s]) ELSE slot[s]]
      /\ collections' \in 0 .. MaxCollections
  <2>1. /\ DOMAIN heap' = {move[a] : a \in kept} /\ old' = {move[a] : a \in kept}
        /\ remembered' = {} /\ stack' = stack /\ globals' = globals
        /\ slot' = [s \in Slot |-> IF s \in RootSlots THEN Moved(move, slot[s]) ELSE slot[s]]
        /\ collections' = collections + 1
    BY <1>2 DEF CollectWith, rootVars
  <2>2. RootSlots' = RootSlots
    BY <2>1 DEF RootSlots
  <2>3. collections + 1 \in 0 .. MaxCollections
    BY CollectionsAssumption DEF Collect, HeapTypeOK
  <2> QED
    BY <2>1, <2>2, <2>3
<1>4. \A w \in Word : Moved(move, w) \in Word
  BY DEF Moved, Word
<1>5. \A w \in kept \union {Imm} : Moved(move, w) \in DOMAIN heap' \union {Imm}
  BY <1>3, ImmAssumption DEF Moved, HeapTypeOK
<1>6. ASSUME NEW a \in kept, a \in TracedObjects(nursery)
      PROVE  /\ heap'[move[a]] \in Object /\ heap'[move[a]].kind = heap[a].kind
             /\ DOMAIN heap'[move[a]].fields = DOMAIN heap[a].fields
             /\ \A i \in DOMAIN heap[a].fields :
                  heap'[move[a]].fields[i] \in DOMAIN heap' \union {Imm}
  <2> DEFINE fields == [i \in DOMAIN heap[a].fields |-> Moved(move, heap[a].fields[i])]
  <2>1. heap[a] \in Object
    BY DEF HeapTypeOK
  <2>2. heap[a].fields \in Seq(Word)
    BY <2>1 DEF Object
  <2>3. fields \in Seq(Word)
    BY <1>4, <2>2
  <2>4. heap'[move[a]] = [heap[a] EXCEPT !.fields = fields]
    BY <1>2, <1>6, MovedObject
  <2>5. /\ heap'[move[a]] \in Object
        /\ heap'[move[a]].kind = heap[a].kind
        /\ heap'[move[a]].fields = fields
    <3> HIDE DEF fields
    <3> QED
      BY <2>1, <2>3, <2>4 DEF Object
  <2>6. ASSUME NEW i \in DOMAIN heap[a].fields
        PROVE  fields[i] \in DOMAIN heap' \union {Imm}
    <3>1. heap[a].kind \in ScannedKinds
      BY <2>6 DEF ScannedInv
    <3>2. heap[a].fields[i] \in ScannedFields(heap[a])
      BY <2>6, <3>1 DEF ScannedFields, ScannedKinds
    <3>3. heap[a].fields[i] \in kept \union {Imm}
      BY <1>2, <1>6, <3>2 DEF CollectWith, Retains
    <3> QED
      BY <1>5, <3>3
  <2> QED
    BY <2>5, <2>6
<1>7. ASSUME NEW a \in kept, a \notin TracedObjects(nursery)
      PROVE  /\ heap'[move[a]] = heap[a]
             /\ \A i \in DOMAIN heap[a].fields : heap[a].fields[i] \in DOMAIN heap' \union {Imm}
  <2>1. heap'[move[a]] = heap[a]
    <3>1. heap'[move[a]] =
            IF a \in TracedObjects(nursery)
            THEN [heap[a] EXCEPT !.fields =
                    [i \in DOMAIN heap[a].fields |-> Moved(move, heap[a].fields[i])]]
            ELSE heap[a]
      BY <1>2, MovedObject
    <3> QED
      BY <1>7, <3>1
  <2>2. nursery /\ a \in old \ remembered
    BY <1>7 DEF TracedObjects
  <2>3. \A w \in old : w \in kept /\ move[w] = w
    BY <1>2, <2>2 DEF CollectWith, Retains
  <2>4. old \subseteq DOMAIN heap'
    BY <1>3, <2>3
  <2> QED
    BY <2>1, <2>2, <2>4 DEF BarrierInv
<1>8. HeapTypeOK'
  <2>1. DOMAIN heap' \subseteq Addr
    BY <1>3
  <2>2. \A x \in DOMAIN heap' : heap'[x] \in Object
    BY <1>3, <1>6, <1>7 DEF HeapTypeOK
  <2>3. slot' \in [Slot -> Word]
    BY <1>3, <1>4 DEF HeapTypeOK
  <2> QED
    BY <1>3, <2>1, <2>2, <2>3 DEF HeapTypeOK
<1>9. \A x \in DOMAIN heap' : \A i \in DOMAIN heap'[x].fields :
        heap'[x].fields[i] \in DOMAIN heap' \union {Imm}
  BY <1>3, <1>6, <1>7
<1>10. HeapClosed'
  <2>1. ASSUME NEW s \in RootSlots
        PROVE  slot'[s] \in DOMAIN heap' \union {Imm}
    <3>1. s \in Slot
      BY DEF RootSlots, HeapTypeOK
    <3>2. slot[s] \in kept \union {Imm}
      BY <1>2 DEF CollectWith, Retains, RootWords
    <3> QED
      BY <1>3, <1>5, <3>1, <3>2
  <2> QED
    BY <1>3, <1>9, <2>1 DEF HeapClosed, Resolves
<1>11. ScannedInv'
  BY <1>3, <1>6, <1>7 DEF ScannedInv
<1>12. BarrierInv'
  BY <1>3, <1>9 DEF BarrierInv
<1> QED
  BY <1>8, <1>10, <1>11, <1>12

\* What a collection leaves is where the survivors were moved, and every word in it
\* and in the roots refers to what it referred to: a field that was not updated, in
\* an old object that the barrier had not logged, refers to an old object, which a
\* nursery collection does not move.
LEMMA CollectInvisible ==
  ASSUME HeapInv, Collect
  PROVE  \E from \in [DOMAIN heap' -> DOMAIN heap] :
           /\ \A x, y \in DOMAIN heap' : from[x] = from[y] => x = y
           /\ \A x \in DOMAIN heap' :
                /\ heap'[x].kind = heap[from[x]].kind
                /\ DOMAIN heap'[x].fields = DOMAIN heap[from[x]].fields
                /\ \A i \in DOMAIN heap'[x].fields :
                     SameReferent(from, heap'[x].fields[i], heap[from[x]].fields[i])
           /\ \A s \in RootSlots : SameReferent(from, slot'[s], slot[s])
<1> USE DEF HeapInv
<1>1. PICK nursery \in BOOLEAN, kept \in SUBSET DOMAIN heap :
        \E move \in [kept -> Addr] : CollectWith(nursery, kept, move)
  BY DEF Collect
<1>2. PICK move \in [kept -> Addr] : CollectWith(nursery, kept, move)
  BY <1>1
<1>3. /\ DOMAIN heap' = {move[a] : a \in kept}
      /\ slot' = [s \in Slot |-> IF s \in RootSlots THEN Moved(move, slot[s]) ELSE slot[s]]
      /\ \A a, b \in kept : move[a] = move[b] => a = b
  BY <1>2 DEF CollectWith
<1> DEFINE from == [x \in DOMAIN heap' |-> CHOOSE b \in kept : move[b] = x]
<1>4. \A x \in DOMAIN heap' : from[x] \in kept /\ move[from[x]] = x
  BY <1>3
<1>5. \A a \in kept : move[a] \in DOMAIN heap' /\ from[move[a]] = a
  BY <1>3, <1>4
<1>6. from \in [DOMAIN heap' -> DOMAIN heap] /\ DOMAIN from = DOMAIN heap'
  BY <1>4
<1> HIDE DEF from
<1>7. Imm \notin DOMAIN heap /\ DOMAIN move = kept
  BY ImmAssumption DEF HeapTypeOK
<1>8. \A word \in kept \union {Imm} : SameReferent(from, Moved(move, word), word)
  BY <1>5, <1>6, <1>7 DEF SameReferent, Moved
<1>9. ASSUME NEW a \in kept
      PROVE  /\ heap'[move[a]].kind = heap[a].kind
             /\ DOMAIN heap'[move[a]].fields = DOMAIN heap[a].fields
             /\ \A i \in DOMAIN heap[a].fields :
                  SameReferent(from, heap'[move[a]].fields[i], heap[a].fields[i])
  <2> DEFINE fields == [i \in DOMAIN heap[a].fields |-> Moved(move, heap[a].fields[i])]
  <2>1. heap[a] \in Object
    BY DEF HeapTypeOK
  <2>2. heap'[move[a]] =
          IF a \in TracedObjects(nursery) THEN [heap[a] EXCEPT !.fields = fields] ELSE heap[a]
    BY <1>2, MovedObject
  <2>3. CASE a \in TracedObjects(nursery)
    <3>1. heap'[move[a]].kind = heap[a].kind /\ heap'[move[a]].fields = fields
      <4> HIDE DEF fields
      <4> QED
        BY <2>1, <2>2, <2>3 DEF Object
    <3>2. ASSUME NEW i \in DOMAIN heap[a].fields
          PROVE  heap[a].fields[i] \in kept \union {Imm}
      <4>1. heap[a].kind \in ScannedKinds
        BY DEF ScannedInv
      <4>2. heap[a].fields[i] \in ScannedFields(heap[a])
        BY <4>1 DEF ScannedFields, ScannedKinds
      <4> QED
        BY <1>2, <2>3, <4>2 DEF CollectWith, Retains
    <3> QED
      BY <1>8, <3>1, <3>2
  <2>4. CASE a \notin TracedObjects(nursery)
    <3>1. heap'[move[a]] = heap[a]
      <4> HIDE DEF fields
      <4> QED
        BY <2>2, <2>4
    <3>2. nursery /\ a \in old \ remembered
      BY <2>4 DEF TracedObjects
    <3>3. \A word \in old : word \in kept /\ move[word] = word
      BY <1>2, <3>2 DEF CollectWith, Retains
    <3>4. ASSUME NEW i \in DOMAIN heap[a].fields
          PROVE  /\ heap[a].fields[i] \in kept \union {Imm}
                 /\ Moved(move, heap[a].fields[i]) = heap[a].fields[i]
      <4>1. heap[a].fields[i] \in old \union {Imm}
        BY <3>2 DEF BarrierInv
      <4> QED
        BY <1>7, <3>3, <4>1 DEF Moved
    <3>5. \A i \in DOMAIN heap[a].fields :
            SameReferent(from, heap[a].fields[i], heap[a].fields[i])
      BY <1>8, <3>4
    <3> QED
      BY <3>1, <3>5
  <2> QED
    BY <2>3, <2>4
<1>10. ASSUME NEW s \in RootSlots
       PROVE  SameReferent(from, slot'[s], slot[s])
  <2>1. s \in Slot
    BY DEF RootSlots, HeapTypeOK
  <2>2. slot[s] \in kept \union {Imm}
    BY <1>2 DEF CollectWith, Retains, RootWords
  <2> QED
    BY <1>3, <1>8, <2>1, <2>2
<1>11. ASSUME NEW x \in DOMAIN heap'
       PROVE  /\ heap'[x].kind = heap[from[x]].kind
              /\ DOMAIN heap'[x].fields = DOMAIN heap[from[x]].fields
              /\ \A i \in DOMAIN heap'[x].fields :
                   SameReferent(from, heap'[x].fields[i], heap[from[x]].fields[i])
  BY <1>4, <1>9
<1>12. \A x, y \in DOMAIN heap' : from[x] = from[y] => x = y
  BY <1>4
<1> QED
  BY <1>6, <1>10, <1>11, <1>12

-----------------------------------------------------------------------------
(* The control of the clients.                                             *)

\* Every step keeps the roots of each client where its code has them.
LEMMA ControlStep ==
  ASSUME ControlInv, [Next]_vars
  PROVE  ControlInv'
<1> USE DEF ControlInv, PcsOf, StackOf, GlobalsOf, ShadowStackBalanced, Goto, clientVars,
            rootVars, AllClients
<1> USE ClientsAssumption
<1>1. CASE Begin
  <2>1. Append(<<>>, "local_root") = <<"local_root">> /\ Append(<<>>, "box") = <<"box">>
    OBVIOUS
  <2> QED
    BY <1>1, <2>1 DEF Begin, FirstPc, PushRoot, RegisterGlobalRoot
<1>2. CASE Poll
  BY <1>2 DEF Poll
<1>3. CASE AllocPair
  BY <1>3 DEF AllocPair
<1>4. CASE WorkerStore
  BY <1>4 DEF WorkerStore, EndIteration
<1>5. CASE AllocBox
  BY <1>5 DEF AllocBox
<1>6. CASE BoxSet
  BY <1>6 DEF BoxSet, EndIteration
<1>7. CASE StressString
  BY <1>7 DEF StressString
<1>8. CASE StressVector
  BY <1>8 DEF StressVector
<1>9. CASE StressPair
  BY <1>9 DEF StressPair, EndIteration
<1>10. CASE AppendWalk
  BY <1>10 DEF AppendWalk
<1>11. CASE AppendCons
  BY <1>11 DEF AppendCons
<1>12. CASE AppendReturn
  BY <1>12 DEF AppendReturn
<1>13. CASE ConsCall
  BY <1>13 DEF ConsCall
<1>14. CASE ConsAlloc
  BY <1>14 DEF ConsAlloc
<1>15. CASE VectorOperand
  BY <1>15 DEF VectorOperand
<1>16. CASE VectorOfOperands
  BY <1>16 DEF VectorOfOperands
<1>17. CASE Pop
  <2>1. SubSeq(<<"local_root">>, 1, 0) = <<>> /\ SubSeq(<<"box">>, 1, 0) = <<>>
    OBVIOUS
  <2>2. stack' = <<>>
    BY <1>17, <2>1 DEF Pop, PopRoot
  <2> QED
    BY <1>17, <2>2 DEF Pop
<1>18. CASE AllocationFailed
  BY <1>18 DEF AllocationFailed, AllocPcs, Allocating
<1>19. CASE GarbageCollection
  BY <1>19 DEF GarbageCollection, Collect, CollectWith
<1>20. CASE UNCHANGED vars
  BY <1>20 DEF vars
<1> QED
  BY <1>1, <1>2, <1>3, <1>4, <1>5, <1>6, <1>7, <1>8, <1>9, <1>10, <1>11, <1>12, <1>13, <1>14,
     <1>15, <1>16, <1>17, <1>18, <1>19, <1>20 DEF Next, Step

-----------------------------------------------------------------------------
(* The words of the clients.                                               *)

\* What leaves the objects alone keeps the heap as it should be.
LEMMA FrameHeapInv ==
  ASSUME HeapInv, UNCHANGED <<heapVars, collections>>,
         stack' \in Seq(Slot), globals' \subseteq Slot, slot' \in [Slot -> Word],
         \A s \in RootSlots' : slot'[s] \in DOMAIN heap \union {Imm}
  PROVE  HeapInv'
<1> USE DEF HeapInv, heapVars
<1>1. HeapTypeOK'
  BY DEF HeapTypeOK
<1>2. HeapClosed'
  BY DEF HeapClosed, Resolves
<1>3. ScannedInv' /\ BarrierInv'
  BY DEF ScannedInv, BarrierInv
<1> QED
  BY <1>1, <1>2, <1>3

\* The left argument of append and cons is in a root until they return.
LEMMA LeftRooted ==
  ASSUME HeapInv, ControlInv, pc \in {"walk", "call"}
  PROVE  Resolves(slot["left"])
<1>1. stack = <<"left", "right">>
  BY ClientsAssumption DEF ControlInv, PcsOf, StackOf, AllClients
<1>2. 1 \in DOMAIN stack /\ stack[1] = "left"
  BY <1>1
<1>3. "left" \in RootSlots
  BY <1>2 DEF RootSlots
<1> QED
  BY <1>3 DEF HeapInv, HeapClosed

\* Elements that resolve, with one more that does.
LEMMA AppendResolves ==
  ASSUME NEW s \in Seq(Word), NEW w \in Word, NEW Good,
         \A i \in DOMAIN s : s[i] \in Good, w \in Good
  PROVE  /\ Append(s, w) \in Seq(Word)
         /\ \A i \in DOMAIN Append(s, w) : Append(s, w)[i] \in Good
<1>1. Append(s, w) \in Seq(Word) /\ Len(Append(s, w)) = Len(s) + 1
  OBVIOUS
<1>2. \A i \in 1 .. Len(s) : Append(s, w)[i] = s[i]
  OBVIOUS
<1>3. Append(s, w)[Len(s) + 1] = w
  OBVIOUS
<1> QED
  BY <1>1, <1>2, <1>3

\* The steps of the clients that allocate.
LEMMA AllocatingStep ==
  ASSUME Inv,
         \/ AllocPair \/ AllocBox \/ StressString \/ StressVector \/ StressPair \/ AppendCons
         \/ ConsAlloc \/ VectorOperand \/ VectorOfOperands
  PROVE  HeapInv' /\ LocalsInv'
<1> USE DEF Inv
<1>1. slot \in [Slot -> Word] /\ \A s \in RootSlots : s \in Slot /\ Resolves(slot[s])
  BY DEF HeapInv, HeapTypeOK, HeapClosed, RootSlots
<1>2. Imm \in Word /\ Addr \subseteq Word
  BY DEF Word
<1>3. elements # <<>> /\ elements \in Seq(Word) => Len(elements) \in DOMAIN elements
  OBVIOUS
<1>4. {"pair", "box", "string", "vector"} \subseteq Kinds
  BY DEF Kinds
<1>5. pc \in AllocPcs \ {"cons"} => client # "append"
  BY ClientsAssumption DEF ControlInv, PcsOf, AllClients, AllocPcs
<1>6. CASE AllocPair
  <2>1. PICK a \in Addr : Alloc(a, "pair", <<Imm, Imm>>) /\ SetLocal("object", a)
    BY <1>6 DEF AllocPair
  <2>2. /\ <<Imm, Imm>> \in Seq(Word)
        /\ \A i \in DOMAIN <<Imm, Imm>> : Resolves(<<Imm, Imm>>[i]) /\ "pair" \in ScannedKinds
    BY <1>6, <1>2, <1>3 DEF AllocPair, LocalsInv, Resolves, LocalNames, ScannedKinds
  <2>3. /\ UNCHANGED <<rootVars, collections>> /\ slot' \in [Slot -> Word]
        /\ \A s \in RootSlots : slot'[s] = a \/ Resolves(slot'[s])
    BY <1>6, <1>1, <1>2, <2>1 DEF AllocPair, SetSlot
  <2>4. /\ HeapInv' /\ DOMAIN heap' = DOMAIN heap \union {a}
        /\ heap'[a].fields = <<Imm, Imm>> /\ \A x \in DOMAIN heap : heap'[x] = heap[x]
    BY <1>4, <2>1, <2>2, <2>3, AllocHeapInv
  <2>5. LocalsInv'
    BY <1>6, <1>2, <1>5, <2>1, <2>4 DEF AllocPair, AllocPcs, LocalsInv, Resolves, Goto,
       SetLocal, SetSlot, LocalNames, EndIteration, clientVars
  <2> QED
    BY <2>4, <2>5
<1>7. CASE AllocBox
  <2>1. PICK a \in Addr : Alloc(a, "box", <<Imm>>) /\ SetSlot("box", a)
    BY <1>7 DEF AllocBox
  <2>2. /\ <<Imm>> \in Seq(Word)
        /\ \A i \in DOMAIN <<Imm>> : Resolves(<<Imm>>[i]) /\ "box" \in ScannedKinds
    BY <1>7, <1>2, <1>3 DEF AllocBox, LocalsInv, Resolves, LocalNames, ScannedKinds
  <2>3. /\ UNCHANGED <<rootVars, collections>> /\ slot' \in [Slot -> Word]
        /\ \A s \in RootSlots : slot'[s] = a \/ Resolves(slot'[s])
    BY <1>7, <1>1, <1>2, <2>1 DEF AllocBox, SetSlot
  <2>4. /\ HeapInv' /\ DOMAIN heap' = DOMAIN heap \union {a}
        /\ heap'[a].fields = <<Imm>> /\ \A x \in DOMAIN heap : heap'[x] = heap[x]
    BY <1>4, <2>1, <2>2, <2>3, AllocHeapInv
  <2>5. LocalsInv'
    BY <1>7, <1>2, <1>5, <2>1, <2>4 DEF AllocBox, AllocPcs, LocalsInv, Resolves, Goto,
       SetLocal, SetSlot, LocalNames, EndIteration, clientVars
  <2> QED
    BY <2>4, <2>5
<1>8. CASE StressString
  <2>1. PICK a \in Addr : Alloc(a, "string", <<>>) /\ SetLocal("string", a)
    BY <1>8 DEF StressString
  <2>2. /\ <<>> \in Seq(Word)
        /\ \A i \in DOMAIN <<>> : Resolves(<<>>[i]) /\ "string" \in ScannedKinds
    BY <1>8, <1>2, <1>3 DEF StressString, LocalsInv, Resolves, LocalNames, ScannedKinds
  <2>3. /\ UNCHANGED <<rootVars, collections>> /\ slot' \in [Slot -> Word]
        /\ \A s \in RootSlots : slot'[s] = a \/ Resolves(slot'[s])
    BY <1>8, <1>1, <1>2, <2>1 DEF StressString, SetSlot
  <2>4. /\ HeapInv' /\ DOMAIN heap' = DOMAIN heap \union {a}
        /\ heap'[a].fields = <<>> /\ \A x \in DOMAIN heap : heap'[x] = heap[x]
    BY <1>4, <2>1, <2>2, <2>3, AllocHeapInv
  <2>5. LocalsInv'
    BY <1>8, <1>2, <1>5, <2>1, <2>4 DEF StressString, AllocPcs, LocalsInv, Resolves, Goto,
       SetLocal, SetSlot, LocalNames, EndIteration, clientVars
  <2> QED
    BY <2>4, <2>5
<1>9. CASE StressVector
  <2> DEFINE fields == <<Imm, local["string"], Imm>>
  <2>1. PICK a \in Addr : Alloc(a, "vector", fields) /\ SetLocal("vector", a)
    BY <1>9 DEF StressVector
  <2>2. /\ fields \in Seq(Word)
        /\ \A i \in DOMAIN fields : Resolves(fields[i]) /\ "vector" \in ScannedKinds
    BY <1>9, <1>2, <1>3 DEF StressVector, LocalsInv, Resolves, LocalNames, ScannedKinds
  <2>3. /\ UNCHANGED <<rootVars, collections>> /\ slot' \in [Slot -> Word]
        /\ \A s \in RootSlots : slot'[s] = a \/ Resolves(slot'[s])
    BY <1>9, <1>1, <1>2, <2>1 DEF StressVector, SetSlot
  <2>4. /\ HeapInv' /\ DOMAIN heap' = DOMAIN heap \union {a}
        /\ heap'[a].fields = fields /\ \A x \in DOMAIN heap : heap'[x] = heap[x]
    BY <1>4, <2>1, <2>2, <2>3, AllocHeapInv
  <2>5. LocalsInv'
    BY <1>9, <1>2, <1>5, <2>1, <2>4 DEF StressVector, AllocPcs, LocalsInv, Resolves, Goto,
       SetLocal, SetSlot, LocalNames, EndIteration, clientVars
  <2> QED
    BY <2>4, <2>5
<1>10. CASE StressPair
  <2> DEFINE fields == <<local["vector"], local["string"]>>
  <2>1. PICK a \in Addr : Alloc(a, "pair", fields) /\ SetSlot("local_root", a)
    BY <1>10 DEF StressPair
  <2>2. /\ fields \in Seq(Word)
        /\ \A i \in DOMAIN fields : Resolves(fields[i]) /\ "pair" \in ScannedKinds
    BY <1>10, <1>2, <1>3 DEF StressPair, LocalsInv, Resolves, LocalNames, ScannedKinds
  <2>3. /\ UNCHANGED <<rootVars, collections>> /\ slot' \in [Slot -> Word]
        /\ \A s \in RootSlots : slot'[s] = a \/ Resolves(slot'[s])
    BY <1>10, <1>1, <1>2, <2>1 DEF StressPair, SetSlot
  <2>4. /\ HeapInv' /\ DOMAIN heap' = DOMAIN heap \union {a}
        /\ heap'[a].fields = fields /\ \A x \in DOMAIN heap : heap'[x] = heap[x]
    BY <1>4, <2>1, <2>2, <2>3, AllocHeapInv
  <2>5. LocalsInv'
    BY <1>10, <1>2, <1>5, <2>1, <2>4 DEF StressPair, AllocPcs, LocalsInv, Resolves, Goto,
       SetLocal, SetSlot, LocalNames, EndIteration, clientVars
  <2> QED
    BY <2>4, <2>5
<1>11. CASE AppendCons
  <2> DEFINE fields == <<elements[Len(elements)], local["result"]>>
  <2>1. PICK a \in Addr : Alloc(a, "pair", fields) /\ SetLocal("result", a)
    BY <1>11 DEF AppendCons
  <2>2. /\ fields \in Seq(Word)
        /\ \A i \in DOMAIN fields : Resolves(fields[i]) /\ "pair" \in ScannedKinds
    BY <1>11, <1>2, <1>3 DEF AppendCons, LocalsInv, Resolves, LocalNames, ScannedKinds
  <2>3. /\ UNCHANGED <<rootVars, collections>> /\ slot' \in [Slot -> Word]
        /\ \A s \in RootSlots : slot'[s] = a \/ Resolves(slot'[s])
    BY <1>11, <1>1, <1>2, <2>1 DEF AppendCons, SetSlot
  <2>4. /\ HeapInv' /\ DOMAIN heap' = DOMAIN heap \union {a}
        /\ heap'[a].fields = fields /\ \A x \in DOMAIN heap : heap'[x] = heap[x]
    BY <1>4, <2>1, <2>2, <2>3, AllocHeapInv
  <2>5. /\ elements' \in Seq(Word)
        /\ \A i \in DOMAIN elements' : i \in DOMAIN elements /\ elements'[i] = elements[i]
    BY <1>11 DEF AppendCons, LocalsInv
  <2>6. LocalsInv'
    BY <1>11, <1>2, <1>5, <2>1, <2>4, <2>5 DEF AppendCons, AllocPcs, LocalsInv, Resolves, Goto,
       SetLocal, SetSlot, LocalNames, EndIteration, clientVars
  <2> QED
    BY <2>4, <2>6
<1>12. CASE ConsAlloc
  <2>1. PICK a \in Addr : Alloc(a, "pair", <<local["word"], Imm>>) /\ SetSlot("right", a)
    BY <1>12 DEF ConsAlloc
  <2>2. /\ <<local["word"], Imm>> \in Seq(Word)
        /\ \A i \in DOMAIN <<local["word"], Imm>> :
             Resolves(<<local["word"], Imm>>[i]) /\ "pair" \in ScannedKinds
    BY <1>12, <1>2, <1>3 DEF ConsAlloc, LocalsInv, Resolves, LocalNames, ScannedKinds
  <2>3. /\ UNCHANGED <<rootVars, collections>> /\ slot' \in [Slot -> Word]
        /\ \A s \in RootSlots : slot'[s] = a \/ Resolves(slot'[s])
    BY <1>12, <1>1, <1>2, <2>1 DEF ConsAlloc, SetSlot
  <2>4. /\ HeapInv' /\ DOMAIN heap' = DOMAIN heap \union {a}
        /\ heap'[a].fields = <<local["word"], Imm>> /\ \A x \in DOMAIN heap : heap'[x] = heap[x]
    BY <1>4, <2>1, <2>2, <2>3, AllocHeapInv
  <2>5. LocalsInv'
    BY <1>12, <1>2, <1>5, <2>1, <2>4 DEF ConsAlloc, AllocPcs, LocalsInv, Resolves, Goto,
       SetLocal, SetSlot, LocalNames, EndIteration, clientVars
  <2> QED
    BY <2>4, <2>5
<1>13. CASE VectorOperand
  <2>1. PICK a \in Addr : Alloc(a, "pair", <<Imm, Imm>>) /\ elements' = Append(elements, a)
    BY <1>13 DEF VectorOperand
  <2>2. /\ <<Imm, Imm>> \in Seq(Word)
        /\ \A i \in DOMAIN <<Imm, Imm>> : Resolves(<<Imm, Imm>>[i]) /\ "pair" \in ScannedKinds
    BY <1>13, <1>2, <1>3 DEF VectorOperand, LocalsInv, Resolves, LocalNames, ScannedKinds
  <2>3. /\ UNCHANGED <<rootVars, collections>> /\ slot' \in [Slot -> Word]
        /\ \A s \in RootSlots : slot'[s] = a \/ Resolves(slot'[s])
    BY <1>13, <1>1, <1>2, <2>1 DEF VectorOperand, SetSlot
  <2>4. /\ HeapInv' /\ DOMAIN heap' = DOMAIN heap \union {a}
        /\ heap'[a].fields = <<Imm, Imm>> /\ \A x \in DOMAIN heap : heap'[x] = heap[x]
    BY <1>4, <2>1, <2>2, <2>3, AllocHeapInv
  <2>5. LocalsInv'
    BY <1>13, <1>2, <1>5, <2>1, <2>4 DEF VectorOperand, AllocPcs, LocalsInv, Resolves, Goto,
       SetLocal, SetSlot, LocalNames, EndIteration, clientVars
  <2> QED
    BY <2>4, <2>5
<1>14. CASE VectorOfOperands
  <2>1. PICK a \in Addr : Alloc(a, "vector", elements) /\ SetLocal("vector", a)
    BY <1>14 DEF VectorOfOperands
  <2>2. /\ elements \in Seq(Word)
        /\ \A i \in DOMAIN elements : Resolves(elements[i]) /\ "vector" \in ScannedKinds
    BY <1>14, <1>2, <1>3 DEF VectorOfOperands, LocalsInv, Resolves, LocalNames, ScannedKinds
  <2>3. /\ UNCHANGED <<rootVars, collections>> /\ slot' \in [Slot -> Word]
        /\ \A s \in RootSlots : slot'[s] = a \/ Resolves(slot'[s])
    BY <1>14, <1>1, <1>2, <2>1 DEF VectorOfOperands, SetSlot
  <2>4. /\ HeapInv' /\ DOMAIN heap' = DOMAIN heap \union {a}
        /\ heap'[a].fields = elements /\ \A x \in DOMAIN heap : heap'[x] = heap[x]
    BY <1>4, <2>1, <2>2, <2>3, AllocHeapInv
  <2>5. LocalsInv'
    BY <1>14, <1>2, <1>5, <2>1, <2>4 DEF VectorOfOperands, AllocPcs, LocalsInv, Resolves, Goto,
       SetLocal, SetSlot, LocalNames, EndIteration, clientVars
  <2> QED
    BY <2>4, <2>5
<1> QED
  BY <1>6, <1>7, <1>8, <1>9, <1>10, <1>11, <1>12, <1>13, <1>14

\* The steps of the clients that do not.
LEMMA OtherStep ==
  ASSUME Inv,
         \/ Begin \/ Poll \/ WorkerStore \/ BoxSet \/ AppendWalk \/ AppendReturn \/ ConsCall
         \/ Pop \/ AllocationFailed
  PROVE  HeapInv' /\ LocalsInv'
<1> USE DEF Inv
<1>1. /\ slot \in [Slot -> Word] /\ stack \in Seq(Slot) /\ globals \subseteq Slot
      /\ \A s \in RootSlots : s \in Slot /\ Resolves(slot[s])
  BY DEF HeapInv, HeapTypeOK, HeapClosed, RootSlots
<1>2. HeapInv /\ UNCHANGED <<heapVars, rootVars, slot, collections>> => HeapInv'
  <2> SUFFICES ASSUME UNCHANGED <<heapVars, rootVars, slot, collections>> PROVE HeapInv'
    OBVIOUS
  <2>1. RootSlots' = RootSlots
    BY DEF rootVars, RootSlots
  <2> QED
    BY <1>1, <2>1, FrameHeapInv DEF rootVars, Resolves
<1>3. {"local_root", "shared", "box", "left", "right"} = Slot
  BY ClientsAssumption
<1>4. CASE Begin
  <2>1. \A s \in Slot : Resolves(slot[s])
    BY <1>4 DEF Begin, LocalsInv
  <2>2. stack' \in Seq(Slot) /\ globals' \subseteq Slot
    <3>1. stack = <<>> /\ globals = {}
      BY <1>4 DEF Begin, ControlInv
    <3>2. /\ Append(<<>>, "local_root") \in Seq(Slot) /\ Append(<<>>, "box") \in Seq(Slot)
          /\ <<"left", "right">> \in Seq(Slot) /\ <<>> \in Seq(Slot)
      BY <1>3
    <3> QED
      BY <1>3, <1>4, <3>1, <3>2 DEF Begin, PushRoot, RegisterGlobalRoot, rootVars
  <2>3. \A s \in RootSlots' : s \in Slot
    BY <2>2 DEF RootSlots
  <2>4. HeapInv'
    BY <1>1, <1>4, <2>1, <2>2, <2>3, FrameHeapInv DEF Begin, Resolves
  <2>5. LocalsInv'
    <3>1. /\ pc' \in {"poll", "walk", "call", "box", "operand"}
          /\ UNCHANGED <<heap, elements, client>>
          /\ local' = [local EXCEPT !["result"] = slot["right"]]
          /\ elements = <<>> /\ Resolves(local["word"])
      BY <1>4, ClientsAssumption DEF Begin, ControlInv, LocalsInv, Goto, SetLocal, FirstPc,
         AllClients, heapVars, clientVars
    <3>2. slot["right"] \in Word /\ Resolves(slot["right"])
      BY <1>1, <1>3, <2>1
    <3> QED
      BY <3>1, <3>2 DEF LocalsInv, Resolves, LocalNames
  <2> QED
    BY <2>4, <2>5
<1>5. CASE Poll
  BY <1>2, <1>5 DEF Poll, LocalsInv, Resolves, Goto, heapVars, clientVars
<1>6. CASE WorkerStore
  <2>1. Resolves(local["object"]) /\ local["object"] \in Word
    BY <1>6 DEF WorkerStore, LocalsInv, LocalNames
  <2>2. client = "worker"
    BY <1>6, ClientsAssumption DEF WorkerStore, ControlInv, PcsOf, AllClients
  <2>3. Resolves(slot["shared"]) /\ slot["shared"] \in Word
    BY <1>1, <1>3, <1>6, <2>2 DEF WorkerStore, ControlInv, GlobalsOf, RootSlots
  <2>4. /\ slot' \in [Slot -> Word] /\ \A s \in RootSlots : Resolves(slot'[s])
        /\ ObjectWritePost(local["object"], 2, slot["shared"])
        /\ UNCHANGED <<rootVars, collections>>
    BY <1>1, <1>6, <2>1 DEF WorkerStore
  <2>5. HeapInv' /\ DOMAIN heap' = DOMAIN heap
    BY <2>3, <2>4, WriteHeapInv
  <2>6. LocalsInv'
    BY <1>6, <2>2, <2>5 DEF WorkerStore, LocalsInv, Resolves, EndIteration, Goto
  <2> QED
    BY <2>5, <2>6
<1>7. CASE BoxSet
  <2>1. Resolves(local["object"]) /\ local["object"] \in Word
    BY <1>7 DEF BoxSet, LocalsInv, LocalNames
  <2>2. client = "cells"
    BY <1>7, ClientsAssumption DEF BoxSet, ControlInv, PcsOf, AllClients
  <2>3. /\ slot' \in [Slot -> Word] /\ \A s \in RootSlots : Resolves(slot'[s])
        /\ ObjectWritePost(slot["box"], 1, local["object"])
        /\ UNCHANGED <<rootVars, collections>>
    BY <1>1, <1>7 DEF BoxSet
  <2>4. HeapInv' /\ DOMAIN heap' = DOMAIN heap
    BY <2>1, <2>3, WriteHeapInv
  <2>5. LocalsInv'
    BY <1>7, <2>2, <2>4 DEF BoxSet, LocalsInv, Resolves, EndIteration, Goto
  <2> QED
    BY <2>4, <2>5
<1>8. CASE AppendWalk
  <2> DEFINE cell == IF elements = <<>> THEN slot["left"] ELSE local["word"]
  <2>1. Resolves(cell)
    BY <1>8, LeftRooted DEF AppendWalk, LocalsInv
  <2>2. client = "append"
    BY <1>8, ClientsAssumption DEF AppendWalk, ControlInv, PcsOf, AllClients
  <2>3. HeapInv'
    BY <1>2, <1>8 DEF AppendWalk
  <2>4. CASE cell = Imm
    BY <1>8, <2>3, <2>4 DEF AppendWalk, LocalsInv, Resolves, Goto, heapVars
  <2>5. CASE cell # Imm
    <3>1. cell \in DOMAIN heap /\ heap[cell].fields \in Seq(Word) /\ Len(heap[cell].fields) = 2
      BY <2>1, <2>2, <2>5 DEF Resolves, HeapInv, HeapTypeOK, Object, LocalsInv
    <3>2. /\ heap[cell].fields[1] \in Word /\ Resolves(heap[cell].fields[1])
          /\ heap[cell].fields[2] \in Word /\ Resolves(heap[cell].fields[2])
      BY <3>1 DEF HeapInv, HeapClosed
    <3>3. /\ elements' = Append(elements, heap[cell].fields[1])
          /\ local' = [local EXCEPT !["word"] = heap[cell].fields[2]]
          /\ UNCHANGED <<pc, heap, client, slot>>
      BY <1>8, <2>5 DEF AppendWalk, SetLocal, heapVars
    <3>4. /\ elements' \in Seq(Word)
          /\ \A i \in DOMAIN elements' : elements'[i] \in DOMAIN heap \union {Imm}
      BY <1>8, <3>2, <3>3, AppendResolves DEF AppendWalk, LocalsInv, Resolves
    <3> QED
      BY <1>8, <2>3, <3>2, <3>3, <3>4 DEF AppendWalk, LocalsInv, Resolves, LocalNames
  <2> QED
    BY <2>3, <2>4, <2>5
<1>9. CASE AppendReturn
  <2>1. Resolves(local["result"]) /\ local["result"] \in Word
    BY <1>9 DEF AppendReturn, LocalsInv, LocalNames
  <2>2. /\ slot' \in [Slot -> Word] /\ \A s \in RootSlots : Resolves(slot'[s])
        /\ RootSlots' = RootSlots
    BY <1>1, <1>9, <2>1 DEF AppendReturn, SetSlot, RootSlots, rootVars
  <2>3. HeapInv'
    BY <1>1, <1>9, <2>2, FrameHeapInv DEF AppendReturn, rootVars, Resolves
  <2>4. LocalsInv'
    BY <1>9 DEF AppendReturn, LocalsInv, Resolves, Goto, clientVars, heapVars
  <2> QED
    BY <2>3, <2>4
<1>10. CASE ConsCall
  <2>1. Resolves(slot["left"]) /\ slot["left"] \in Word
    BY <1>1, <1>3, <1>10, LeftRooted DEF ConsCall
  <2>2. HeapInv'
    BY <1>2, <1>10 DEF ConsCall
  <2>3. LocalsInv'
    BY <1>10, <2>1 DEF ConsCall, LocalsInv, Resolves, Goto, SetLocal, LocalNames, clientVars,
       heapVars
  <2> QED
    BY <2>2, <2>3
<1>11. CASE Pop
  <2>1. /\ stack' \in Seq(Slot)
        /\ \A i \in DOMAIN stack' : i \in DOMAIN stack /\ stack'[i] = stack[i]
    BY <1>1, <1>11 DEF Pop, PopRoot
  <2>2. RootSlots' \subseteq RootSlots
    BY <1>11, <2>1 DEF Pop, RootSlots
  <2>3. HeapInv'
    BY <1>1, <1>11, <2>1, <2>2, FrameHeapInv DEF Pop, Resolves
  <2>4. LocalsInv'
    BY <1>11 DEF Pop, LocalsInv, Resolves, Goto, clientVars, heapVars
  <2> QED
    BY <2>3, <2>4
<1>12. CASE AllocationFailed
  BY <1>2, <1>12 DEF AllocationFailed, LocalsInv, Resolves, Goto, heapVars, clientVars
<1> QED
  BY <1>4, <1>5, <1>6, <1>7, <1>8, <1>9, <1>10, <1>11, <1>12

\* A collection finds no client with a word it still reads outside the roots.
LEMMA CollectingStep ==
  ASSUME Inv, GarbageCollection, AllocCollects \subseteq RootedClients
  PROVE  HeapInv' /\ LocalsInv'
<1> USE DEF Inv
<1>1. HeapInv'
  BY CollectHeapInv DEF GarbageCollection
<1>2. pc \in {"poll", "pair", "box"} /\ client # "append"
  BY ClientsAssumption DEF GarbageCollection, Allocating, AllocPcs, RootedClients, ControlInv, PcsOf,
     AllClients
<1>3. LocalsInv'
  BY <1>2 DEF GarbageCollection, LocalsInv, clientVars
<1> QED
  BY <1>1, <1>3

-----------------------------------------------------------------------------
(* The specification.                                                      *)

\* The list that append copies has a length.
LEMMA LeftLength ==
  Len(LeftElements) \in Nat /\ DOMAIN LeftElements = 1 .. Len(LeftElements)
BY ClientsAssumption, LenProperties

\* The heap and the roots a client starts with.
LEMMA InitInv ==
  ASSUME Init
  PROVE  Inv
<1> USE DEF Init, HeapInit
<1>1. Imm \in Word /\ Addr \subseteq Word /\ "pair" \in Kinds /\ "pair" \in ScannedKinds
  BY DEF Word, Kinds, ScannedKinds
<1>2. ControlInv
  BY ClientsAssumption DEF ControlInv, ShadowStackBalanced
<1>3. RootSlots = {}
  BY DEF RootSlots
<1>4. CASE client \in {"append", "cons"}
  <2>1. PICK right \in Addr : \E left \in [DOMAIN LeftElements -> Addr \ {right}] :
          /\ \A i, j \in DOMAIN left : left[i] = left[j] => i = j
          /\ heap = TwoLists(left, right)
          /\ slot = [x \in Slot |-> CASE x = "left" -> Cdr(left, 1, Imm)
                                     [] x = "right" -> right
                                     [] OTHER -> Imm]
    BY <1>4
  <2>2. PICK left \in [DOMAIN LeftElements -> Addr \ {right}] :
          /\ heap = TwoLists(left, right)
          /\ slot = [x \in Slot |-> CASE x = "left" -> Cdr(left, 1, Imm)
                                     [] x = "right" -> right
                                     [] OTHER -> Imm]
    BY <2>1
  <2>3. /\ DOMAIN heap = {left[i] : i \in DOMAIN left} \union {right}
        /\ DOMAIN heap \subseteq Addr
        /\ \A i \in Nat : Resolves(Cdr(left, i, Imm)) /\ Cdr(left, i, Imm) \in Word
    BY <1>1, <2>2 DEF TwoLists, Cdr, Resolves
  <2>4. \A a \in DOMAIN heap :
          \E car, cdr \in Word : heap[a] = Pair(car, cdr) /\ Resolves(car) /\ Resolves(cdr)
    <3> SUFFICES ASSUME NEW a \in DOMAIN heap
                 PROVE  \E car, cdr \in Word :
                          heap[a] = Pair(car, cdr) /\ Resolves(car) /\ Resolves(cdr)
      OBVIOUS
    <3>1. CASE a = right
      BY <1>1, <2>2, <2>3, <3>1 DEF TwoLists, Resolves
    <3>2. CASE a # right
      <4>1. PICK i \in DOMAIN left : i = CHOOSE j \in DOMAIN left : left[j] = a
        BY <2>3, <3>2
      <4>2. heap[a] = ListedPair(left, i, Imm, right)
        BY <2>2, <2>3, <3>2, <4>1 DEF TwoLists
      <4>3. i + 1 \in Nat
        BY <4>1, ClientsAssumption, LeftLength
      <4>4. Element(i, right) \in Word /\ Resolves(Element(i, right))
        BY <1>1, <2>3 DEF Element, Resolves
      <4> QED
        BY <2>3, <4>2, <4>3, <4>4 DEF ListedPair
    <3> QED
      BY <3>1, <3>2
  <2>5. /\ \A a \in DOMAIN heap : heap[a] \in Object
        /\ \A a \in DOMAIN heap : heap[a].kind = "pair" /\ Len(heap[a].fields) = 2
        /\ \A a \in DOMAIN heap : \A i \in DOMAIN heap[a].fields : Resolves(heap[a].fields[i])
    <3> SUFFICES ASSUME NEW a \in DOMAIN heap
                 PROVE  /\ heap[a] \in Object /\ heap[a].kind = "pair" /\ Len(heap[a].fields) = 2
                        /\ \A i \in DOMAIN heap[a].fields : Resolves(heap[a].fields[i])
      OBVIOUS
    <3>1. PICK car, cdr \in Word : heap[a] = Pair(car, cdr) /\ Resolves(car) /\ Resolves(cdr)
      BY <2>4
    <3>2. <<car, cdr>> \in Seq(Word) /\ Len(<<car, cdr>>) = 2
      OBVIOUS
    <3>3. \A s \in Seq(Word) : [kind |-> "pair", fields |-> s] \in Object
      BY <1>1 DEF Object
    <3>4. heap[a] \in Object
      BY <3>1, <3>2, <3>3, Zenon DEF Pair
    <3> QED
      BY <3>1, <3>2, <3>4 DEF Pair
  <2>6. slot \in [Slot -> Word] /\ \A s \in Slot : Resolves(slot[s])
    BY <1>1, <2>2, <2>3 DEF Resolves
  <2>7. HeapTypeOK
    BY <2>3, <2>5, <2>6, CollectionsAssumption, EmptySeq DEF HeapTypeOK
  <2>8. HeapClosed /\ ScannedInv /\ BarrierInv
    BY <1>1, <1>3, <2>5 DEF HeapClosed, ScannedInv, BarrierInv
  <2>9. LocalsInv
    BY <1>1, <2>5, <2>6 DEF LocalsInv, Resolves, LocalNames
  <2> QED
    BY <1>2, <2>7, <2>8, <2>9 DEF Inv, HeapInv
<1>5. CASE client \notin {"append", "cons"}
  <2>1. DOMAIN heap = {} /\ slot = [x \in Slot |-> Imm]
    BY <1>5 DEF EmptyHeap
  <2>2. HeapInv
    BY <1>1, <1>3, <2>1, CollectionsAssumption
       DEF HeapInv, HeapTypeOK, HeapClosed, ScannedInv, BarrierInv
  <2>3. LocalsInv
    BY <1>1, <1>5, <2>1 DEF LocalsInv, Resolves, LocalNames
  <2> QED
    BY <1>2, <2>2, <2>3 DEF Inv
<1> QED
  BY <1>4, <1>5

\* Every step keeps the invariant.
LEMMA StepInv ==
  ASSUME Inv, [Next]_vars, AllocCollects \subseteq RootedClients
  PROVE  Inv'
<1>1. ControlInv'
  BY ControlStep DEF Inv
<1>2. HeapInv' /\ LocalsInv'
  <2>1. CASE UNCHANGED vars
    <3>1. UNCHANGED <<heap, old, remembered, stack, globals, slot, collections, client, pc,
                      local, elements>>
      BY <2>1 DEF vars, heapVars, rootVars, clientVars
    <3>2. RootSlots' = RootSlots
      BY <3>1 DEF RootSlots
    <3> QED
      BY <3>1, <3>2 DEF Inv, HeapInv, HeapTypeOK, HeapClosed, ScannedInv, BarrierInv, LocalsInv,
         Resolves
  <2>2. CASE Next
    BY <2>2, AllocatingStep, OtherStep, CollectingStep DEF Next, Step
  <2> QED
    BY <2>1, <2>2
<1> QED
  BY <1>1, <1>2 DEF Inv

\* The invariant holds in every state.
THEOREM Invariance ==
  ASSUME AllocCollects \subseteq RootedClients
  PROVE  Spec => []Inv
<1>1. Init => Inv
  BY InitInv
<1>2. Inv /\ [Next]_vars => Inv'
  BY StepInv
<1> QED
  BY <1>1, <1>2, PTL DEF Spec

\* Every variable holds a value of its kind.
THEOREM TypeCorrect ==
  ASSUME AllocCollects \subseteq RootedClients
  PROVE  Spec => []TypeOK
<1>1. Inv => TypeOK
  BY ClientsAssumption DEF Inv, HeapInv, ControlInv, LocalsInv, TypeOK, Pcs, PcsOf, AllocPcs,
     AllClients
<1> QED
  BY <1>1, Invariance, PTL

\* No collection leaves a stale reference in an object or in a root, whatever the
\* clients stored before and whichever objects were old, moved or freed.
THEOREM HeapStaysClosed ==
  ASSUME AllocCollects \subseteq RootedClients
  PROVE  Spec => []HeapClosed
<1>1. Inv => HeapClosed
  BY DEF Inv, HeapInv
<1> QED
  BY <1>1, Invariance, PTL

\* Every call leaves the shadow stack as it found it.
THEOREM StackBalanced ==
  ASSUME AllocCollects \subseteq RootedClients
  PROVE  Spec => []ShadowStackBalanced
<1>1. Inv => ShadowStackBalanced
  BY DEF Inv, ControlInv
<1> QED
  BY <1>1, Invariance, PTL

\* Whatever the clients stored before, a collection is invisible to the code that
\* it interrupts: sharing, cycles and the order of fields are what they were, for
\* nursery and for full collections, in heaps of every size.
THEOREM CollectionsInvisible ==
  ASSUME AllocCollects \subseteq RootedClients
  PROVE  Spec => CollectionInvisible
<1> DEFINE Invisible ==
      collections' # collections =>
       \E from \in [DOMAIN heap' -> DOMAIN heap] :
         /\ \A x, y \in DOMAIN heap' : from[x] = from[y] => x = y
         /\ \A x \in DOMAIN heap' :
              /\ heap'[x].kind = heap[from[x]].kind
              /\ DOMAIN heap'[x].fields = DOMAIN heap[from[x]].fields
              /\ \A i \in DOMAIN heap'[x].fields :
                   SameReferent(from, heap'[x].fields[i], heap[from[x]].fields[i])
         /\ \A s \in RootSlots : SameReferent(from, slot'[s], slot[s])
<1>1. Inv /\ [Next]_vars => [Invisible]_vars
  <2> SUFFICES ASSUME Inv, Next, collections' # collections
               PROVE  Invisible
    OBVIOUS
  <2>1. Collect
    BY DEF Next, Step, Begin, Poll, AllocPair, WorkerStore, AllocBox, BoxSet, StressString,
       StressVector, StressPair, AppendWalk, AppendCons, AppendReturn, ConsCall, ConsAlloc,
       VectorOperand, VectorOfOperands, Pop, AllocationFailed, GarbageCollection
  <2> QED
    BY <2>1, CollectInvisible DEF Inv
<1> HIDE DEF Invisible
<1>2. Spec => [][Invisible]_vars
  BY <1>1, Invariance, PTL DEF Spec
<1> QED
  BY <1>2, PTL DEF CollectionInvisible, Invisible
=============================================================================
