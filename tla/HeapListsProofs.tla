--------------------------- MODULE HeapListsProofs ---------------------------
(***************************************************************************)
(* Proofs about the lists that the clients of the heap build: the shared   *)
(* list of a worker, through every collection, and the copy that append    *)
(* makes, where no collection falls into its allocations.                  *)
(***************************************************************************)
EXTENDS HeapClientsProofs, WellFoundedInduction, SequenceTheorems

\* The pairs of the shared list, from the last that was published.
ChainOf(chain) ==
  /\ slot["shared"] = IF published = 0 THEN Imm ELSE chain[1]
  /\ \A i, j \in 1 .. published : chain[i] = chain[j] => i = j
  /\ \A i \in 1 .. published :
       /\ heap[chain[i]].kind = "pair" /\ Len(heap[chain[i]].fields) = 2
       /\ heap[chain[i]].fields[2] = IF i = published THEN Imm ELSE chain[i + 1]

\* The pair a worker is about to publish is not on the list.
Unpublished(chain) ==
  /\ local["object"] \in DOMAIN heap
  /\ heap[local["object"]] = Pair(Imm, Imm)
  /\ \A i \in 1 .. published : chain[i] # local["object"]

ListInv ==
  client = "worker" =>
    \E chain \in [1 .. published -> DOMAIN heap] :
      ChainOf(chain) /\ (pc = "store" => Unpublished(chain))

-----------------------------------------------------------------------------
(* The shared list.                                                        *)

\* What leaves the objects and the list alone.
LEMMA FrameList ==
  ASSUME ListInv, UNCHANGED <<heap, slot, published, client>>,
         pc' # "store" \/ UNCHANGED <<pc, local>>
  PROVE  ListInv'
BY DEF ListInv, ChainOf, Unpublished

\* An allocation leaves the list as it was, and the new pair is not on it.
LEMMA AllocList ==
  ASSUME Inv, ListInv, AllocPair
  PROVE  ListInv'
<1> SUFFICES ASSUME client = "worker" PROVE ListInv'
  BY DEF AllocPair, ListInv
<1>1. PICK chain \in [1 .. published -> DOMAIN heap] : ChainOf(chain)
  BY DEF ListInv
<1>2. PICK a \in Addr : Alloc(a, "pair", <<Imm, Imm>>) /\ SetLocal("object", a)
  BY DEF AllocPair
<1>3. /\ a \notin DOMAIN heap /\ DOMAIN heap' = DOMAIN heap \union {a}
      /\ heap'[a] = Pair(Imm, Imm) /\ \A x \in DOMAIN heap : heap'[x] = heap[x]
  BY <1>2 DEF Alloc, Pair
<1>4. local'["object"] = a /\ UNCHANGED <<slot, published, client>>
  BY <1>2 DEF AllocPair, SetLocal, clientVars, Inv, LocalsInv, LocalNames
<1>5. chain \in [1 .. published' -> DOMAIN heap']
  BY <1>3, <1>4
<1>6. ChainOf(chain)' /\ Unpublished(chain)'
  BY <1>1, <1>3, <1>4 DEF ChainOf, Unpublished
<1> QED
  BY <1>5, <1>6 DEF ListInv

\* A worker puts its pair before the others.
LEMMA StoreList ==
  ASSUME Inv, ListInv, WorkerStore
  PROVE  ListInv'
<1> SUFFICES ASSUME client = "worker" PROVE ListInv'
  BY DEF WorkerStore, ListInv
<1> DEFINE object == local["object"]
<1>1. PICK chain \in [1 .. published -> DOMAIN heap] : ChainOf(chain) /\ Unpublished(chain)
  BY DEF ListInv, WorkerStore
<1>2. published \in Nat /\ published' = published + 1 /\ published' \in Nat
  BY DEF WorkerStore, Inv, ControlInv
<1>3. /\ object \in DOMAIN heap /\ heap[object].fields = <<Imm, Imm>>
      /\ heap[object].kind = "pair"
  BY <1>1 DEF Unpublished, Pair
<1>4. heap' = [heap EXCEPT ![object].fields[2] = slot["shared"]]
  BY DEF WorkerStore, ObjectWritePost
<1>5. DOMAIN heap' = DOMAIN heap /\ \A x \in DOMAIN heap : x # object => heap'[x] = heap[x]
  BY <1>4
<1>6. heap'[object].kind = "pair" /\ heap'[object].fields = <<Imm, slot["shared"]>>
  <2>1. heap'[object] = [heap[object] EXCEPT !.fields[2] = slot["shared"]]
    BY <1>3, <1>4
  <2>2. heap[object] \in Object
    BY <1>3 DEF Inv, HeapInv, HeapTypeOK
  <2>3. heap'[object].kind = "pair" /\ heap'[object].fields = [<<Imm, Imm>> EXCEPT ![2] = slot["shared"]]
    BY <1>3, <2>1, <2>2 DEF Object
  <2> QED
    BY <2>3
<1>7. slot'["shared"] = object /\ UNCHANGED client
  BY ClientsAssumption DEF WorkerStore, Inv, HeapInv, HeapTypeOK
<1>8. PICK longer \in [1 .. published' -> DOMAIN heap'] :
        /\ longer[1] = object
        /\ \A i \in 1 .. published : i + 1 \in 1 .. published' /\ longer[i + 1] = chain[i]
        /\ \A i \in 1 .. published' :
             i = 1 \/ (i - 1 \in 1 .. published /\ longer[i] = chain[i - 1])
  <2> DEFINE put == [i \in 1 .. published' |-> IF i = 1 THEN object ELSE chain[i - 1]]
  <2>1. \A i \in 1 .. published' : i = 1 \/ i - 1 \in 1 .. published
    BY <1>2
  <2>2. \A i \in 1 .. published : i + 1 \in 1 .. published' /\ i + 1 # 1 /\ (i + 1) - 1 = i
    BY <1>2
  <2>3. put \in [1 .. published' -> DOMAIN heap']
    BY <1>3, <1>5, <2>1
  <2>4. 1 \in 1 .. published'
    BY <1>2
  <2>5. /\ put[1] = object
        /\ \A i \in 1 .. published : i + 1 \in 1 .. published' /\ put[i + 1] = chain[i]
        /\ \A i \in 1 .. published' :
             i = 1 \/ (i - 1 \in 1 .. published /\ put[i] = chain[i - 1])
    BY <2>1, <2>2, <2>4
  <2> HIDE DEF put
  <2> QED
    BY <2>3, <2>5
<1>9. ChainOf(longer)'
  <2>1. slot'["shared"] = longer[1]
    BY <1>7, <1>8
  <2>2. ASSUME NEW i \in 1 .. published', NEW j \in 1 .. published', longer[i] = longer[j]
        PROVE  i = j
    BY <1>1, <1>2, <1>8, <2>2 DEF ChainOf, Unpublished
  <2>3. ASSUME NEW i \in 1 .. published'
        PROVE  /\ heap'[longer[i]].kind = "pair" /\ Len(heap'[longer[i]].fields) = 2
               /\ heap'[longer[i]].fields[2] = IF i = published' THEN Imm ELSE longer[i + 1]
    <3>1. CASE i = 1
      <4>1. slot["shared"] = IF published' = 1 THEN Imm ELSE longer[2]
        BY <1>1, <1>2, <1>8 DEF ChainOf
      <4>2. heap'[longer[1]].kind = "pair" /\ heap'[longer[1]].fields = <<Imm, slot["shared"]>>
        BY <1>6, <1>8
      <4> QED
        BY <3>1, <4>1, <4>2
    <3>2. CASE i # 1
      <4>1. i - 1 \in 1 .. published /\ longer[i] = chain[i - 1] /\ longer[i] # object
        BY <1>1, <1>2, <1>8, <3>2 DEF Unpublished
      <4>2. heap'[longer[i]] = heap[chain[i - 1]]
        BY <1>5, <4>1
      <4>3. i # published' => longer[i + 1] = chain[i]
        BY <1>2, <1>8
      <4> QED
        BY <1>1, <1>2, <4>1, <4>2, <4>3 DEF ChainOf
    <3> QED
      BY <3>1, <3>2
  <2> QED
    BY <1>2, <2>1, <2>2, <2>3 DEF ChainOf
<1>10. pc' # "store"
  BY DEF WorkerStore, EndIteration, Goto
<1> QED
  BY <1>8, <1>9, <1>10 DEF ListInv

\* A set of natural numbers has a least member.
LEMMA LeastMember ==
  ASSUME NEW S \in SUBSET Nat, S # {}
  PROVE  \E m \in S : \A k \in S : m <= k
<1> DEFINE less == {ss \in Nat \X Nat : ss[1] < ss[2]}
<1>1. OpToRel(<, Nat) = less
  BY DEF OpToRel
<1>2. \A j, k \in Nat : j < k => <<j, k>> \in less
  OBVIOUS
<1> HIDE DEF less
<1>3. IsWellFoundedOn(less, Nat)
  BY <1>1, NatLessThanWellFounded
<1>4. PICK m \in S : \A k \in S : ~(<<k, m>> \in less)
  BY <1>3, WFMin
<1>5. \A k \in S : ~(k < m)
  BY <1>2, <1>4
<1> QED
  BY <1>5

\* A collection keeps all pairs of a list that a root refers to: the first that it
\* did not keep would be a field of one that it kept and did not trace, an old one
\* that the barrier had not logged.
LEMMA ChainKept ==
  ASSUME Inv, NEW nursery \in BOOLEAN, NEW kept \in SUBSET DOMAIN heap,
         Retains(nursery, kept), published > 0 => slot["shared"] \in RootWords,
         NEW chain \in [1 .. published -> DOMAIN heap], ChainOf(chain)
  PROVE  \A i \in 1 .. published : chain[i] \in kept
<1> DEFINE lost == {i \in 1 .. published : chain[i] \notin kept}
<1>1. published \in Nat
  BY DEF Inv, ControlInv
<1> SUFFICES ASSUME lost # {} PROVE FALSE
  OBVIOUS
<1>2. PICK i \in lost : \A j \in lost : i <= j
  <2>1. lost \in SUBSET Nat
    BY <1>1
  <2> HIDE DEF lost
  <2> QED
    BY <2>1, LeastMember
<1>3. i \in 1 .. published /\ chain[i] \notin kept
  OBVIOUS
<1>4. \A j \in 1 .. published : j < i => chain[j] \in kept
  BY <1>1, <1>2
<1>5. i # 1
  <2> SUFFICES ASSUME i = 1 PROVE FALSE
    OBVIOUS
  <2>1. published > 0 /\ slot["shared"] = chain[1]
    BY <1>1, <1>3 DEF ChainOf
  <2>2. chain[1] # Imm
    BY <1>3, ImmAssumption DEF Inv, HeapInv, HeapTypeOK
  <2> QED
    BY <1>3, <2>1, <2>2 DEF Retains
<1>6. i - 1 \in 1 .. published /\ chain[i - 1] \in kept
  BY <1>1, <1>3, <1>4, <1>5
<1> DEFINE before == chain[i - 1]
<1>7. /\ before \in DOMAIN heap /\ heap[before].kind = "pair"
      /\ heap[before] \in Object /\ 2 \in DOMAIN heap[before].fields
      /\ heap[before].fields[2] = chain[i]
  <2>1. before \in DOMAIN heap /\ heap[before] \in Object
    BY <1>6 DEF Inv, HeapInv, HeapTypeOK
  <2>2. /\ heap[before].kind = "pair" /\ Len(heap[before].fields) = 2
        /\ heap[before].fields[2] = chain[i]
    BY <1>1, <1>3, <1>6 DEF ChainOf
  <2> QED
    BY <2>1, <2>2 DEF Object
<1>8. chain[i] # Imm /\ chain[i] \in DOMAIN heap
  BY <1>3, ImmAssumption DEF Inv, HeapInv, HeapTypeOK
<1>9. CASE before \in TracedObjects(nursery)
  <2>1. chain[i] \in ScannedFields(heap[before])
    BY <1>7 DEF ScannedFields
  <2> QED
    BY <1>3, <1>6, <1>8, <1>9, <2>1 DEF Retains
<1>10. CASE before \notin TracedObjects(nursery)
  <2>1. nursery /\ before \in old \ remembered
    BY <1>7, <1>10 DEF TracedObjects
  <2>2. chain[i] \in old
    BY <1>7, <1>8, <2>1 DEF Inv, HeapInv, BarrierInv
  <2> QED
    BY <1>3, <2>1, <2>2 DEF Retains
<1> QED
  BY <1>9, <1>10

\* A collection moves the pairs of the list and leaves it the list it was.
LEMMA CollectList ==
  ASSUME Inv, ListInv, GarbageCollection
  PROVE  ListInv'
<1> SUFFICES ASSUME client = "worker" PROVE ListInv'
  BY DEF GarbageCollection, ListInv
<1>1. PICK chain \in [1 .. published -> DOMAIN heap] : ChainOf(chain)
  BY DEF ListInv
<1>2. PICK nursery \in BOOLEAN, kept \in SUBSET DOMAIN heap :
        \E move \in [kept -> Addr] : CollectWith(nursery, kept, move)
  BY DEF GarbageCollection, Collect
<1>3. PICK move \in [kept -> Addr] : CollectWith(nursery, kept, move)
  BY <1>2
<1>4. pc \in {"poll", "pair"} /\ UNCHANGED <<client, pc, published>>
  BY ClientsAssumption DEF GarbageCollection, Allocating, AllocPcs, Inv, ControlInv, PcsOf, AllClients,
     clientVars
<1>5. "shared" \in RootSlots /\ "shared" \in Slot
  BY <1>4, ClientsAssumption DEF Inv, ControlInv, GlobalsOf, RootSlots
<1>6. \A i \in 1 .. published : chain[i] \in kept
  BY <1>1, <1>3, <1>5, ChainKept DEF CollectWith, RootWords
<1>7. /\ DOMAIN heap' = {move[a] : a \in kept}
      /\ slot'["shared"] = Moved(move, slot["shared"])
      /\ \A a, b \in kept : move[a] = move[b] => a = b
  BY <1>3, <1>5 DEF CollectWith
<1>8. Moved(move, Imm) = Imm
  BY ImmAssumption DEF Moved, Inv, HeapInv, HeapTypeOK
<1>9. published \in Nat
  BY DEF Inv, ControlInv
<1>10. ASSUME NEW b \in kept
       PROVE  heap'[move[b]] =
                IF b \in TracedObjects(nursery)
                THEN [heap[b] EXCEPT !.fields =
                        [k \in DOMAIN heap[b].fields |-> Moved(move, heap[b].fields[k])]]
                ELSE heap[b]
  BY <1>3, MovedObject
<1>11. PICK moved \in [1 .. published' -> DOMAIN heap'] :
         \A i \in 1 .. published : moved[i] = move[chain[i]]
  <2> DEFINE image == [i \in 1 .. published |-> move[chain[i]]]
  <2>1. image \in [1 .. published' -> DOMAIN heap']
    BY <1>4, <1>6, <1>7
  <2> QED
    BY <2>1
<1>12. ChainOf(moved)'
  <2>1. slot'["shared"] = IF published' = 0 THEN Imm ELSE moved[1]
    BY <1>1, <1>4, <1>6, <1>7, <1>8, <1>9, <1>11 DEF ChainOf, Moved
  <2>2. \A i, j \in 1 .. published' : moved[i] = moved[j] => i = j
    BY <1>1, <1>4, <1>6, <1>7, <1>11 DEF ChainOf
  <2>3. ASSUME NEW i \in 1 .. published'
        PROVE  /\ heap'[moved[i]].kind = "pair" /\ Len(heap'[moved[i]].fields) = 2
               /\ heap'[moved[i]].fields[2] = IF i = published' THEN Imm ELSE moved[i + 1]
    <3> DEFINE a == chain[i]
               next == IF i = published THEN Imm ELSE chain[i + 1]
               fields == [k \in DOMAIN heap[a].fields |-> Moved(move, heap[a].fields[k])]
    <3>1. i \in 1 .. published /\ a \in kept /\ moved[i] = move[a]
      BY <1>4, <1>6, <1>11
    <3>2. /\ heap[a].kind = "pair" /\ Len(heap[a].fields) = 2 /\ heap[a].fields[2] = next
          /\ heap[a] \in Object /\ heap[a].fields \in Seq(Word)
      <4>1. a \in DOMAIN heap /\ heap[a] \in Object
        BY <3>1 DEF Inv, HeapInv, HeapTypeOK
      <4> QED
        BY <1>1, <3>1, <4>1 DEF ChainOf, Object
    <3>3. Moved(move, next) = IF i = published' THEN Imm ELSE moved[i + 1]
      BY <1>4, <1>6, <1>8, <1>9, <1>11, <3>1 DEF Moved
    <3>4. CASE a \in TracedObjects(nursery)
      <4>1. heap'[move[a]] = [heap[a] EXCEPT !.fields = fields]
        BY <1>3, <3>1, <3>4, MovedObject
      <4>2. heap'[move[a]].kind = "pair" /\ heap'[move[a]].fields = fields
        <5> HIDE DEF fields, a, next
        <5> QED
          BY <3>2, <4>1 DEF Object
      <4>3. DOMAIN heap[a].fields = 1 .. 2
        BY <3>2
      <4>4. fields \in Seq({fields[k] : k \in 1 .. 2}) /\ Len(fields) = 2
        BY <4>3
      <4>5. fields[2] = Moved(move, next)
        BY <3>2, <4>3
      <4> QED
        BY <3>1, <3>3, <4>2, <4>4, <4>5
    <3>5. CASE a \notin TracedObjects(nursery)
      <4>1. heap'[move[a]] = heap[a]
        <5>1. heap'[move[a]] =
                IF a \in TracedObjects(nursery) THEN [heap[a] EXCEPT !.fields = fields]
                ELSE heap[a]
          BY <3>1, <1>10
        <5> HIDE DEF a, fields, next
        <5> QED
          BY <3>5, <5>1
      <4>2. nursery /\ a \in old \ remembered
        BY <3>1, <3>5 DEF TracedObjects
      <4>3. next \in old \union {Imm}
        BY <3>2, <4>2 DEF Inv, HeapInv, BarrierInv
      <4>4. Moved(move, next) = next
        BY <1>3, <1>8, <4>2, <4>3 DEF CollectWith, Retains, Moved
      <4> QED
        BY <3>1, <3>2, <3>3, <4>1, <4>4
    <3> QED
      BY <3>4, <3>5
  <2> QED
    BY <2>1, <2>2, <2>3 DEF ChainOf
<1> QED
  BY <1>4, <1>11, <1>12 DEF ListInv

\* Every step keeps the shared list.
LEMMA ListStep ==
  ASSUME Inv, ListInv, [Next]_vars
  PROVE  ListInv'
<1>1. CASE AllocPair
  BY <1>1, AllocList
<1>2. CASE WorkerStore
  BY <1>2, StoreList
<1>3. CASE GarbageCollection
  BY <1>3, CollectList
<1>4. CASE Begin \/ Poll \/ Pop \/ AllocationFailed
  <2>1. UNCHANGED <<heap, slot, published, client>>
    BY <1>4 DEF Begin, Poll, Pop, AllocationFailed, heapVars, clientVars
  <2>2. pc' # "store"
    BY <1>4, ClientsAssumption DEF Begin, Poll, Pop, AllocationFailed, Goto, FirstPc, AllClients,
       Inv, ControlInv
  <2> QED
    BY <2>1, <2>2, FrameList
<1>5. CASE UNCHANGED vars
  BY <1>5, FrameList DEF vars, heapVars, clientVars
<1>6. CASE \/ AllocBox \/ BoxSet \/ StressString \/ StressVector \/ StressPair \/ AppendWalk
           \/ AppendCons \/ AppendReturn \/ ConsCall \/ ConsAlloc \/ VectorOperand
           \/ VectorOfOperands
  <2>1. client' = client /\ pc \notin PcsOf("worker") \union {"begin", "done", "failed"}
    BY <1>6 DEF AllocBox, BoxSet, StressString, StressVector, StressPair, AppendWalk, AppendCons,
       AppendReturn, ConsCall, ConsAlloc, VectorOperand, VectorOfOperands, PcsOf
  <2> QED
    BY <2>1 DEF Inv, ControlInv, ListInv
<1> QED
  BY <1>1, <1>2, <1>3, <1>4, <1>5, <1>6 DEF Next, Step

\* The shared list, as far as the specification goes.
LEMMA ListInvariance ==
  ASSUME AllocCollects \subseteq RootedClients
  PROVE  Spec => []ListInv
<1>1. Init => ListInv
  <2> SUFFICES ASSUME Init, client = "worker" PROVE ListInv
    BY DEF ListInv
  <2>1. published = 0 /\ pc = "begin" /\ slot["shared"] = Imm
    BY ClientsAssumption DEF Init
  <2>2. 1 .. 0 = {}
    OBVIOUS
  <2>3. [i \in {} |-> Imm] \in [1 .. published -> DOMAIN heap]
    BY <2>1, <2>2
  <2>4. ChainOf([i \in {} |-> Imm])
    BY <2>1, <2>2 DEF ChainOf
  <2> QED
    BY <2>1, <2>3, <2>4 DEF ListInv
<1>2. Inv /\ ListInv /\ [Next]_vars => ListInv'
  BY ListStep
<1> QED
  BY <1>1, <1>2, Invariance, PTL DEF Spec

\* The shared list of a worker holds exactly the pairs it published, however often
\* each was moved, and whichever old pair the barrier logged in between.
THEOREM PublishedListSurvives ==
  ASSUME AllocCollects \subseteq RootedClients
  PROVE  Spec => []PublishedListIntact
<1>1. ListInv => PublishedListIntact
  BY DEF ListInv, ChainOf, PublishedListIntact
<1> QED
  BY <1>1, ListInvariance, PTL

-----------------------------------------------------------------------------
(* The copy of append.                                                     *)

N == Len(LeftElements)

\* The last pairs of the copy, those of the elements after the first k, which lie
\* apart from the pairs of the arguments.
Copied(copy, k, left, head) ==
  /\ copy \in [k + 1 .. N -> DOMAIN heap]
  /\ head = Cdr(copy, k + 1, slot["right"])
  /\ \A i \in k + 1 .. N :
       /\ heap[copy[i]] = ListedPair(copy, i, slot["right"], slot["right"])
       /\ copy[i] # slot["right"] /\ \A j \in 1 .. N : copy[i] # left[j]

\* The Vec holds the first k elements.
Taken(k) ==
  /\ k \in 0 .. N /\ Len(elements) = k
  /\ \A i \in 1 .. k : elements[i] = Element(i, slot["right"])

\* How far the walk over left is, and the copy.
Copying(left) ==
  /\ pc = "begin" => elements = <<>>
  /\ pc = "walk" =>
       /\ Taken(Len(elements))
       /\ local["result"] = slot["right"]
       /\ elements # <<>> => local["word"] = Cdr(left, Len(elements) + 1, Imm)
  /\ pc = "cons" =>
       /\ Taken(Len(elements))
       /\ \E copy : Copied(copy, Len(elements), left, local["result"])
  /\ pc = "done" => \E copy : Copied(copy, 0, left, slot["local_root"])

AppendInv ==
  client = "append" =>
    /\ slot["right"] \in DOMAIN heap
    /\ \E left \in [1 .. N -> DOMAIN heap] : ListAt(left, slot["left"], Imm) /\ Copying(left)

\* The walk has taken one element more.
LEMMA OneMoreTaken ==
  ASSUME Inv, Taken(Len(elements)), slot' = slot, Len(elements) + 1 \in 1 .. N,
         elements' = Append(elements, Element(Len(elements) + 1, slot["right"])),
         slot["right"] \in Word
  PROVE  Taken(Len(elements))' /\ Len(elements') = Len(elements) + 1
<1> DEFINE k == Len(elements)
           new == Element(k + 1, slot["right"])
<1>1. elements \in Seq(Word) /\ new \in Word
  BY DEF Inv, LocalsInv, Element, Word
<1>2. k \in Nat /\ N \in Nat
  BY <1>1, LenProperties, LeftLength DEF N
<1>3. /\ Len(elements') = k + 1 /\ elements'[k + 1] = new
      /\ \A i \in 1 .. k : elements'[i] = elements[i]
  BY <1>1, AppendProperties
<1>4. \A i \in 1 .. k : elements[i] = Element(i, slot["right"])
  BY DEF Taken
<1> HIDE DEF k, new
<1>5. \A i \in 1 .. k + 1 : elements'[i] = Element(i, slot'["right"])
  BY <1>2, <1>3, <1>4 DEF new
<1>6. k + 1 \in 0 .. N
  BY <1>2 DEF k
<1> QED
  BY <1>3, <1>5, <1>6 DEF Taken, Element, k, N

\* The walk over left, to its end.
LEMMA WalkStep ==
  ASSUME Inv, AppendWalk, client = "append", slot["right"] \in DOMAIN heap,
         NEW left \in [1 .. N -> DOMAIN heap], ListAt(left, slot["left"], Imm), Copying(left)
  PROVE  Copying(left)' /\ UNCHANGED <<heap, slot>>
<1> DEFINE k == Len(elements)
           cell == IF elements = <<>> THEN slot["left"] ELSE local["word"]
<1>1. pc = "walk" /\ UNCHANGED <<heap, slot>>
  BY DEF AppendWalk, heapVars
<1>2. /\ Taken(k) /\ local["result"] = slot["right"]
      /\ elements # <<>> => local["word"] = Cdr(left, k + 1, Imm)
  BY <1>1 DEF Copying
<1>3. elements \in Seq(Word) /\ local \in [LocalNames -> Word]
  BY DEF Inv, LocalsInv
<1>4. k \in Nat /\ N \in Nat /\ (elements = <<>> => k = 0)
  BY <1>3, LenProperties, LeftLength, EmptySeq DEF N
<1>5. k \in 0 .. N
  BY <1>2 DEF Taken
<1>6. cell = Cdr(left, k + 1, Imm)
  BY <1>2, <1>4 DEF ListAt
<1>7. \A i \in 1 .. N : left[i] # Imm
  BY ImmAssumption DEF Inv, HeapInv, HeapTypeOK
<1>8. /\ cell = Imm => pc' = "cons" /\ UNCHANGED <<local, elements>>
      /\ cell # Imm => /\ elements' = Append(elements, heap[cell].fields[1])
                       /\ local' = [local EXCEPT !["word"] = heap[cell].fields[2]]
                       /\ pc' = pc
  BY DEF AppendWalk, Goto, SetLocal
<1> HIDE DEF k, cell
<1>9. CASE cell = Imm
  <2>1. k = N
    BY <1>4, <1>5, <1>6, <1>7, <1>9 DEF Cdr
  <2> DEFINE copy == [i \in N + 1 .. N |-> Imm]
  <2>2. N + 1 .. N = {}
    BY <1>4
  <2>3. Copied(copy, k, left, local["result"])
    BY <1>2, <1>4, <2>1, <2>2 DEF Copied, Cdr
  <2>4. Copied(copy, k, left, local["result"])'
    BY <1>1, <1>8, <1>9, <2>3 DEF Copied, ListedPair, k
  <2>5. Taken(k)'
    BY <1>1, <1>2, <1>8, <1>9 DEF Taken, k
  <2> QED
    BY <1>1, <1>8, <1>9, <2>4, <2>5 DEF Copying, k
<1>10. CASE cell # Imm
  <2>1. k + 1 \in 1 .. N /\ cell = left[k + 1]
    BY <1>4, <1>5, <1>6, <1>10 DEF Cdr
  <2>2. heap[cell] = ListedPair(left, k + 1, Imm, slot["right"])
    BY <2>1 DEF ListAt
  <2>3. /\ heap[cell].fields[1] = Element(k + 1, slot["right"])
        /\ heap[cell].fields[2] = Cdr(left, k + 1 + 1, Imm)
    BY <2>2 DEF ListedPair, Pair
  <2>4. slot["right"] \in Word
    BY DEF Inv, HeapInv, HeapTypeOK, Word
  <2>5. Taken(Len(elements))' /\ Len(elements') = k + 1
    BY <1>1, <1>2, <1>8, <1>10, <2>1, <2>3, <2>4, OneMoreTaken DEF k
  <2>6. local'["result"] = slot'["right"] /\ local'["word"] = Cdr(left, Len(elements') + 1, Imm)
    BY <1>1, <1>2, <1>3, <1>8, <1>10, <2>3, <2>5 DEF LocalNames
  <2> QED
    BY <1>1, <1>8, <1>10, <2>5, <2>6 DEF Copying
<1> QED
  BY <1>1, <1>9, <1>10

\* One pair of the copy more, in front of the others.
LEMMA ConsStep ==
  ASSUME Inv, AppendCons, client = "append", slot["right"] \in DOMAIN heap,
         NEW left \in [1 .. N -> DOMAIN heap], ListAt(left, slot["left"], Imm), Copying(left)
  PROVE  /\ Copying(left)' /\ slot' = slot /\ DOMAIN heap \subseteq DOMAIN heap'
         /\ \A x \in DOMAIN heap : heap'[x] = heap[x]
<1>0. PICK k : k = Len(elements)
  OBVIOUS
<1>1. /\ pc = "cons" /\ pc' = pc /\ slot' = slot /\ elements # <<>>
      /\ elements' = SubSeq(elements, 1, k - 1)
  BY <1>0 DEF AppendCons
<1>2. PICK a \in Addr :
        /\ Alloc(a, "pair", <<elements[k], local["result"]>>)
        /\ SetLocal("result", a)
  BY <1>0 DEF AppendCons
<1>3. /\ a \notin DOMAIN heap /\ DOMAIN heap' = DOMAIN heap \union {a}
      /\ heap'[a] = Pair(elements[k], local["result"])
      /\ \A x \in DOMAIN heap : heap'[x] = heap[x]
  BY <1>2 DEF Alloc, Pair
<1>4. elements \in Seq(Word) /\ local \in [LocalNames -> Word]
  BY DEF Inv, LocalsInv
<1>5. local'["result"] = a
  BY <1>2, <1>4 DEF SetLocal, LocalNames
<1>6. Taken(k)
  BY <1>0, <1>1 DEF Copying
<1>7. PICK copy : Copied(copy, k, left, local["result"])
  BY <1>0, <1>1 DEF Copying
<1>8. k \in Nat \ {0} /\ N \in Nat /\ k <= N
  BY <1>0, <1>1, <1>4, <1>6, LenProperties, LeftLength, EmptySeq DEF N, Taken
<1>9. /\ Len(elements') = k - 1
      /\ \A i \in 1 .. k - 1 : elements'[i] = elements[i]
  BY <1>0, <1>1, <1>4, <1>8, SubSeqProperties
<1>10. Taken(k - 1)'
  BY <1>1, <1>6, <1>8, <1>9 DEF Taken, Element, N
<1> PICK longer : longer = [i \in k .. N |-> IF i = k THEN a ELSE copy[i]]
  OBVIOUS
<1>11. Copied(longer, k - 1, left, a)'
  <2>1. copy \in [k + 1 .. N -> DOMAIN heap] /\ k - 1 + 1 = k
    BY <1>7, <1>8 DEF Copied
  <2>2. longer \in [k .. N -> DOMAIN heap']
    BY <1>3, <1>8, <2>1
  <2>3. \A i \in k + 1 .. N + 1 : Cdr(longer, i, slot["right"]) = Cdr(copy, i, slot["right"])
    BY <1>8, <2>1 DEF Cdr
  <2>4. a = Cdr(longer, k, slot["right"])
    BY <1>8 DEF Cdr
  <2>5. heap'[a] = ListedPair(longer, k, slot["right"], slot["right"])
    <3>1. elements[k] = Element(k, slot["right"])
      BY <1>6, <1>8 DEF Taken
    <3>2. local["result"] = Cdr(longer, k + 1, slot["right"])
      BY <1>7, <1>8, <2>3 DEF Copied
    <3> QED
      BY <1>3, <3>1, <3>2 DEF ListedPair
  <2>6. \A i \in k + 1 .. N :
          /\ longer[i] = copy[i]
          /\ heap'[longer[i]] = ListedPair(longer, i, slot["right"], slot["right"])
          /\ longer[i] # slot["right"] /\ \A j \in 1 .. N : longer[i] # left[j]
    <3> SUFFICES ASSUME NEW i \in k + 1 .. N
                 PROVE  /\ longer[i] = copy[i]
                        /\ heap'[copy[i]] = ListedPair(longer, i, slot["right"], slot["right"])
                        /\ copy[i] # slot["right"] /\ \A j \in 1 .. N : copy[i] # left[j]
      OBVIOUS
    <3>1. i \in k .. N /\ i # k /\ i + 1 \in k + 1 .. N + 1
      BY <1>8
    <3>2. longer[i] = copy[i]
      BY <3>1
    <3>3. copy[i] \in DOMAIN heap /\ heap'[copy[i]] = heap[copy[i]]
      BY <1>3, <2>1
    <3>4. /\ heap[copy[i]] = ListedPair(copy, i, slot["right"], slot["right"])
          /\ copy[i] # slot["right"] /\ \A j \in 1 .. N : copy[i] # left[j]
      BY <1>7 DEF Copied
    <3>5. Cdr(longer, i + 1, slot["right"]) = Cdr(copy, i + 1, slot["right"])
      BY <2>3, <3>1
    <3> QED
      BY <3>2, <3>3, <3>4, <3>5 DEF ListedPair
  <2>7. a # slot["right"] /\ \A j \in 1 .. N : a # left[j]
    BY <1>3
  <2>8. \A i \in k .. N :
          /\ heap'[longer[i]] = ListedPair(longer, i, slot["right"], slot["right"])
          /\ longer[i] # slot["right"] /\ \A j \in 1 .. N : longer[i] # left[j]
    <3>1. longer[k] = a
      BY <1>8
    <3>2. \A i \in k .. N : i = k \/ i \in k + 1 .. N
      BY <1>8
    <3> QED
      BY <2>5, <2>6, <2>7, <3>1, <3>2
  <2> QED
    BY <1>1, <2>1, <2>2, <2>4, <2>8 DEF Copied, ListedPair
<1>12. Copying(left)'
  BY <1>1, <1>5, <1>9, <1>10, <1>11 DEF Copying
<1> QED
  BY <1>1, <1>3, <1>12

\* A list stays one where its pairs are left alone.
LEMMA ListStays ==
  ASSUME NEW left \in [1 .. N -> DOMAIN heap], ListAt(left, slot["left"], Imm),
         slot'["left"] = slot["left"], slot'["right"] = slot["right"],
         \A x \in DOMAIN heap : x \in DOMAIN heap' /\ heap'[x] = heap[x]
  PROVE  left \in [1 .. N -> DOMAIN heap'] /\ ListAt(left, slot["left"], Imm)'
BY DEF ListAt, ListedPair, N

\* Every step of append, none of which is a collection, goes on with the copy.
LEMMA AppendStep ==
  ASSUME Inv, AppendInv, [Next]_vars, AllocCollects \subseteq RootedClients
  PROVE  AppendInv'
<1>1. client' = client
  BY DEF Next, Step, Begin, Poll, AllocPair, WorkerStore, AllocBox, BoxSet, StressString,
     StressVector, StressPair, AppendWalk, AppendCons, AppendReturn, ConsCall, ConsAlloc,
     VectorOperand, VectorOfOperands, Pop, AllocationFailed, GarbageCollection, vars
<1> SUFFICES ASSUME client = "append" PROVE AppendInv'
  BY <1>1 DEF AppendInv
<1>2. PICK left \in [1 .. N -> DOMAIN heap] :
        ListAt(left, slot["left"], Imm) /\ Copying(left)
  BY DEF AppendInv
<1>3. slot["right"] \in DOMAIN heap
  BY DEF AppendInv
<1>4. pc \in {"begin", "walk", "cons", "done", "failed"}
  BY ClientsAssumption DEF Inv, ControlInv, PcsOf, AllClients
<1>5. /\ local \in [LocalNames -> Word] /\ slot \in [Slot -> Word]
      /\ {"left", "right", "local_root"} \subseteq Slot
  BY ClientsAssumption DEF Inv, LocalsInv, HeapInv, HeapTypeOK
<1>6. ASSUME Copying(left)', slot'["left"] = slot["left"], slot'["right"] = slot["right"],
             \A x \in DOMAIN heap : x \in DOMAIN heap' /\ heap'[x] = heap[x]
      PROVE  AppendInv'
  BY <1>2, <1>3, <1>6, ListStays DEF AppendInv
<1>7. CASE Begin
  <2>1. /\ pc = "begin" /\ pc' = "walk" /\ UNCHANGED <<heap, slot, elements>>
        /\ local' = [local EXCEPT !["result"] = slot["right"]]
    BY <1>7, <1>4 DEF Begin, Goto, FirstPc, AllClients, SetLocal, heapVars, clientVars
  <2>2. elements = <<>> /\ Len(elements) = 0 /\ N \in Nat
    BY <1>2, <2>1, EmptySeq, LeftLength DEF Copying, N
  <2>3. Taken(Len(elements))'
    BY <2>1, <2>2 DEF Taken
  <2>4. Copying(left)'
    BY <1>5, <2>1, <2>2, <2>3 DEF Copying, LocalNames
  <2> QED
    BY <1>6, <2>1, <2>4
<1>8. CASE AppendWalk
  BY <1>2, <1>3, <1>6, <1>8, WalkStep
<1>9. CASE AppendCons
  BY <1>2, <1>3, <1>6, <1>9, ConsStep
<1>10. CASE AppendReturn
  <2>1. /\ pc = "cons" /\ elements = <<>> /\ pc' = "done" /\ UNCHANGED <<heap, local, elements>>
        /\ slot'["local_root"] = local["result"]
        /\ slot'["left"] = slot["left"] /\ slot'["right"] = slot["right"]
    BY <1>5, <1>10 DEF AppendReturn, Goto, SetSlot, heapVars, clientVars
  <2>2. Len(elements) = 0
    BY <2>1, EmptySeq
  <2>3. PICK copy : Copied(copy, 0, left, local["result"])
    BY <1>2, <2>1, <2>2 DEF Copying
  <2>4. Copied(copy, 0, left, slot["local_root"])'
    BY <2>1, <2>3 DEF Copied, ListedPair
  <2>5. Copying(left)'
    BY <2>1, <2>4 DEF Copying
  <2> QED
    BY <1>6, <2>1, <2>5
<1>11. CASE AllocationFailed
  <2>1. pc' = "failed" /\ UNCHANGED <<heap, slot>>
    BY <1>11 DEF AllocationFailed, Goto, heapVars
  <2>2. Copying(left)'
    BY <2>1 DEF Copying
  <2> QED
    BY <1>6, <2>1, <2>2
<1>12. CASE UNCHANGED vars
  <2>1. UNCHANGED <<heap, slot, pc, local, elements>>
    BY <1>12 DEF vars, heapVars, clientVars
  <2>2. Copying(left)'
    BY <1>2, <2>1 DEF Copying, Copied, Taken, ListedPair
  <2> QED
    BY <1>6, <2>1, <2>2
<1>13. CASE \/ Poll \/ AllocPair \/ WorkerStore \/ AllocBox \/ BoxSet \/ StressString
            \/ StressVector \/ StressPair \/ ConsCall \/ ConsAlloc \/ VectorOperand
            \/ VectorOfOperands \/ Pop \/ GarbageCollection
  <2>1. pc \notin {"begin", "walk", "cons", "done", "failed"}
    BY <1>13 DEF Poll, AllocPair, WorkerStore, AllocBox, BoxSet, StressString, StressVector,
       StressPair, ConsCall, ConsAlloc, VectorOperand, VectorOfOperands, Pop, GarbageCollection,
       RootedClients
  <2> QED
    BY <1>4, <2>1
<1> QED
  BY <1>7, <1>8, <1>9, <1>10, <1>11, <1>12, <1>13 DEF Next, Step

\* append returns a new list of the elements of left, in their order, that ends in
\* right itself, and leaves left as it was, for lists of every length, where no
\* collection falls into its allocations.
THEOREM AppendCopies ==
  ASSUME AllocCollects \subseteq RootedClients
  PROVE  Spec => []AppendShares
<1>1. Init => AppendInv
  <2> SUFFICES ASSUME Init, client = "append" PROVE AppendInv
    BY DEF AppendInv
  <2>1. PICK right \in Addr : \E left \in [DOMAIN LeftElements -> Addr \ {right}] :
          /\ \A i, j \in DOMAIN left : left[i] = left[j] => i = j
          /\ heap = TwoLists(left, right)
          /\ slot = [x \in Slot |-> CASE x = "left" -> Cdr(left, 1, Imm)
                                     [] x = "right" -> right
                                     [] OTHER -> Imm]
    BY DEF Init
  <2>2. PICK left \in [DOMAIN LeftElements -> Addr \ {right}] :
          /\ \A i, j \in DOMAIN left : left[i] = left[j] => i = j
          /\ heap = TwoLists(left, right)
          /\ slot = [x \in Slot |-> CASE x = "left" -> Cdr(left, 1, Imm)
                                     [] x = "right" -> right
                                     [] OTHER -> Imm]
    BY <2>1
  <2>3. slot["left"] = Cdr(left, 1, Imm) /\ slot["right"] = right
    BY <2>2, ClientsAssumption
  <2>4. DOMAIN LeftElements = 1 .. N
    BY LeftLength DEF N
  <2>5. DOMAIN heap = {left[i] : i \in DOMAIN left} \union {right}
    BY <2>2 DEF TwoLists
  <2>6. left \in [1 .. N -> DOMAIN heap] /\ slot["right"] \in DOMAIN heap
    BY <2>2, <2>3, <2>4, <2>5
  <2>7. \A i \in DOMAIN left : heap[left[i]] = ListedPair(left, i, Imm, right)
    <3> SUFFICES ASSUME NEW i \in DOMAIN left
                 PROVE  heap[left[i]] = ListedPair(left, i, Imm, right)
      OBVIOUS
    <3>1. i = CHOOSE j \in DOMAIN left : left[j] = left[i]
      BY <2>2
    <3>2. left[i] \in DOMAIN heap /\ left[i] # right
      BY <2>2, <2>5
    <3> QED
      BY <2>2, <2>5, <3>1, <3>2 DEF TwoLists
  <2>8. ListAt(left, slot["left"], Imm)
    BY <2>3, <2>7 DEF ListAt
  <2>9. Copying(left)
    BY DEF Init, Copying
  <2> QED
    BY <2>6, <2>8, <2>9 DEF AppendInv
<1>2. Inv /\ AppendInv /\ [Next]_vars => AppendInv'
  BY AppendStep
<1>3. AppendInv => AppendShares
  <2> SUFFICES ASSUME AppendInv, client = "append", pc = "done"
               PROVE  \E left, copy \in [DOMAIN LeftElements -> DOMAIN heap] :
                        /\ ListAt(left, slot["left"], Imm)
                        /\ ListAt(copy, slot["local_root"], slot["right"])
                        /\ \A i, j \in DOMAIN LeftElements :
                             copy[i] # left[j] /\ copy[i] # slot["right"]
    BY DEF AppendShares
  <2>1. PICK left \in [1 .. N -> DOMAIN heap] :
          ListAt(left, slot["left"], Imm) /\ Copying(left)
    BY DEF AppendInv
  <2>2. PICK copy : Copied(copy, 0, left, slot["local_root"])
    BY <2>1 DEF Copying
  <2>3. DOMAIN LeftElements = 1 .. N /\ 0 + 1 = 1
    BY LeftLength DEF N
  <2>4. /\ copy \in [1 .. N -> DOMAIN heap] /\ ListAt(copy, slot["local_root"], slot["right"])
        /\ \A i, j \in 1 .. N : copy[i] # left[j] /\ copy[i] # slot["right"]
    BY <2>2, <2>3 DEF Copied, ListAt
  <2>5. /\ left \in [DOMAIN LeftElements -> DOMAIN heap]
        /\ copy \in [DOMAIN LeftElements -> DOMAIN heap]
        /\ \A i, j \in DOMAIN LeftElements : copy[i] # left[j] /\ copy[i] # slot["right"]
    BY <2>1, <2>3, <2>4
  <2> QED
    BY <2>1, <2>4, <2>5, Zenon
<1> QED
  BY <1>1, <1>2, <1>3, Invariance, PTL DEF Spec
=============================================================================
