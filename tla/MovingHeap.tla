----------------------------- MODULE MovingHeap -----------------------------
(***************************************************************************)
(* The heap of the runtime under StickyImmix: objects that a collection    *)
(* moves or frees, the two kinds of roots the binding reports (the shadow  *)
(* stack of a thread and the global roots), and the write barrier.         *)
(*                                                                         *)
(* A word is an address or Imm, which stands for every immediate.  Code    *)
(* keeps words in slots, which a collection updates when they are          *)
(* registered as roots, and in locals of the client, which it never sees.  *)
(***************************************************************************)
EXTENDS Integers, Sequences

CONSTANTS
  Addr,            \* where an object may lie; the size of the heap
  Imm,             \* a word that is not a reference
  Slot,            \* the memory words that may be registered as roots
  MaxCollections   \* bound: collections

ASSUME ImmAssumption == Imm \notin Addr
ASSUME CollectionsAssumption == MaxCollections \in Nat

VARIABLES
  heap,         \* the objects, a function on the addresses in use
  old,          \* objects that survived a collection
  remembered,   \* old objects the barrier logged since the last one
  stack,        \* ThreadContext.roots, the shadow stack: a sequence of slots
  globals,      \* RuntimeState.global_roots
  slot,         \* the words in the slots
  collections   \* how many collections there were

heapVars == <<heap, old, remembered>>
rootVars == <<stack, globals>>

Word == Addr \union {Imm}

Kinds == {"pair", "box", "closure", "vector", "string", "symbol"}

Object == [kind : Kinds, fields : Seq(Word)]

HeapInit ==
  /\ old = {}
  /\ remembered = {}
  /\ stack = <<>>
  /\ globals = {}
  /\ collections = 0

-----------------------------------------------------------------------------
(* What the runtime does for its clients.                                  *)

\* alloc_raw_checked and the initialising stores of an alloc_*_checked, without
\* a barrier: the object is young.
Alloc(a, kind, fields) ==
  /\ a \in Addr \ DOMAIN heap
  /\ heap' = [x \in DOMAIN heap \union {a} |->
                IF x = a THEN [kind |-> kind, fields |-> fields] ELSE heap[x]]
  /\ UNCHANGED <<old, remembered>>

\* Variant: a plain store.
ObjectWritePlain(src, index, target) ==
  /\ heap' = [heap EXCEPT ![src].fields[index] = target]
  /\ UNCHANGED <<old, remembered>>

\* object_write_post_checked: the store, and MMTk's object barrier.
ObjectWritePost(src, index, target) ==
  /\ heap' = [heap EXCEPT ![src].fields[index] = target]
  /\ remembered' = IF src \in old THEN remembered \union {src} ELSE remembered
  /\ UNCHANGED old

PushRoot(s) == stack' = Append(stack, s)

\* pop_root_checked, which fails on an empty shadow stack.
PopRoot ==
  /\ stack # <<>>
  /\ stack' = SubSeq(stack, 1, Len(stack) - 1)

RegisterGlobalRoot(s) == globals' = globals \union {s}

-----------------------------------------------------------------------------
(* A collection, as the binding lets MMTk do one.                          *)

\* Variant: a box is taken for an object without fields.
ScannedFieldsUnboxed(object) ==
  IF object.kind \in {"pair", "closure", "vector"}
  THEN {object.fields[i] : i \in DOMAIN object.fields}
  ELSE {}

\* Scanning::scan_object: the fields it reports, by the kind in the header.
ScannedFields(object) ==
  IF object.kind \in {"pair", "box", "closure", "vector"}
  THEN {object.fields[i] : i \in DOMAIN object.fields}
  ELSE {}

\* Variant: scan_vm_specific_roots reports nothing.
RootSlotsOfThreads == {stack[i] : i \in DOMAIN stack}

RootSlots == {stack[i] : i \in DOMAIN stack} \union globals

RootWords == {slot[s] : s \in RootSlots}

\* The objects whose fields a collection traces: a nursery collection takes the
\* old ones as they are, but for those the barrier logged.
TracedObjects(nursery) ==
  IF nursery THEN (DOMAIN heap \ old) \union remembered ELSE DOMAIN heap

\* Retained objects: at least what the tracing reaches.
Retains(nursery, kept) ==
  /\ RootWords \ {Imm} \subseteq kept
  /\ nursery => old \subseteq kept
  /\ \A a \in kept \intersect TracedObjects(nursery) :
       ScannedFields(heap[a]) \ {Imm} \subseteq kept

Moved(move, word) == IF word \in DOMAIN move THEN move[word] ELSE word

\* The survivors are evacuated or stay where they are (a nursery collection
\* leaves the old ones alone); reported slots and traced fields are updated.
CollectWith(nursery, kept, move) ==
  /\ Retains(nursery, kept)
  /\ \A a, b \in kept : move[a] = move[b] => a = b
  /\ nursery => \A a \in old : move[a] = a
  /\ heap' = [x \in {move[a] : a \in kept} |->
                LET a == CHOOSE b \in kept : move[b] = x
                IN IF a \in TracedObjects(nursery)
                   THEN [heap[a] EXCEPT !.fields =
                           [i \in DOMAIN heap[a].fields |-> Moved(move, heap[a].fields[i])]]
                   ELSE heap[a]]
  /\ slot' = [s \in Slot |-> IF s \in RootSlots THEN Moved(move, slot[s]) ELSE slot[s]]
  /\ old' = {move[a] : a \in kept}
  /\ remembered' = {}
  /\ collections' = collections + 1
  /\ UNCHANGED rootVars

Collect ==
  /\ collections < MaxCollections
  /\ \E nursery \in BOOLEAN, kept \in SUBSET DOMAIN heap :
       \E move \in [kept -> Addr] : CollectWith(nursery, kept, move)

-----------------------------------------------------------------------------
(* Properties of the heap.                                                 *)

HeapTypeOK ==
  /\ DOMAIN heap \subseteq Addr
  /\ \A a \in DOMAIN heap : heap[a] \in Object
  /\ old \subseteq DOMAIN heap /\ remembered \subseteq old
  /\ stack \in Seq(Slot) /\ globals \subseteq Slot
  /\ slot \in [Slot -> Word]
  /\ collections \in 0 .. MaxCollections

Resolves(word) == word = Imm \/ word \in DOMAIN heap

\* Every field of every object, and every root, is an immediate or refers to an
\* object that exists: no collection leaves a stale reference in the heap.
HeapClosed ==
  /\ \A a \in DOMAIN heap : \A i \in DOMAIN heap[a].fields : Resolves(heap[a].fields[i])
  /\ \A s \in RootSlots : Resolves(slot[s])

\* After a step in which the object at x came from from[x], a word refers to the
\* object that it referred to before.
SameReferent(from, after, before) ==
  IF before = Imm THEN after = Imm ELSE after \in DOMAIN from /\ from[after] = before

=============================================================================
