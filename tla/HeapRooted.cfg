\* Every client; collections at polls, and inside the allocations of the clients
\* that keep nothing but roots over one.
SPECIFICATION Spec
CONSTANTS
  Addr = {a1, a2, a3, a4, a5}
  Imm = Imm
  Slot <- Slots
  MaxCollections = 4
  Clients <- EveryClient
  Iterations = 3
  AllocCollects <- Rooted
  LeftElements <- TwoElements
SYMMETRY AddrSymmetry
INVARIANTS
  TypeOK
  HeapClosed
  PublishedListIntact
  AppendShares
  ShadowStackBalanced
PROPERTY CollectionInvisible
CHECK_DEADLOCK FALSE
