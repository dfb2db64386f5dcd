\* The clients that keep words in locals, with collections inside allocations.
SPECIFICATION Spec
CONSTANTS
  Addr = {a1, a2, a3, a4, a5}
  Imm = Imm
  Slot <- Slots
  MaxCollections = 1
  Clients <- Unrooted
  Iterations = 1
  AllocCollects <- Unrooted
  LeftElements <- TwoElements
SYMMETRY AddrSymmetry
INVARIANT BuiltAsGiven
CHECK_DEADLOCK FALSE
