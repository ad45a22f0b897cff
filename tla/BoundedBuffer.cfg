SPECIFICATION Spec
CONSTANTS
  Producer = {p1, p2, p3}
  Consumer = {c1, c2, c3}
  buf_size = 4
SYMMETRY Threads
INVARIANTS
  SharedStateAgrees
  BufferInv
PROPERTIES
  NoOverwrite
CHECK_DEADLOCK TRUE
