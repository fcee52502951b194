SPECIFICATION Spec
CONSTANTS
  t = t
  e = e
  x = x
  d = d
  w = w
  f = f
  u = u
  c = c
  Kind <- MCKind
  Programs <- MCPrograms
  Finalizable = {d}
  NULL = NULL
  MaxStack = 2
SYMMETRY Tables
INVARIANTS NoneFreedYoung OldRefersToOld PointersDivideAges
