CONSTANTS
  b1 = b1  b2 = b2  b3 = b3
  Tasks = {t1, t2, t3}
  Takers = {t1}
  Blocks = {b1, b2, b3}
  StackNum = 2
  MinSize = 8
  Home <- MCHome
  Sizes = {8, 9, 17}
  NULL = NULL
SPECIFICATION Spec
INVARIANTS
  SingleOwner
  NoBlockLost
  FoundStaysNonEmpty
PROPERTIES
  BigEnough
  ImplementsStacks
