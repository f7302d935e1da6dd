CONSTANTS
  Tasks = {t1, t2}
  Datas = {d1, d2}
  Msgs = {m1, m2}
  Refs = {r1, r2, r3, r4, r5}
  Room = 1
  Queue = Queue
  Lost = Lost
  NULL = NULL
SPECIFICATION Spec
SYMMETRY MCSymmetry
INVARIANTS
  HeldNotFree
  NotForgotten
CHECK_DEADLOCK FALSE
