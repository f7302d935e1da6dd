CONSTANTS
  Tasks = {c, p, q}
  Consumer = c
  Producers = {p}
  Receivers = {q}
  Datas = {11, 12}
  Msgs = {21, 22}
  Refs = {1, 2, 3, 4, 5, 6, 7, 8, 9, 10}
  Room = 1
  Queue = Queue
  Lost = Lost
  NULL = NULL
  InitAnswers = {"ok", "failed"}
  LoopAnswers = {"ok", "continue", "break"}
  MessageAnswers = {"ok", "continue", "break"}
  ScheduleAnswers = {"ok", "continue", "break"}
  Timed = TRUE
SPECIFICATION FairTaskSpec
INVARIANTS
  SvcKeepsOne
  PayloadPresent
  PointersLive
PROPERTIES
  Served
  Recycled
