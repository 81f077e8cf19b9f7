SPECIFICATION Spec
CONSTANTS
  Events = {e1, e2, e3}
  Irps = {i1, i2}
  Files = {f1}
  Sizes = {1, 2}
  QUEUE_CAP = 2
  UNLOAD = UNLOAD
  NULL = NULL
SYMMETRY Symmetry
INVARIANTS
  TypeOK NoLostWakeup OneBufferHolder LossesCountedOnce NoSilentLoss AnswerDelivered
PROPERTIES ImplementsFeed AnswerIsFinal
