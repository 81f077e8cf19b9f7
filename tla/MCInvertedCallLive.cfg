SPECIFICATION FairSpec
CONSTANTS
  Events = {e1, e2}
  Irps = {i1, i2}
  Files = {f1}
  Sizes = {1, 2}
  QUEUE_CAP = 1
  UNLOAD = UNLOAD
  NULL = NULL
PROPERTIES
  RequestHandled ParkedServed UnloadEnds
