SPECIFICATION Spec
CONSTANTS
  Buffers = {b1, b2, b3, b4}
  Sizes = {1, 2}
  QUEUE_CAP = 3
  DROP_MOD = 3
  None = None
  UNINIT = UNINIT
INVARIANTS TypeOK Window Ownership
PROPERTY ImplementsEventQueue
