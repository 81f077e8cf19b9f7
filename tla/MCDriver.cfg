SPECIFICATION FairSpec
CONSTANTS
  Registrations <- MCRegistrations
  Removals <- MCRemovals
  REGISTRY = "registry"
  COOKIE = COOKIE
  Events = {e1, e2}
  Irps = {i1}
  Files = {f1}
  Sizes = {1, 2}
  QUEUE_CAP = 1
  UNLOAD = UNLOAD
  SizeOf <- MCSizeOf
  NULL = NULL
INVARIANTS
  TypeOK LockInitialised NothingOutlivesImage
PROPERTIES
  ImplementsInvertedCall ImplementsLifecycle UnloadEnds
