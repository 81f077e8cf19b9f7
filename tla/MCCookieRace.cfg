SPECIFICATION Spec
CONSTANTS
  Registrations <- MCRegistrations
  Removals <- MCRemovals
  REGISTRY = "registry"
  COOKIE = COOKIE
  Calls = {c1, c2}
  QUEUE_CAP = 2
  NULL = NULL
INVARIANT CookieReadAfterStore
