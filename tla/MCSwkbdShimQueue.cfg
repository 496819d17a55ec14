SPECIFICATION Spec
CONSTANTS
  Fields = {email, password}
  NoField = NoField
INVARIANT NothingQueuedBehind
