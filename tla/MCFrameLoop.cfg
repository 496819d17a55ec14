SPECIFICATION Spec
CONSTANTS
  Fields = {field}
  NoField = NoField
INVARIANTS
  TeardownAlone
PROPERTIES
  EndIsReached
  FatalShownInLoop
  PausedWhileAway
  KeyboardServed
