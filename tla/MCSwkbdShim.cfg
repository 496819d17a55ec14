SPECIFICATION Spec
CONSTANTS
  Fields = {email, password}
  NoField = NoField
INVARIANTS
  QuietAfterClose
PROPERTIES
  ImplementsService
  KindIsTheAskers
