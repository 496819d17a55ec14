SPECIFICATION Spec
CONSTANTS
  Fields = {field}
  NoField = NoField
PROPERTY FatalIsShown
