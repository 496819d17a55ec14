SPECIFICATION Spec
CONSTANTS
  Buttons = {A}
  Fingers = {f1, f2, f3}
  Places = {left, right}
  MaxFingers = 2
  MaxGen = 3
INVARIANTS
  EngineMirrored
  NothingHeldUnderApplet
  HeldThroughIsHeldBack
PROPERTIES
  FingerThroughIsNotNew
  PressArrives
