CONSTANTS
  Values = {0, 1}
  Names <- MCNames
  Statics = {"count"}
  Bounds <- MCBounds
SPECIFICATION Spec
INVARIANTS Assembles SwitchesOpen
PROPERTIES ImplementsStructure
CHECK_DEADLOCK FALSE
