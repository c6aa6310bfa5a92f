CONSTANTS
  ByteBits = 3
  Junk = 1365
  StackSize = 256
  Frame = 400
SPECIFICATION Spec
INVARIANTS ResultsRight EffectsRight StackBalanced
CHECK_DEADLOCK FALSE
