SPECIFICATION Spec
CONSTANTS
  Types <- MCTypes
  Targets <- MCTargets
  Patterns <- MCPatterns
  Widths = {1, 3, 8}
  ByteBits = 2
  MaxMembers = 3
  MaxStores = 1
INVARIANTS TypeOK MembersApart Placed ValuesKept FieldResults ImageSized
CHECK_DEADLOCK FALSE
