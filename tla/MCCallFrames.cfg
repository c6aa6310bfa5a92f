CONSTANTS
  Outer <- MCOuter
  Inner <- MCInner
  MaxCalls = 2
  MaxOperands = 1
  MaxLost = 1
SPECIFICATION MCSpec
INVARIANTS ParametersArrive VariadicsArrive AlignedCalls LibraryFinds
PROPERTIES CallsBalance
