CONSTANTS
  Programs <- MCPrograms
SPECIFICATION FairSpec
INVARIANTS AgreesWithC90 ConditionsRight
PROPERTIES Terminates
