CONSTANTS
  File = {"main", "head", "gone", "a.h", "b.h"}
  Existing = {"main", "head", "a.h", "b.h"}
  Main = "main"
  Name = {"A", "B"}
  Lines <- MCLines
  FirstLines <- MCFirstLines
  MaxLines = 16
  MaxDepth = 4
SPECIFICATION MCSpec
INVARIANTS TypeOK CondInv GuardedOnce NestingEnds
PROPERTIES ImplementsStandard Terminates
