CONSTANTS
  Job = {"asm", "obj", "exe"}
  Mode <- ApartMode
  Input <- ApartInput
  Output <- ApartOutput
  Retrying = {"exe"}
  Pieces = 2
SPECIFICATION FairSpec
INVARIANTS TempGone JobInv
PROPERTIES OwnOutput Terminates
