CONSTANTS
  Programs <- MutualPrograms
SPECIFICATION FairSpec
PROPERTIES Terminates
