CONSTANTS
  Job = {"stage2", "i386"}
  Mode <- StageMode
  Input <- StageInput
  Output <- StageOutput
  Retrying = {}
  Pieces = 2
SPECIFICATION Spec
PROPERTIES OwnOutput
