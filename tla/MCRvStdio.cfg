CONSTANTS
  f = f
  s1 = s1
  s2 = s2
  Path = {f}
  Pipe = "pipe"
  Terminal = "terminal"
  Slot = {s1, s2}
  Std = {"stdin", "stdout"}
  Typed <- MCTyped
  Strings <- MCStrings
  Modes <- MCModes
  Counts <- MCCounts
  LineSizes <- MCLines
  Offsets <- MCOffsets
  Pushed = {"nl"}
  Byte <- MCByte
  NewLine = "nl"
  ZeroByte = "0"
  MaxLen = 3
  MaxFd = 3
VIEW View
SPECIFICATION MCSpec
INVARIANTS DescriptorsOwned
PROPERTIES ImplementsContract
