CONSTANTS
  Align = 2
  Hdr = 4
  Chunk = 24
  Page = 4
  WordMod = 124
  BrkStart = 17
  BrkLimit = 90
  Slot = {s1, s2, s3}
  Sizes <- AllSizes
  ResizeTo <- NewSizes
  Arrays <- MCArrays
SYMMETRY Symmetry
VIEW View
SPECIFICATION MCSpec
INVARIANTS HeapInv Coalesced
PROPERTIES ImplementsContract
