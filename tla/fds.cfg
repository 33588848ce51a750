CONSTANTS
  Chan = {c1, c2, c3}
  Name = {f}
  MaxFd = 4
SPECIFICATION Spec
INVARIANTS Owned ChildFiles ChildKeeps
PROPERTIES Accounted AbortSpares
SYMMETRY ChanSymmetry
