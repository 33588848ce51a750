CONSTANTS
  Stream = {s1}
  Perm = {s1}
  Mode = {"tty"}
  Bytevec = {b1, b2}
  BvecSize = 2
  NoBytevec = NoBytevec
  NoStream = NoStream
SPECIFICATION Spec
INVARIANTS NoFailure
