CONSTANTS
  Stream = {s1, s2, s3}
  Perm = {}
  Mode = {"write"}
  Bytevec = {b1, b2, b3, b4}
  BvecSize = 2
  NoBytevec = NoBytevec
  NoStream = NoStream
SPECIFICATION Spec
INVARIANTS Acyclic ScriptingCached BuffersDistinct OpensExact
PROPERTIES CloseDrains
SYMMETRY StreamSymmetry
