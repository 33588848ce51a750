CONSTANTS
  Stream = {s1, s2}
  Perm = {s1}
  Mode = {"read", "write", "tty", "nul", "istr", "ostr"}
  Bytevec = {b1, b2, b3}
  BvecSize = 2
  NoBytevec = NoBytevec
  NoStream = NoStream
SPECIFICATION Spec
INVARIANTS TypeOK RoomToPut
PROPERTIES CloseAllVisits CallsReturn
