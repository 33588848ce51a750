CONSTANTS
  Char = {a, dot, nl}
  Newline = nl
  Term = {{nl}, {dot}, {dot, nl}}
  MaxText = 4
  BvecSize = 2
  Sources = {"file", "pipe", "terminal"}
  MaxResets = 1
SPECIFICATION InputSpec
INVARIANTS LineNumber
PROPERTIES ReadsInOrder
