CONSTANTS
  Char = {a, dot, nl}
  Newline = nl
  Blank = blank
  Term = {{nl}, {dot}, {dot, nl}}
  MaxText = 4
  BvecSize = 1
  MaxResets = 1
SPECIFICATION Spec
INVARIANTS StringLine
PROPERTIES StringInOrder
