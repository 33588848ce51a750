CONSTANTS
  Char = {a, nul, nl}
  Newline = nl
  Nul = nul
  Term = {{a}}
  MaxText = 4
  BvecSize = 3
  Sources = {"file"}
  MaxResets = 0
  MaxWritten = 1
SPECIFICATION Spec
INVARIANTS WritesInOrder LinesGoOut ScriptExact
PROPERTIES CallsAdvance
