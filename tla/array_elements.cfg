CONSTANTS
  Elem = {e1, e2}
  Zero = zero
  MAX_ARR_SIZE = 2
  MaxPad = 2
  MinIndex = 0
  MaxIndex = 2
SPECIFICATION Spec
PROPERTY ElementsYieldsItem
SYMMETRY ElemSymmetry
