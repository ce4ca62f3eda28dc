SPECIFICATION Spec
CONSTANTS
  Arrays = {a1, a2, a3}
  Buffers = {b1, b2, b3}
  Keys = {min, other}
  Fields = {min}
  Values = {v1, v2}
  MaxOptions = 2
  Null = Null
SYMMETRY ArraySymmetry
INVARIANTS TypeOK Terminated DetailsAgree
PROPERTY ImplementsOptionList
