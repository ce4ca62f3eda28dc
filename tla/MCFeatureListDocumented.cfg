SPECIFICATION ListSpec
CONSTANTS
  Lists = {l1, l2}
  Blocks = {b1, b2, b3}
  MaxSize = 2
  Nullptr = Nullptr
INVARIANT ArrayIsCurrent
