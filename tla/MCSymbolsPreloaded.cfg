SPECIFICATION Spec
CONSTANTS
  s1 = s1
  s2 = s2
  s3 = s3
  ka = ka
  kb = kb
  Syms = {s1, s2, s3}
  Keys = {ka, kb}
  Preloads <- SparsePreloads
  Null = Null
  EmptyStr = EmptyStr
CONSTRAINT
  InOrder
INVARIANT
  MappedUnmaps
