SPECIFICATION Spec
CONSTANTS
  Instances = {i1, i2}
  Snapshots = {s1, s2}
  Keys = {k1, k2}
  Values = {v1, v2}
  Null = Null
SYMMETRY MCSymmetry
INVARIANTS TypeOK SnapshotIsOwn StatusTruthful
