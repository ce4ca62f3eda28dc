SPECIFICATION HostSpec
CONSTANTS
  ca = ca
  cb = cb
  own = own
  Classes = {ca, cb}
  Features = {"urid:map", "urid:unmap", "opts:options", "log:log", "rsz:resize", "ui:resize"}
  Data = {d}
  Uris = {"opts:interface", "state:interface", "ui:resize", "ui:idleInterface", "ui:showInterface"}
  Mixins <- MCMixins
  Provides <- MCProvides
  Given <- MCGiven
  Required <- MCRequired
  Handles = {h1, h2}
  MaxDescriptors = 2
  Null = Null
  Lists = {l1, l2}
  Blocks = {s1, s2, s3}
  MaxSize = 2
  Nullptr = Nullptr
SYMMETRY MCSymmetry
INVARIANTS
  MixedTypeOK
  RequirementsMet
  ExtensionsOverride
  HoldsItsFeatures
  RequiredAnswers
  ListTypeOK
  CurrentUnlessDisturbed
  ArrayEndsInTime
