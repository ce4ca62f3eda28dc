SPECIFICATION AtomsSpec
CONSTANTS
  Events <- MCEvents
  Capacity = 88
  Blank = Blank
  BufferSize = 14
  Bodies = {1, 2}
  MaxScopes = 3
INVARIANTS TypeOK EventsWhole ForgeTypeOK SizesExact ReadBack
PROPERTY ImplementsEventList
