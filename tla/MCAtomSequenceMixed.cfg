SPECIFICATION Spec
CONSTANTS
  Events <- MCEvents
  Capacity = 88
  Blank = Blank
INVARIANT EventsWhole
