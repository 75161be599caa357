SPECIFICATION Spec
CONSTANTS
  Callers = {p, q}
  Items = {x, y}
  NoItem = NoItem
  InboxBound = 1
  StrayBound = 1
SYMMETRY Symmetry
INVARIANTS
  TypeOK
  ReadIsCurrent
PROPERTY
  CallsAreAtomic
