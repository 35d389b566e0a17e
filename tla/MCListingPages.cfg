SPECIFICATION Spec
CONSTANTS
  s1 = s1
  keyboard = keyboard
  keycap = keycap
  NoRow = NoRow
  NoQuery = NoQuery
  Start = Start
  Any = Any
  Ids = {1, 2, 3}
  Sellers = {s1}
  Topics = {keyboard, keycap}
  Prices = {1, 2}
  Times = {1, 2}
  Statuses = {"active", "reserved"}
  Queries <- MCQueries
  Limits = {1, 2}
  MaxWrites = 3
INVARIANTS
  TypeOK
  SteadyShownOnce
  PagesInOrder
  NewestNeverRepeats
PROPERTIES
  ReadingEnds
CHECK_DEADLOCK FALSE
