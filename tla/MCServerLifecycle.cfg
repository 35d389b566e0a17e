SPECIFICATION LifeSpec
CONSTANTS
  seller = seller
  buyer = buyer
  other = other
  tab = tab
  Users = {seller, buyer, other}
  Subscriptions = {tab}
  Owner <- MCOwner
  Capacity = 2
  MaxMessages = 3
INVARIANTS
  NoPanic
  GaplessStream
  NoLeakedSubscription
  CleanMeansClean
PROPERTIES
  FailureIsReported
  StreamsLetShutdownEnd
  StreamsEnd
  BufferedAreWritten
  ImplementsFeed
CHECK_DEADLOCK FALSE
