SPECIFICATION Safety
CONSTANTS
  seller = seller
  buyer = buyer
  other = other
  s1 = s1
  s2 = s2
  k1 = k1
  k2 = k2
  NoSend = NoSend
  Users = {seller, buyer, other}
  Conversations = {1, 2}
  Parties <- MCParties
  Written <- MCWritten
  Sends = {s1, s2}
  Marks = {k1, k2}
  Reader = seller
  CreatedAt <- MCCreatedAt
  InboxLimit = 1
  MaxTime = 2
INVARIANTS
  ActivityIsLastCommit
  SteadyConversationShownOnce
  RepeatedOnlyIfMovedBack
SYMMETRY RequestSymmetry
PROPERTIES
  OnlyLateCommitsGoUncounted
  UnreadChangesForAReason
CHECK_DEADLOCK FALSE
