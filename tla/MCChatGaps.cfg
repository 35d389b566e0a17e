SPECIFICATION Safety
CONSTANTS
  seller = seller
  buyer = buyer
  c1 = c1
  s1 = s1
  s2 = s2
  tab = tab
  NoSend = NoSend
  Users = {seller, buyer}
  Conversations = {c1}
  Parties <- MCParties
  Written <- MCWritten
  Sends = {s1, s2}
  Marks = {}
  Tabs = {tab}
  TabUser <- MCTabUser
  TabOf <- MCTabOf
  PageLimit = 1
  MaxStreams = 2
INVARIANTS
  PagesHaveNoGaps
CHECK_DEADLOCK FALSE
