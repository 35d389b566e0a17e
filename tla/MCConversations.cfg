SPECIFICATION Spec
CONSTANTS
  seller = seller
  buyer = buyer
  other = other
  r1 = r1
  r2 = r2
  k1 = k1
  k2 = k2
  NoListing = NoListing
  NoConversation = NoConversation
  Earlier = Earlier
  Users = {seller, buyer, other}
  Listings = {1}
  Columns = {"title", "price"}
  Requests = {r1, r2}
  Contacts = {k1, k2}
INVARIANTS
  OneConversation
PROPERTIES
  OnlyAskedChanges
  LegalWhenFresh
SYMMETRY CallSymmetry
CHECK_DEADLOCK FALSE
