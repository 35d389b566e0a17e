SPECIFICATION Spec
CONSTANTS
  seller = seller
  buyer = buyer
  other = other
  r1 = r1
  r2 = r2
  k1 = k1
  k2 = k2
  NoListing = NoListing
  NoConversation = NoConversation
  Earlier = Earlier
  Users = {seller, buyer}
  Listings = {1}
  Columns = {"title"}
  Requests = {r1}
  Contacts = {k1}
PROPERTIES
  StartsOnlyWhenForSale
CHECK_DEADLOCK FALSE
