SPECIFICATION CatalogSpec
CONSTANTS
  seller = seller
  stranger = stranger
  r1 = r1
  r2 = r2
  r3 = r3
  NoListing = NoListing
  Earlier = Earlier
  Users = {seller, stranger}
  Listings = {1}
  Columns = {"title"}
  Requests = {r1, r2}
PROPERTIES
  LegalTransitions
CHECK_DEADLOCK FALSE
