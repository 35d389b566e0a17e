--------------------------- MODULE MCListingPages ---------------------------
(***************************************************************************)
(* Instances of ListingPages: the public search in its three orders, one   *)
(* of them filtered, and the two lists of one seller's listings, of every  *)
(* status or of one.                                                       *)
(***************************************************************************)
EXTENDS ListingPages

CONSTANTS s1, keyboard, keycap

Search(sort, topic) ==
  [list |-> "search", seller |-> Any, sort |-> sort, status |-> Any, topic |-> topic]

OfSeller(list, sort, status) ==
  [list |-> list, seller |-> s1, sort |-> sort, status |-> status, topic |-> Any]

MCQueries ==
  {Search("newest", Any), Search("price_asc", keyboard), Search("price_desc", Any),
   OfSeller("seller", "rank", Any), OfSeller("seller", "rank", "active"),
   OfSeller("owned", "updated", Any)}
=============================================================================
