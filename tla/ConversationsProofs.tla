------------------------ MODULE ConversationsProofs ------------------------
(***************************************************************************)
(* Theorems about listings and the conversations that start about them,    *)
(* for any users, listings and overlapping calls: a listing keeps its      *)
(* seller and changes only as its seller's requests name it, and a buyer   *)
(* has one conversation about it.                                          *)
(***************************************************************************)
EXTENDS Conversations, FiniteSetTheorems, TLAPS

-----------------------------------------------------------------------------
(* Listings                                                                *)

\* What a step does to one row keeps the row's seller.
LEMMA RowStep ==
  ASSUME CatalogTypeOK, NEW l \in Listings, Exists(l), NEW row \in Row,
         row.seller = listing[l].seller, listing' = [listing EXCEPT ![l] = row]
  PROVE  /\ listing' \in [Listings -> Row \cup {NoListing}]
         /\ \A m \in Listings : Exists(m) =>
              Exists(m)' /\ listing'[m].seller = listing[m].seller
BY NoListingAssumption DEF CatalogTypeOK, Exists

\* Every call that writes has the arguments of its kind.
LEMMA CallForm ==
  ASSUME CatalogTypeOK, NEW r \in Requests
  PROVE  /\ call[r].op = "create" => call[r] \in CreateCall
         /\ call[r].op = "update" => call[r] \in UpdateCall
         /\ call[r].op = "status" => call[r] \in StatusCall
BY DEF CatalogTypeOK, NoCall, CreateCall, UpdateCall, StatusCall

LEMMA CatalogStep ==
  ASSUME CatalogTypeOK, [CatalogNext]_catalogVars
  PROVE  /\ CatalogTypeOK'
         /\ \A m \in Listings : Exists(m) =>
              Exists(m)' /\ listing'[m].seller = listing[m].seller
<1> DEFINE Stands == \A m \in Listings : Exists(m) =>
                       Exists(m)' /\ listing'[m].seller = listing[m].seller
<1>0. /\ listing \in [Listings -> Row \cup {NoListing}]
      /\ pc \in [Requests -> {"idle", "deciding", "done"}]
      /\ call \in [Requests -> {NoCall} \cup CreateCall \cup UpdateCall \cup StatusCall]
      /\ seen \in [Requests -> Statuses]
      /\ \A l \in Listings : Exists(l) => listing[l] \in Row
  BY DEF CatalogTypeOK, Exists
<1>1. ASSUME NEW r \in Requests, NEW u \in Users, CreateListing(r, u)
      PROVE  CatalogTypeOK' /\ Stands
  BY <1>0, <1>1 DEF CreateListing, Run, Decide, CreateCall, CatalogTypeOK, Exists
<1>2. ASSUME NEW r \in Requests, NEW l \in Listings, InsertListing(r, l)
      PROVE  CatalogTypeOK' /\ Stands
  <2> DEFINE row == [seller |-> call[r].user, status |-> "active", removed |-> FALSE,
                     columns |-> [c \in Columns |-> r]]
  <2>1. row \in Row
    BY <1>2, CallForm DEF InsertListing, CreateCall, Row, Statuses
  <2>2. listing' = [listing EXCEPT ![l] = row] /\ ~Exists(l)
    BY <1>2 DEF InsertListing
  <2> HIDE DEF row
  <2>3. listing' \in [Listings -> Row \cup {NoListing}] /\ Stands
    BY <1>0, <2>1, <2>2 DEF Exists
  <2> QED
    BY <1>0, <1>2, <2>3 DEF InsertListing, Finish, CatalogTypeOK
<1>3. ASSUME NEW r \in Requests, NEW u \in Users, NEW l \in Listings,
             NEW cs \in SUBSET Columns, UpdateListing(r, u, l, cs)
      PROVE  CatalogTypeOK' /\ Stands
  BY <1>0, <1>3 DEF UpdateListing, Run, Decide, Finish, UpdateCall, CatalogTypeOK, Exists
<1>4. ASSUME NEW r \in Requests, NEW u \in Users, NEW l \in Listings, NEW s \in Statuses,
             ChangeListingStatus(r, u, l, s)
      PROVE  CatalogTypeOK' /\ Stands
  <2>1. [op |-> "status", user |-> u, id |-> l, status |-> s] \in StatusCall
    BY DEF StatusCall
  <2>2. call' \in [Requests -> {NoCall} \cup CreateCall \cup UpdateCall \cup StatusCall]
    BY <1>0, <1>4, <2>1 DEF ChangeListingStatus, Run
  <2>3. seen' \in [Requests -> Statuses]
    <3>1. CASE seen' = [seen EXCEPT ![r] = listing[l].status] /\ MayEdit(u, l)
      <4>1. listing[l].status \in Statuses
        BY <1>0, <3>1 DEF MayEdit, Row
      <4> QED
        BY <1>0, <3>1, <4>1
    <3> QED
      BY <1>0, <1>4, <3>1 DEF ChangeListingStatus
  <2> QED
    BY <1>0, <1>4, <2>2, <2>3
       DEF ChangeListingStatus, Decide, Finish, CatalogTypeOK, Exists
<1>5. ASSUME NEW r \in Requests, UpdateOwnedListing(r)
      PROVE  CatalogTypeOK' /\ Stands
  <2>1. CASE Editable(r)
    <3>1. call[r] \in UpdateCall
      BY <1>5, CallForm DEF UpdateOwnedListing
    <3> DEFINE l == call[r].id
               row == [listing[l] EXCEPT !.columns =
                         [c \in Columns |-> IF c \in call[r].columns THEN r ELSE @[c]]]
    <3>2. l \in Listings /\ Exists(l) /\ listing[l] \in Row
      BY <1>0, <2>1, <3>1 DEF Editable, UpdateCall
    <3>3. row \in Row /\ row.seller = listing[l].seller
      BY <3>2 DEF Row
    <3>4. listing' = [listing EXCEPT ![l] = row]
      BY <1>0, <1>5, <2>1, <3>2 DEF UpdateOwnedListing
    <3> HIDE DEF row, l
    <3>5. listing' \in [Listings -> Row \cup {NoListing}] /\ Stands
      BY <3>2, <3>3, <3>4, RowStep
    <3> QED
      BY <1>0, <1>5, <3>5 DEF UpdateOwnedListing, Finish, CatalogTypeOK
  <2>2. CASE ~Editable(r)
    BY <1>0, <1>5, <2>2 DEF UpdateOwnedListing, Finish, CatalogTypeOK, Exists
  <2> QED
    BY <2>1, <2>2
<1>6. ASSUME NEW r \in Requests, UpdateOwnedListingStatus(r)
      PROVE  CatalogTypeOK' /\ Stands
  <2>1. CASE Editable(r)
    <3>1. call[r] \in StatusCall
      BY <1>6, CallForm DEF UpdateOwnedListingStatus
    <3> DEFINE l == call[r].id
               row == [listing[l] EXCEPT !.status = call[r].status]
    <3>2. l \in Listings /\ Exists(l) /\ listing[l] \in Row /\ call[r].status \in Statuses
      BY <1>0, <2>1, <3>1 DEF Editable, StatusCall
    <3>3. row \in Row /\ row.seller = listing[l].seller
      BY <3>2 DEF Row
    <3>4. listing' = [listing EXCEPT ![l] = row]
      BY <1>0, <1>6, <2>1, <3>2 DEF UpdateOwnedListingStatus
    <3> HIDE DEF row, l
    <3>5. listing' \in [Listings -> Row \cup {NoListing}] /\ Stands
      BY <3>2, <3>3, <3>4, RowStep
    <3> QED
      BY <1>0, <1>6, <3>5 DEF UpdateOwnedListingStatus, Finish, CatalogTypeOK
  <2>2. CASE ~Editable(r)
    BY <1>0, <1>6, <2>2 DEF UpdateOwnedListingStatus, Finish, CatalogTypeOK, Exists
  <2> QED
    BY <2>1, <2>2
<1>7. ASSUME NEW r \in Requests, Fail(r)
      PROVE  CatalogTypeOK' /\ Stands
  BY <1>0, <1>7 DEF Fail, Finish, CatalogTypeOK, Exists
<1>8. ASSUME NEW l \in Listings, Moderate(l)
      PROVE  CatalogTypeOK' /\ Stands
  <2> DEFINE row == [listing[l] EXCEPT !.removed = ~@]
  <2>1. Exists(l) /\ listing[l] \in Row
    BY <1>0, <1>8 DEF Moderate
  <2>2. row \in Row /\ row.seller = listing[l].seller
    BY <2>1 DEF Row
  <2>3. listing' = [listing EXCEPT ![l] = row]
    BY <1>0, <1>8 DEF Moderate
  <2> HIDE DEF row
  <2>4. listing' \in [Listings -> Row \cup {NoListing}] /\ Stands
    BY <2>1, <2>2, <2>3, RowStep
  <2> QED
    BY <1>0, <1>8, <2>4 DEF Moderate, CatalogTypeOK
<1>9. ASSUME UNCHANGED catalogVars
      PROVE  CatalogTypeOK' /\ Stands
  BY <1>0, <1>9 DEF catalogVars, CatalogTypeOK, Exists
<1> HIDE DEF Stands
<1>10. ASSUME NEW r \in Requests, Handle(r)
       PROVE  CatalogTypeOK' /\ Stands
  <2>1. \A cs \in SUBSET Columns \ {{}} : cs \in SUBSET Columns
    OBVIOUS
  <2> QED
    BY <1>1, <1>2, <1>3, <1>4, <1>5, <1>6, <1>7, <1>10, <2>1 DEF Handle
<1>11. CatalogTypeOK' /\ Stands
  BY <1>8, <1>9, <1>10 DEF CatalogNext
<1> QED
  BY <1>11 DEF Stands

LEMMA CatalogStarts == CatalogInit => CatalogTypeOK
<1> SUFFICES ASSUME CatalogInit
             PROVE  CatalogTypeOK
  OBVIOUS
<1>1. EarlierRow \cup {NoListing} \subseteq Row \cup {NoListing}
  BY DEF EarlierRow
<1>2. listing \in [Listings -> EarlierRow \cup {NoListing}]
  BY DEF CatalogInit
<1>3. listing \in [Listings -> Row \cup {NoListing}]
  BY <1>1, <1>2
<1>4. seen \in [Requests -> Statuses]
  BY DEF CatalogInit, Statuses
<1>5. pc \in [Requests -> {"idle", "deciding", "done"}] /\ call \in [Requests -> {NoCall}]
  BY DEF CatalogInit
<1> QED
  BY <1>3, <1>4, <1>5 DEF CatalogTypeOK

-----------------------------------------------------------------------------
(* Conversations                                                           *)

\* The id of a new row is above those of all rows.
IdsAreCounted ==
  /\ IsFiniteSet(conversations)
  /\ \A c \in conversations : c.id <= Cardinality(conversations)

SellerOf(l, s) == l \in Listings /\ Exists(l) /\ listing[l].seller = s

\* The seller a contact has read is still the listing's when it inserts.
SellersStand ==
  /\ \A c \in conversations : SellerOf(c.listing, c.seller)
  /\ \A k \in Contacts :
       contact[k] \notin {Idle, Over} => SellerOf(contact[k].listing, contact[k].seller)

OnlyAnsweredHaveAnswers ==
  \A k \in Contacts : answer[k] # NoConversation => contact[k].step = "answered"

Inv ==
  /\ TypeOK
  /\ IdsAreCounted
  /\ SellersStand
  /\ OnlyAnsweredHaveAnswers
  /\ OneConversation

Contacted == [step : {"inserting", "answered"}, listing : Listings, seller : Users, buyer : Users]

LEMMA ContactForm ==
  ASSUME TypeOK, NEW k \in Contacts
  PROVE  /\ contact[k] \in {Idle, Over} \cup Contacted
         /\ contact[k].step \in {"inserting", "answered"} =>
              contact[k] \in Contacted /\ contact[k] \notin {Idle, Over}
BY DEF TypeOK, Contacted, Reading, Idle, Over

LEMMA ContactStarts ==
  ASSUME Inv, NEW k \in Contacts, NEW u \in Users, NEW l \in Listings, StartConversation(k, u, l)
  PROVE  Inv'
<1>0. /\ TypeOK /\ IdsAreCounted /\ SellersStand /\ OnlyAnsweredHaveAnswers /\ OneConversation
      /\ UNCHANGED <<listing, pc, call, seen, conversations, answer>>
      /\ contact[k] = Idle
  BY DEF Inv, StartConversation, catalogVars
<1>1. \A j \in Contacts \ {k} : contact'[j] = contact[j]
  BY <1>0 DEF StartConversation, TypeOK
<1>2. answer[k] = NoConversation
  BY <1>0 DEF OnlyAnsweredHaveAnswers, Idle
<1>3. \/ contact'[k] = Over
      \/ /\ contact'[k] \in Reading
         /\ SellerOf(contact'[k].listing, contact'[k].seller)
  <2>1. CASE Exists(l) /\ Available(l) /\ listing[l].seller # u
    <3>1. listing[l].seller \in Users
      BY <1>0, <2>1 DEF TypeOK, CatalogTypeOK, Exists, Row
    <3> QED
      BY <1>0, <2>1, <3>1 DEF StartConversation, TypeOK, Reading, SellerOf
  <2> QED
    BY <1>0, <2>1 DEF StartConversation, TypeOK
<1>4. contact' \in [Contacts -> {Idle, Over} \cup Reading
                                \cup [step : {"answered"}, listing : Listings,
                                      seller : Users, buyer : Users]]
  BY <1>0, <1>3 DEF TypeOK, StartConversation
<1>5. TypeOK'
  BY <1>0, <1>4 DEF TypeOK, CatalogTypeOK
<1>6. SellersStand'
  BY <1>0, <1>1, <1>3 DEF SellersStand, SellerOf, Exists
<1>7. OnlyAnsweredHaveAnswers'
  BY <1>0, <1>1, <1>2 DEF OnlyAnsweredHaveAnswers
<1>8. OneConversation'
  BY <1>0, <1>1, <1>2 DEF OneConversation
<1> QED
  BY <1>0, <1>5, <1>6, <1>7, <1>8 DEF Inv, IdsAreCounted

LEMMA ContactIsLost ==
  ASSUME Inv, NEW k \in Contacts, LoseContact(k)
  PROVE  Inv'
<1>0. /\ TypeOK /\ IdsAreCounted /\ SellersStand /\ OnlyAnsweredHaveAnswers /\ OneConversation
      /\ UNCHANGED <<listing, pc, call, seen, conversations>>
  BY DEF Inv, LoseContact, catalogVars
<1>1. \A j \in Contacts \ {k} : contact'[j] = contact[j] /\ answer'[j] = answer[j]
  BY <1>0 DEF LoseContact, TypeOK
<1>2. contact'[k] = Over /\ answer'[k] = NoConversation
  BY <1>0 DEF LoseContact, TypeOK
<1>3. TypeOK'
  BY <1>0 DEF TypeOK, CatalogTypeOK, LoseContact
<1>4. SellersStand'
  BY <1>0, <1>1, <1>2 DEF SellersStand, SellerOf, Exists
<1>5. OnlyAnsweredHaveAnswers'
  BY <1>1, <1>2, <1>0 DEF OnlyAnsweredHaveAnswers
<1>6. OneConversation'
  BY <1>0, <1>1, <1>2 DEF OneConversation
<1> QED
  BY <1>0, <1>3, <1>4, <1>5, <1>6 DEF Inv, IdsAreCounted

LEMMA ContactInserts ==
  ASSUME Inv, NEW k \in Contacts, InsertConversation(k)
  PROVE  Inv'
<1> DEFINE c == contact[k]
           row == [id |-> FreshId, listing |-> c.listing, seller |-> c.seller, buyer |-> c.buyer]
           n == Cardinality(conversations)
<1>0. /\ TypeOK /\ IdsAreCounted /\ SellersStand /\ OnlyAnsweredHaveAnswers /\ OneConversation
      /\ UNCHANGED <<listing, pc, call, seen>>
      /\ c.step = "inserting" /\ contact' = [contact EXCEPT ![k] = [c EXCEPT !.step = "answered"]]
  BY DEF Inv, InsertConversation, catalogVars
<1>1. c \in Contacted /\ SellerOf(c.listing, c.seller)
  BY <1>0, ContactForm DEF SellersStand
<1>2. n \in Nat /\ FreshId = n + 1 /\ \A a \in conversations : a.id \in Nat /\ a.id <= n
  BY <1>0, FS_CardinalityType DEF IdsAreCounted, FreshId, TypeOK, Conversation
<1>3. /\ \A j \in Contacts \ {k} : contact'[j] = contact[j] /\ answer'[j] = answer[j]
      /\ contact'[k].step = "answered" /\ contact'[k].listing = c.listing
      /\ contact'[k].seller = c.seller /\ contact'[k].buyer = c.buyer
      /\ contact'[k] \in [step : {"answered"}, listing : Listings, seller : Users, buyer : Users]
  <2> DEFINE after == [c EXCEPT !.step = "answered"]
  <2>1. /\ after.step = "answered" /\ after.listing = c.listing /\ after.seller = c.seller
        /\ after.buyer = c.buyer
        /\ after \in [step : {"answered"}, listing : Listings, seller : Users, buyer : Users]
    BY <1>1 DEF Contacted
  <2>2. contact' = [contact EXCEPT ![k] = after]
    BY <1>0
  <2> HIDE DEF after
  <2>3. contact'[k] = after /\ \A j \in Contacts \ {k} : contact'[j] = contact[j]
    BY <1>0, <2>2 DEF TypeOK
  <2>4. \A j \in Contacts \ {k} : answer'[j] = answer[j]
    BY <1>0 DEF InsertConversation, TypeOK
  <2> QED
    BY <2>1, <2>3, <2>4
<1>4. contact' \in [Contacts -> {Idle, Over} \cup Reading
                                \cup [step : {"answered"}, listing : Listings,
                                      seller : Users, buyer : Users]]
  BY <1>0, <1>3 DEF TypeOK
<1>5. OnlyAnsweredHaveAnswers'
  BY <1>0, <1>3 DEF OnlyAnsweredHaveAnswers
<1>6. SellersStand' <=> \A a \in conversations' : SellerOf(a.listing, a.seller)
  BY <1>0, <1>1, <1>3 DEF SellersStand, SellerOf, Exists
<1>7. CASE Existing(c) = {}
  <2>1. /\ conversations' = conversations \cup {row}
        /\ answer' = [answer EXCEPT ![k] = [id |-> FreshId, created |-> TRUE]]
        /\ answer'[k] = [id |-> FreshId, created |-> TRUE]
    BY <1>0, <1>7 DEF InsertConversation, TypeOK
  <2>2. /\ row \in Conversation /\ row.id = n + 1 /\ row.listing = c.listing
        /\ row.seller = c.seller /\ row.buyer = c.buyer
    BY <1>1, <1>2 DEF Contacted, Conversation
  <2>3. \A a \in conversations :
          ~(a.listing = c.listing /\ a.seller = c.seller /\ a.buyer = c.buyer)
    BY <1>7 DEF Existing
  <2> HIDE DEF row
  <2>4. IdsAreCounted'
    <3>1. row \notin conversations
      BY <1>2, <2>2
    <3>2. IsFiniteSet(conversations') /\ Cardinality(conversations') = n + 1
      BY <1>0, <2>1, <3>1, FS_AddElement DEF IdsAreCounted
    <3>3. \A a \in conversations' : a.id <= n + 1
      BY <1>2, <2>1, <2>2
    <3> QED
      BY <3>2, <3>3 DEF IdsAreCounted
  <2>5. TypeOK'
    <3>1. answer' \in [Contacts -> [id : Nat \ {0}, created : BOOLEAN] \cup {NoConversation}]
      <4>1. [id |-> FreshId, created |-> TRUE] \in [id : Nat \ {0}, created : BOOLEAN]
        BY <1>2
      <4> QED
        BY <1>0, <2>1, <4>1 DEF TypeOK
    <3> QED
      BY <1>0, <1>4, <2>1, <2>2, <3>1 DEF TypeOK, CatalogTypeOK
  <2>6. SellersStand'
    BY <1>0, <1>1, <1>6, <2>1, <2>2 DEF SellersStand
  <2>7. \A a, b \in conversations' :
          (a.listing = b.listing /\ a.buyer = b.buyer) \/ a.id = b.id => a = b
    <3>1. ASSUME NEW a \in conversations
          PROVE  ~(a.listing = row.listing /\ a.buyer = row.buyer) /\ a.id # row.id
      <4>1. a.listing = c.listing => a.seller = c.seller
        BY <1>0, <1>1, <3>1 DEF SellersStand, SellerOf
      <4> QED
        BY <1>2, <2>2, <2>3, <4>1
    <3> QED
      BY <1>0, <2>1, <3>1 DEF OneConversation
  <2>8. \A j \in Contacts : answer'[j] # NoConversation =>
          \E a \in conversations' :
            a.id = answer'[j].id /\ a.listing = contact'[j].listing /\ a.buyer = contact'[j].buyer
    BY <1>0, <1>2, <1>3, <2>1, <2>2 DEF OneConversation
  <2>9. \A j \in Contacts \ {k} : answer[j] # NoConversation => answer[j].id # n + 1
    BY <1>0, <1>2 DEF OneConversation
  <2>10. answer'[k].id = n + 1
    BY <1>2, <2>1
  <2>11. OneConversation'
    BY <1>0, <1>3, <2>7, <2>8, <2>9, <2>10 DEF OneConversation
  <2> QED
    BY <1>5, <2>4, <2>5, <2>6, <2>11 DEF Inv
<1>8. CASE Existing(c) # {}
  <2>1. PICK old \in Existing(c) :
          answer' = [answer EXCEPT ![k] = [id |-> old.id, created |-> FALSE]]
    BY <1>0, <1>8 DEF InsertConversation
  <2>2. conversations' = conversations
    BY <1>0, <1>8 DEF InsertConversation
  <2>3. /\ old \in conversations /\ old.listing = c.listing /\ old.buyer = c.buyer
        /\ old.id \in Nat \ {0}
        /\ answer'[k].id = old.id /\ answer'[k].created = FALSE
    BY <1>0, <2>1 DEF Existing, TypeOK, Conversation
  <2>4. TypeOK'
    BY <1>0, <1>4, <2>1, <2>2, <2>3 DEF TypeOK, CatalogTypeOK
  <2>5. SellersStand' /\ IdsAreCounted'
    BY <1>0, <1>6, <2>2 DEF SellersStand, IdsAreCounted
  <2>6. OneConversation'
    BY <1>0, <1>3, <2>2, <2>3 DEF OneConversation
  <2> QED
    BY <1>5, <2>4, <2>5, <2>6 DEF Inv
<1> QED
  BY <1>7, <1>8

LEMMA ConversationsStep == Inv /\ [Next]_vars => Inv'
<1> SUFFICES ASSUME Inv, [Next]_vars
             PROVE  Inv'
  OBVIOUS
<1>1. CASE UNCHANGED chatVars /\ [CatalogNext]_catalogVars
  <2>1. /\ CatalogTypeOK'
        /\ \A m \in Listings : Exists(m) => Exists(m)' /\ listing'[m].seller = listing[m].seller
    BY <1>1, CatalogStep DEF Inv, TypeOK
  <2>2. conversations' = conversations /\ contact' = contact /\ answer' = answer
    BY <1>1 DEF chatVars
  <2>3. SellersStand'
    BY <2>1, <2>2 DEF Inv, SellersStand, SellerOf
  <2> QED
    BY <2>1, <2>2, <2>3
       DEF Inv, TypeOK, IdsAreCounted, OnlyAnsweredHaveAnswers, OneConversation
<1> QED
  BY <1>1, ContactStarts, ContactInserts, ContactIsLost DEF Next, vars

LEMMA ConversationsInit == Init => Inv
<1> SUFFICES ASSUME Init
             PROVE  Inv
  OBVIOUS
<1>1. /\ conversations = {} /\ contact = [k \in Contacts |-> Idle]
      /\ answer = [k \in Contacts |-> NoConversation] /\ CatalogTypeOK
  BY CatalogStarts DEF Init
<1>2. IdsAreCounted
  BY <1>1, FS_EmptySet DEF IdsAreCounted
<1> QED
  BY <1>1, <1>2
     DEF Inv, TypeOK, SellersStand, OnlyAnsweredHaveAnswers, OneConversation

LEMMA ConversationsInductive == Spec => []Inv
BY ConversationsInit, ConversationsStep, PTL DEF Spec

\* However many calls of a buyer overlap with each other and with changes of
\* the listing, they have one conversation about it, and one created it.
THEOREM OneConversationEach == Spec => []OneConversation
<1>1. Inv => OneConversation
  BY DEF Inv
<1> QED
  BY <1>1, ConversationsInductive, PTL

\* A conversation names the seller its listing has: no statement moves a
\* listing to another seller, so what StartConversation read before it
\* inserted is still true when the row is there.
SellersAreRight == \A c \in conversations : listing[c.listing].seller = c.seller

\* A conversation is with the seller of its listing.
THEOREM ConversationsNameTheSeller == Spec => []SellersAreRight
<1>1. Inv => SellersAreRight
  BY DEF Inv, SellersStand, SellerOf, SellersAreRight
<1> QED
  BY <1>1, ConversationsInductive, PTL

-----------------------------------------------------------------------------
(* Changes of a listing                                                    *)

Moderated(l) == [listing'[l] EXCEPT !.removed = listing[l].removed] = listing[l]

\* The seller's request r writes what it names of row l, which is visible.
Writes(r, l) ==
  /\ pc[r] = "deciding" /\ pc' = [pc EXCEPT ![r] = "done"]
  /\ call[r].id = l /\ call[r].user = listing[l].seller /\ ~listing[l].removed
  /\ \/ /\ call[r].op = "update" /\ listing'[l].status = listing[l].status
        /\ \A c \in Columns \ call[r].columns :
             listing'[l].columns[c] = listing[l].columns[c]
     \/ /\ call[r].op = "status"
        /\ listing'[l] = [listing[l] EXCEPT !.status = call[r].status]

LEMMA RowChanges ==
  ASSUME CatalogTypeOK, [CatalogNext]_catalogVars,
         NEW l \in Listings, Exists(l), listing'[l] # listing[l]
  PROVE  (Moderated(l) /\ listing'[l].status = listing[l].status) \/ \E r \in Requests : Writes(r, l)
<1>0. listing \in [Listings -> Row \cup {NoListing}] /\ listing[l] \in Row
  BY DEF CatalogTypeOK, Exists
<1>1. ASSUME NEW r \in Requests, UpdateOwnedListing(r)
      PROVE  Writes(r, l)
  <2> DEFINE columns == [c \in Columns |-> IF c \in call[r].columns THEN r
                                           ELSE listing[l].columns[c]]
             row == [listing[l] EXCEPT !.columns = columns]
  <2>1. Editable(r) /\ call[r].id = l
    BY <1>0, <1>1 DEF UpdateOwnedListing
  <2>2. /\ row.status = listing[l].status
        /\ \A c \in Columns \ call[r].columns : row.columns[c] = listing[l].columns[c]
    BY <1>0 DEF Row
  <2>3. listing'[l] = row
    BY <1>0, <1>1, <2>1 DEF UpdateOwnedListing
  <2> HIDE DEF row
  <2> QED
    BY <1>1, <2>1, <2>2, <2>3 DEF UpdateOwnedListing, Editable, Finish, Writes
<1>2. ASSUME NEW r \in Requests, UpdateOwnedListingStatus(r)
      PROVE  Writes(r, l)
  <2>1. Editable(r) /\ call[r].id = l
    BY <1>0, <1>2 DEF UpdateOwnedListingStatus
  <2>2. listing'[l] = [listing[l] EXCEPT !.status = call[r].status]
    BY <1>0, <1>2, <2>1 DEF UpdateOwnedListingStatus
  <2> QED
    BY <1>2, <2>1, <2>2 DEF UpdateOwnedListingStatus, Editable, Finish, Writes
<1>3. ASSUME NEW m \in Listings, Moderate(m)
      PROVE  Moderated(l) /\ listing'[l].status = listing[l].status
  <2> DEFINE row == [listing[l] EXCEPT !.removed = ~@]
  <2>1. [row EXCEPT !.removed = listing[l].removed] = listing[l] /\ row.status = listing[l].status
    BY <1>0 DEF Row
  <2>2. listing'[l] = row
    BY <1>0, <1>3 DEF Moderate
  <2> HIDE DEF row
  <2> QED
    BY <2>1, <2>2 DEF Moderated
<1>4. ASSUME NEW r \in Requests, NEW m \in Listings, InsertListing(r, m)
      PROVE  FALSE
  BY <1>0, <1>4 DEF InsertListing
<1>5. CASE UNCHANGED listing
  BY <1>5
<1> QED
  BY <1>1, <1>2, <1>3, <1>4, <1>5
     DEF CatalogNext, Handle, CreateListing, UpdateListing, ChangeListingStatus, Fail, catalogVars

LEMMA CatalogSteps == [Next]_vars => [CatalogNext]_catalogVars
BY DEF Next, StartConversation, InsertConversation, LoseContact, vars

\* However requests, moderation and contacts overlap, a row changes only as a
\* seller's own request names it, while it is visible: no request puts back a
\* column or a status that it read before.
THEOREM OnlyAskedColumnsChange == Spec => OnlyAskedChanges
<1> DEFINE Asked(l) ==
      \/ [listing'[l] EXCEPT !.removed = listing[l].removed] = listing[l]
      \/ \E r \in Requests :
           /\ pc[r] = "deciding" /\ pc'[r] = "done"
           /\ call[r].op \in {"update", "status"}
           /\ call[r].id = l /\ call[r].user = listing[l].seller
           /\ ~listing[l].removed
           /\ \/ /\ call[r].op = "update"
                 /\ listing'[l].status = listing[l].status
                 /\ \A c \in Columns \ call[r].columns :
                      listing'[l].columns[c] = listing[l].columns[c]
              \/ /\ call[r].op = "status"
                 /\ listing'[l] = [listing[l] EXCEPT !.status = call[r].status]
           AllAsked == \A l \in Listings : (Exists(l) /\ listing'[l] # listing[l]) => Asked(l)
<1>1. ASSUME Inv, [Next]_vars
      PROVE  AllAsked
  <2> SUFFICES ASSUME NEW l \in Listings, Exists(l), listing'[l] # listing[l]
               PROVE  Asked(l)
    OBVIOUS
  <2>1. CatalogTypeOK /\ [CatalogNext]_catalogVars
    BY <1>1, CatalogSteps DEF Inv, TypeOK
  <2>2. Moderated(l) \/ \E r \in Requests : Writes(r, l)
    BY <2>1, RowChanges
  <2>3. pc \in [Requests -> {"idle", "deciding", "done"}]
    BY <2>1 DEF CatalogTypeOK
  <2> QED
    BY <2>2, <2>3 DEF Moderated, Writes
<1>2. Inv /\ [Next]_vars => [AllAsked]_catalogVars
  BY <1>1
<1> QED
  BY <1>2, ConversationsInductive, PTL DEF Spec, OnlyAskedChanges

\* A request that goes on to change a status has found the change in the table
\* for the status it read.
DecidedByTable ==
  \A r \in Requests :
    pc[r] = "deciding" /\ call[r].op = "status" => CanTransition(seen[r], call[r].status)

LEMMA DecisionsStay ==
  ASSUME CatalogTypeOK, DecidedByTable, [CatalogNext]_catalogVars
  PROVE  DecidedByTable'
<1>0. /\ pc \in [Requests -> {"idle", "deciding", "done"}]
      /\ call \in [Requests -> {NoCall} \cup CreateCall \cup UpdateCall \cup StatusCall]
      /\ seen \in [Requests -> Statuses]
  BY DEF CatalogTypeOK
<1>1. ASSUME NEW r \in Requests, NEW c, Run(r, c), c.op # "status",
             Decide(r) \/ Finish(r), seen' = seen
      PROVE  DecidedByTable'
  BY <1>0, <1>1 DEF Run, Decide, Finish, DecidedByTable
<1>2. ASSUME NEW r \in Requests, Finish(r), UNCHANGED <<call, seen>>
      PROVE  DecidedByTable'
  BY <1>0, <1>2 DEF Finish, DecidedByTable
<1>3. ASSUME NEW r \in Requests, NEW u \in Users, NEW l \in Listings, NEW s \in Statuses,
             ChangeListingStatus(r, u, l, s)
      PROVE  DecidedByTable'
  BY <1>0, <1>3 DEF ChangeListingStatus, Run, Decide, Finish, DecidedByTable
<1>4. ASSUME NEW r \in Requests, Handle(r)
      PROVE  DecidedByTable'
  <2>1. ASSUME NEW u \in Users, CreateListing(r, u)
        PROVE  DecidedByTable'
    BY <1>1, <2>1 DEF CreateListing
  <2>2. ASSUME NEW u \in Users, NEW l \in Listings, NEW cs \in SUBSET Columns,
               UpdateListing(r, u, l, cs)
        PROVE  DecidedByTable'
    BY <1>1, <2>2 DEF UpdateListing
  <2>3. CASE \/ \E l \in Listings : InsertListing(r, l)
             \/ UpdateOwnedListing(r) \/ UpdateOwnedListingStatus(r) \/ Fail(r)
    BY <1>2, <2>3 DEF InsertListing, UpdateOwnedListing, UpdateOwnedListingStatus, Fail
  <2>4. \A cs \in SUBSET Columns \ {{}} : cs \in SUBSET Columns
    OBVIOUS
  <2> QED
    BY <1>3, <1>4, <2>1, <2>2, <2>3, <2>4 DEF Handle
<1>5. CASE UNCHANGED <<pc, call, seen>>
  BY <1>5 DEF DecidedByTable
<1> QED
  BY <1>4, <1>5 DEF CatalogNext, Moderate, catalogVars

\* A status that is still the one the request read changes along the table,
\* whatever else is under way.
THEOREM FreshChangesAreLegal == Spec => LegalWhenFresh
<1> DEFINE Legal ==
      \A l \in Listings :
        (Exists(l) /\ listing'[l].status # listing[l].status) =>
          \A r \in Requests :
            (pc[r] = "deciding" /\ pc'[r] = "done" /\ seen[r] = listing[l].status) =>
              CanTransition(listing[l].status, listing'[l].status)
<1>1. Init => DecidedByTable
  BY DEF Init, CatalogInit, DecidedByTable
<1>2. Inv /\ DecidedByTable /\ [Next]_vars => DecidedByTable'
  BY CatalogSteps, DecisionsStay DEF Inv, TypeOK
<1>3. ASSUME Inv, DecidedByTable, [Next]_vars
      PROVE  Legal
  <2> SUFFICES ASSUME NEW l \in Listings, Exists(l), listing'[l].status # listing[l].status,
                      NEW r \in Requests, pc[r] = "deciding", pc'[r] = "done",
                      seen[r] = listing[l].status
               PROVE  CanTransition(listing[l].status, listing'[l].status)
    OBVIOUS
  <2>1. CatalogTypeOK /\ [CatalogNext]_catalogVars
    BY <1>3, CatalogSteps DEF Inv, TypeOK
  <2>2. PICK w \in Requests : Writes(w, l)
    BY <2>1, RowChanges
  <2>3. w = r
    BY <2>1, <2>2 DEF Writes, CatalogTypeOK
  <2>4. /\ call[r].op = "status"
        /\ listing'[l] = [listing[l] EXCEPT !.status = call[r].status]
    BY <2>2, <2>3 DEF Writes
  <2>5. listing[l] \in Row
    BY <2>1 DEF CatalogTypeOK, Exists
  <2>6. listing'[l].status = call[r].status
    BY <2>4, <2>5 DEF Row
  <2> QED
    BY <1>3, <2>4, <2>6 DEF DecidedByTable
<1>4. Inv /\ DecidedByTable /\ [Next]_vars => [Legal]_catalogVars
  BY <1>3
<1> QED
  BY <1>1, <1>2, <1>4, ConversationsInductive, PTL DEF Spec, LegalWhenFresh
=============================================================================
