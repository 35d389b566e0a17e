--------------------------- MODULE Conversations ---------------------------
(***************************************************************************)
(* Starting conversations: ChatService.StartConversation                   *)
(* (internal/app/chat.go) and the upsert of db/queries/chat.sql, composed  *)
(* with the life of the listings in Catalog.                               *)
(*                                                                         *)
(* A buyer's request reads the listing in one statement and inserts the    *)
(* conversation in another, so sellers and operators may change the        *)
(* listing in between, and several tabs of a buyer may contact the seller  *)
(* at once.                                                                *)
(***************************************************************************)
EXTENDS Catalog, FiniteSets

CONSTANTS
  Contacts,       \* calls of StartConversation
  NoConversation  \* a failed call's answer

VARIABLES
  conversations,  \* the committed rows of table conversations
  contact,        \* the step, arguments and listing read of each call
  answer          \* what each finished call returned

chatVars == <<conversations, contact, answer>>
vars == <<catalogVars, chatVars>>

Conversation == [id : Nat \ {0}, listing : Listings, seller : Users, buyer : Users]

Idle == [step |-> "idle"]
Over == [step |-> "over"]
Reading == [step : {"inserting"}, listing : Listings, seller : Users, buyer : Users]

Init ==
  /\ CatalogInit
  /\ conversations = {}
  /\ contact = [k \in Contacts |-> Idle]
  /\ answer = [k \in Contacts |-> NoConversation]

-----------------------------------------------------------------------------
Available(l) == ~listing[l].removed /\ listing[l].status \in {"active", "reserved"}

\* GetListing, then ErrNotFound, ErrListingUnavailable or ErrSelfConversation,
\* or on to the insert with what was read.  A disabled account never comes
\* here: the session middleware has refused it.
StartConversation(k, buyer, l) ==
  /\ contact[k] = Idle
  /\ contact' = [contact EXCEPT ![k] =
       IF Exists(l) /\ Available(l) /\ listing[l].seller # buyer
         THEN [step |-> "inserting", listing |-> l, seller |-> listing[l].seller, buyer |-> buyer]
         ELSE Over]
  /\ UNCHANGED <<catalogVars, conversations, answer>>

\* Mutant: the constraint leaves the buyer out.
ExistingOfListing(c) ==
  {row \in conversations : row.listing = c.listing /\ row.seller = c.seller}

\* The row the unique constraint on (listing_id, seller_id, buyer_id) conflicts with.
Existing(c) ==
  {row \in conversations :
     row.listing = c.listing /\ row.seller = c.seller /\ row.buyer = c.buyer}

FreshId == Cardinality(conversations) + 1

\* INSERT .. ON CONFLICT DO UPDATE SET created_at = created_at RETURNING ..,
\* (xmax = 0) AS created: one row either way, "created" only for an insert.
InsertConversation(k) ==
  LET c == contact[k] IN
  /\ c.step = "inserting"
  /\ IF Existing(c) = {}
       THEN /\ conversations' = conversations \cup
                 {[id |-> FreshId, listing |-> c.listing, seller |-> c.seller, buyer |-> c.buyer]}
            /\ answer' = [answer EXCEPT ![k] = [id |-> FreshId, created |-> TRUE]]
       ELSE /\ UNCHANGED conversations
            /\ \E row \in Existing(c) :
                 answer' = [answer EXCEPT ![k] = [id |-> row.id, created |-> FALSE]]
  /\ contact' = [contact EXCEPT ![k] = [c EXCEPT !.step = "answered"]]
  /\ UNCHANGED catalogVars

\* The statement fails or is cancelled before it takes effect, or its answer
\* is lost after it did.
LoseContact(k) ==
  /\ contact[k].step \in {"inserting", "answered"}
  /\ answer' = [answer EXCEPT ![k] = NoConversation]
  /\ contact' = [contact EXCEPT ![k] = Over]
  /\ UNCHANGED <<catalogVars, conversations>>

Next ==
  \/ CatalogNext /\ UNCHANGED chatVars
  \/ \E k \in Contacts :
       \/ \E u \in Users, l \in Listings : StartConversation(k, u, l)
       \/ InsertConversation(k)
       \/ LoseContact(k)

Spec == Init /\ [][Next]_vars

-----------------------------------------------------------------------------
\* Type invariant of the chat side.
TypeOK ==
  /\ CatalogTypeOK
  /\ conversations \subseteq Conversation
  /\ contact \in [Contacts -> {Idle, Over} \cup Reading
                              \cup [step : {"answered"}, listing : Listings,
                                    seller : Users, buyer : Users]]
  /\ answer \in [Contacts -> [id : Nat \ {0}, created : BOOLEAN] \cup {NoConversation}]

\* However many tabs contact the seller at once, a buyer and a listing have one
\* conversation, every call that answers names the one of its own buyer, and at
\* most one of them says it created it.
OneConversation ==
  /\ \A a, b \in conversations :
       (a.listing = b.listing /\ a.buyer = b.buyer) \/ a.id = b.id => a = b
  /\ \A k \in Contacts : answer[k] # NoConversation =>
       \E c \in conversations :
         c.id = answer[k].id /\ c.listing = contact[k].listing /\ c.buyer = contact[k].buyer
  /\ \A j, k \in Contacts :
       (/\ answer[j] # NoConversation /\ answer[k] # NoConversation
        /\ answer[j].id = answer[k].id
        /\ answer[j].created /\ answer[k].created) => j = k

\* No conversation starts about a listing that is sold or archived.  The code
\* reads the listing before the insert and does not check it again.
StartsOnlyWhenForSale ==
  [][\A c \in conversations' \ conversations :
       listing[c.listing].status \in {"active", "reserved"}]_vars
=============================================================================
