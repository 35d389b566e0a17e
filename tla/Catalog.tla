------------------------------- MODULE Catalog -------------------------------
(***************************************************************************)
(* The life of listings: CatalogService (internal/app/catalog.go) over the *)
(* statements of db/queries/catalog.sql.                                   *)
(*                                                                         *)
(* A request is a goroutine.  The service reads the row in one statement,  *)
(* decides, and writes in another, with no transaction around the two: any *)
(* number of requests, and direct changes of the moderation status in the  *)
(* database, may come between.  One statement is atomic, and PostgreSQL    *)
(* evaluates the WHERE of an UPDATE on the row it then writes.             *)
(*                                                                         *)
(* Titles, prices and the like are columns; the value of a column is the   *)
(* request that wrote it.  Validation of the input, which depends on the   *)
(* input alone, comes before the first step.  A row's updated_at is left   *)
(* to the paging of listings.                                              *)
(***************************************************************************)
EXTENDS Naturals

CONSTANTS
  Users,      \* local user ids
  Listings,   \* listing ids the sequence can hand out
  Columns,    \* the columns of a listing that its seller edits
  Requests,   \* calls of CreateListing, UpdateListing, ChangeListingStatus
  Earlier,    \* the requests that ended before the behaviour begins
  NoListing   \* no row has this id

Statuses == {"active", "reserved", "sold", "archived"}

VARIABLES
  listing,   \* the committed rows of table listings
  pc,        \* "idle", "deciding" (the row is read) or "done"
  call,      \* the arguments of a request once it runs
  seen       \* the status a ChangeListingStatus request read

catalogVars == <<listing, pc, call, seen>>

Row == [seller : Users, status : Statuses, removed : BOOLEAN,
        columns : [Columns -> Requests \cup {Earlier}]]

ASSUME NoListingAssumption == NoListing \notin Row

NoCall == [op |-> "none"]
CreateCall == [op : {"create"}, user : Users]
UpdateCall == [op : {"update"}, user : Users, id : Listings, columns : SUBSET Columns]
StatusCall == [op : {"status"}, user : Users, id : Listings, status : Statuses]

\* Listings that earlier requests created and moved to any status.
EarlierRow == {row \in Row : row.columns = [c \in Columns |-> Earlier]}

CatalogInit ==
  /\ listing \in [Listings -> EarlierRow \cup {NoListing}]
  /\ pc = [r \in Requests |-> "idle"]
  /\ call = [r \in Requests |-> NoCall]
  /\ seen = [r \in Requests |-> "active"]

Exists(l) == listing[l] # NoListing

-----------------------------------------------------------------------------
\* The table of CanTransitionListingStatus for two different statuses.
CanTransition(from, to) ==
  \/ from = "active"   /\ to \in {"reserved", "sold", "archived"}
  \/ from = "reserved" /\ to \in {"active", "sold", "archived"}
  \/ from = "sold"     /\ to \in {"active", "archived"}
  \/ from = "archived" /\ to = "active"

\* What UpdateListing and ChangeListingStatus check on the row they read.
MayEdit(u, l) == Exists(l) /\ ~listing[l].removed /\ listing[l].seller = u

Run(r, c) ==
  /\ pc[r] = "idle"
  /\ call' = [call EXCEPT ![r] = c]

Finish(r) == pc' = [pc EXCEPT ![r] = "done"]
Decide(r) == pc' = [pc EXCEPT ![r] = "deciding"]

\* FindActiveCategoryBySlug has found the category; the insert comes next.
CreateListing(r, u) ==
  /\ Run(r, [op |-> "create", user |-> u])
  /\ Decide(r)
  /\ UNCHANGED <<listing, seen>>

\* The row gets status 'active' and moderation_status 'visible'.
InsertListing(r, l) ==
  /\ pc[r] = "deciding" /\ call[r].op = "create"
  /\ ~Exists(l)
  /\ listing' = [listing EXCEPT ![l] =
       [seller |-> call[r].user, status |-> "active", removed |-> FALSE,
        columns |-> [c \in Columns |-> r]]]
  /\ Finish(r)
  /\ UNCHANGED <<call, seen>>

\* 404 for no row or a removed one, 403 for another seller's.
UpdateListing(r, u, l, columns) ==
  /\ Run(r, [op |-> "update", user |-> u, id |-> l, columns |-> columns])
  /\ IF MayEdit(u, l) THEN Decide(r) ELSE Finish(r)
  /\ UNCHANGED <<listing, seen>>

\* Mutant: the table of transitions is not consulted.
ChangeToAnyStatus(r, u, l, status) ==
  /\ Run(r, [op |-> "status", user |-> u, id |-> l, status |-> status])
  /\ IF MayEdit(u, l) /\ listing[l].status # status
       THEN Decide(r) /\ seen' = [seen EXCEPT ![r] = listing[l].status]
       ELSE Finish(r) /\ UNCHANGED seen
  /\ UNCHANGED listing

\* The current status is answered as it is; a step the table lacks is a 409.
ChangeListingStatus(r, u, l, status) ==
  /\ Run(r, [op |-> "status", user |-> u, id |-> l, status |-> status])
  /\ IF MayEdit(u, l) /\ listing[l].status # status /\ CanTransition(listing[l].status, status)
       THEN Decide(r) /\ seen' = [seen EXCEPT ![r] = listing[l].status]
       ELSE Finish(r) /\ UNCHANGED seen
  /\ UNCHANGED listing

\* Mutant: the UPDATE does not repeat the check of moderation_status.
EditableThoughRemoved(r) ==
  LET l == call[r].id IN Exists(l) /\ listing[l].seller = call[r].user

\* WHERE id = .. AND seller_id = .. AND moderation_status = 'visible'
Editable(r) ==
  LET l == call[r].id IN Exists(l) /\ listing[l].seller = call[r].user /\ ~listing[l].removed

\* Only the columns of the request are set, each CASE WHEN set_x THEN x ELSE
\* the column of the current row.
UpdateOwnedListing(r) ==
  /\ pc[r] = "deciding" /\ call[r].op = "update"
  /\ IF Editable(r)
       THEN listing' = [listing EXCEPT ![call[r].id].columns =
              [c \in Columns |-> IF c \in call[r].columns THEN r ELSE @[c]]]
       ELSE UNCHANGED listing
  /\ Finish(r)
  /\ UNCHANGED <<call, seen>>

UpdateOwnedListingStatus(r) ==
  /\ pc[r] = "deciding" /\ call[r].op = "status"
  /\ IF Editable(r)
       THEN listing' = [listing EXCEPT ![call[r].id].status = call[r].status]
       ELSE UNCHANGED listing
  /\ Finish(r)
  /\ UNCHANGED <<call, seen>>

\* A statement fails, or the client's connection cancels its context.
Fail(r) ==
  /\ pc[r] = "deciding"
  /\ Finish(r)
  /\ UNCHANGED <<listing, call, seen>>

\* Operators set moderation_status in the database; no code of src/ does.
Moderate(l) ==
  /\ Exists(l)
  /\ listing' = [listing EXCEPT ![l].removed = ~@]
  /\ UNCHANGED <<pc, call, seen>>

Handle(r) ==
  \/ \E u \in Users : CreateListing(r, u)
  \/ \E l \in Listings : InsertListing(r, l)
  \/ \E u \in Users, l \in Listings, cs \in SUBSET Columns \ {{}} : UpdateListing(r, u, l, cs)
  \/ \E u \in Users, l \in Listings, s \in Statuses : ChangeListingStatus(r, u, l, s)
  \/ UpdateOwnedListing(r)
  \/ UpdateOwnedListingStatus(r)
  \/ Fail(r)

CatalogNext ==
  \/ \E r \in Requests : Handle(r)
  \/ \E l \in Listings : Moderate(l)

CatalogSpec == CatalogInit /\ [][CatalogNext]_catalogVars

-----------------------------------------------------------------------------
\* Type invariant of the table of listings and of the requests.
CatalogTypeOK ==
  /\ listing \in [Listings -> Row \cup {NoListing}]
  /\ pc \in [Requests -> {"idle", "deciding", "done"}]
  /\ call \in [Requests -> {NoCall} \cup CreateCall \cup UpdateCall \cup StatusCall]
  /\ seen \in [Requests -> Statuses]

\* A committed row changes only by a moderation change, or by one request of
\* its own seller, while the row is visible, and only in what that request
\* names: no request that decided on an older row puts an older column or
\* status back, and none that passed its checks changes a row removed since.
OnlyAskedChanges ==
  [][\A l \in Listings :
       (Exists(l) /\ listing'[l] # listing[l]) =>
         \/ [listing'[l] EXCEPT !.removed = listing[l].removed] = listing[l]
         \/ \E r \in Requests :
              /\ pc[r] = "deciding" /\ pc'[r] = "done"
              /\ call[r].op \in {"update", "status"}
              /\ call[r].id = l /\ call[r].user = listing[l].seller
              /\ ~listing[l].removed
              /\ \/ /\ call[r].op = "update"
                    /\ listing'[l].status = listing[l].status
                    /\ \A c \in Columns \ call[r].columns :
                         listing'[l].columns[c] = listing[l].columns[c]
                 \/ /\ call[r].op = "status"
                    /\ listing'[l] = [listing[l] EXCEPT !.status = call[r].status]
    ]_catalogVars

\* A status changes along the table whenever the request that changes it read
\* the status the row still has: the check and the write agree on the table.
LegalWhenFresh ==
  [][\A l \in Listings :
       (Exists(l) /\ listing'[l].status # listing[l].status) =>
         \A r \in Requests :
           (pc[r] = "deciding" /\ pc'[r] = "done" /\ seen[r] = listing[l].status) =>
             CanTransition(listing[l].status, listing'[l].status)
    ]_catalogVars

\* Every change of a listing's status is one of the transitions the functional
\* requirements list.  The code checks the status it read and writes whatever
\* the row is by then, so two overlapping requests break it.
LegalTransitions ==
  [][\A l \in Listings :
       (Exists(l) /\ listing'[l].status # listing[l].status) =>
         CanTransition(listing[l].status, listing'[l].status)]_catalogVars
=============================================================================
