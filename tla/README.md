# Keebhub in TLA+

Keebhub is a marketplace for keyboards: a Go server over PostgreSQL with listings, chats
between a buyer and a seller, and a server-sent-event stream that tells open tabs of new
messages.  This directory holds TLA+ modules of the parts of it that keep state and meet
concurrency, the TLC instances that check them, and proofs that TLAPS checks.

Contents: [inventory](#inventory), [hard behaviours](#hard-behaviours), [modules](#modules),
[runs](#runs), [bounds](#bounds), [fairness](#fairness), [proofs](#proofs),
[disagreements with the documents](#disagreements-with-the-documents),
[what is not modelled](#what-is-not-modelled), [plan](#plan).

## Inventory

One server process.  `net/http` runs a goroutine for every request; handlers
(`internal/adapter/httpapi`) call services (`internal/app`), which call stores
(`internal/adapter/postgres`) over a connection pool.  The only state in memory that
requests share is the broker.  Everything else is in PostgreSQL, at READ COMMITTED, and
only two operations use a transaction of several statements: a login and the sending of a
message.

| Component | State | Operations | What makes it correct |
|---|---|---|---|
| Event broker, `adapter/sse/broker.go` | `closed`, `subscribers` (user to set of channels) under one mutex; a bounded channel per subscription | `Subscribe`, `PublishMessageCreated`, `unsubscribe`, `Close` | no send on a closed channel, no double close; a stream ends rather than skips an event; nothing stays registered |
| SSE handlers, `streamEvents` in `adapter/httpapi/chat.go` | the goroutine's place in its loop, the event in hand, the socket | subscribe, headers, select of context, channel and ticker, writes, deferred unsubscribe | events reach the socket in order and once; the stream ends on shutdown, overflow and departure |
| Listing lifecycle, `app/catalog.go`, `db/queries/catalog.sql` | rows of `listings` | `CreateListing`, `UpdateListing`, `ChangeListingStatus` | only the seller changes a row, only while it is visible, only what the request names, only along the table of transitions |
| Starting a chat, `app/chat.go`, `db/queries/chat.sql` | rows of `conversations` | `StartConversation` | one conversation per listing and buyer, with the listing's seller, about a listing for sale |
| Messages, same files and `adapter/postgres/chat.go` | rows of `messages`, `last_message_at`, two read pointers, row locks | `SendMessage`, `ListMessages`, `MarkConversationRead` | a message and the activity of its conversation commit together; events follow commits; read pointers move forward; pages have no gaps |
| Delivery, same files and the SSE handlers | the stream, the page in flight and the messages of a tab | `ListMessages` and the client of `docs/09-chat-and-sse.md` | every committed message reaches an open tab, over overflows, reconnections and crashes |
| Inbox, same files | reads only | `ListConversations` | pages neither repeat nor lose a conversation that does not move; unread counts agree with the read pointer |
| Public catalog, `app/catalog.go`, `app/seller.go` | reads only | search, owned listings, a seller's listings, details | pages cut by a cursor neither repeat nor lose a row that does not move; removed rows are not shown |
| Login and sessions, `app/auth.go`, `adapter/postgres/auth.go` | rows of `users` and `sessions` | `Login` with its retries, `Authenticate`, `Logout` | one account per Discord id, one handle per account, a session rotates whole or not at all, an expired or disabled one is refused |
| Handles, `domain/auth.go`, `domain/profile.go` | none | `NormalizeHandle`, `HandleCandidate`, `IsCanonicalHandle` | every candidate has the grammar of the column |
| Seller profile, `app/seller.go` | columns of `users` | `UpdateProfile` | only named columns change |
| OAuth flow, `adapter/httpapi/auth.go` | a state cookie | start, callback, logout | a callback is accepted for the state its browser was given |
| Server lifecycle, `cmd/server/main.go`, `platform/server/server.go` | the listener, the context, `serveErrors` | `Run`, `PreShutdown`, `Shutdown` | open streams do not keep the process from stopping; a failure is reported, a clean return means everything has ended |
| Requests: routing, middleware, JSON, errors, static files, health in `adapter/httpapi` | the response and what is left to be done | every route | one answer per request; no effect of a refused one; no change that was not authorised |
| Configuration, migrations, logging, Discord client | none that outlives a call | | |

How they interact: `SendMessage` commits, then calls the broker in the sender's goroutine;
the broker offers the event to the channels of both parties under its mutex and never
waits; each SSE handler moves events from its channel to its socket; a client reacts to an
event by asking `ListMessages` for what follows the last id it has.  `StartConversation`
reads listings, which sellers change through the catalog and operators through the
database.  `Runner.Run` calls `Broker.Close` before `http.Server.Shutdown`, because
`Shutdown` waits for handlers and a stream never ends by itself.

## Hard behaviours

* Decisions are taken on a row read by one statement and written by another, with no
  transaction or version check around the two: listing status, listing edits, the start of
  a conversation.
* Ids of messages come from a sequence at the `INSERT`, and the row becomes visible at the
  `COMMIT`; in between the transaction waits for the row of its conversation.
* The event of a message is published after the commit by a process that may die, or may
  not learn that the commit happened.
* A subscription is ended by four parties: its handler, an overflow, the shutdown, and the
  client's departure; a channel may be closed only once.
* A client that stops reading blocks its handler in a write; the server has no write
  timeout, because a stream is long.
* Row locks are waited for, and holders may abort or die.
* A sign-in reads, updates or inserts, and replaces a session in one transaction that races
  with others for two unique keys, and is repeated with the next handle when it loses.
* The answers of a browser's requests arrive late, in any order or never, and each may set or
  clear the one cookie of the browser.
* What the session middleware read of a user is used by statements that come later.
* A list is read page by page with a cursor, while its rows appear, move and go.  The key of
  the inbox is a clock read before a transaction, and can go back.
* A tab fetches, hears events and loses its stream in any order, and a page on its way may be
  older than the event that came after it was asked for.
* A listener that fails, a signal, the end of the streams and the timeout of the shutdown meet in
  one function with two channels.
* An error passes middlewares of which two call the error handler, after an answer that may have
  begun.

`hazards` in `PROJECT.json` lists each at its line, with the properties that address it.

## Modules

| Module | Models | Extends |
|---|---|---|
| `Broker` | the broker; each operation is one critical section of the mutex, a receive is one more step | |
| `EventFeed` | abstract: what a stream promises, whatever the broker and its handlers do | |
| `EventStreams` | the SSE handlers, their clients, senders and the closing of the broker | `Broker`; implements `EventFeed` |
| `ServerLifecycle` | `Runner.Run` around the streams | `EventStreams` |
| `Catalog` | the writing side of listings, moderation | |
| `Conversations` | `StartConversation` | `Catalog` |
| `ChatMessages` | `SendMessage`, `MarkConversationRead` | |
| `Delivery` | `ListMessages`, the feed of a tab's streams, the tab | `ChatMessages`; uses `EventFeed` |
| `Inbox` | `ListConversations` and the unread counts | `ChatMessages` |
| `Handles` | handles from Discord names | |
| `Sessions` | sign-ins with their retries, sessions, `Authenticate`, `Logout`, the cookies of browsers | `Handles` |
| `AccountRules` | what a signed-in request does: create content, `UpdateProfile` | `Sessions` |
| `ListingPages` | the keyset pages of search, a seller's catalog and the owned list | |
| `Requests` | one HTTP request of any route, through middlewares, handler and error handler | |
| `EventStreamsProofs` | theorems and proofs about the broker, the streams and the process around them | `ServerLifecycle` |
| `SessionsProofs` | the same about sign-ins, handles and signed-in requests | `AccountRules` |
| `ChatMessagesProofs`, `ConversationsProofs`, `ListingPagesProofs`, `RequestsProofs` | the same | the module of that name |
| `DeliveryProofs`, `InboxProofs` | the same | the module of that name, `ChatMessagesProofs` |
| `MC*` | the constants of the runs | the module of the same name |

**Broker.**  `closed` and `subscribers` are the fields of that name.  `channel` is the
state of a subscription's Go channel (not made, open, closed) and `buffer` its content, of
capacity `Capacity` (`subscriptionBufferSize`).  `calls` numbers the calls of
`PublishMessageCreated`, so that every event is another one.  A Go panic, that is a send on a closed channel
or a second close, sets `panicked`.  `feed` (events published for a user), `joined` (how many
there were when a subscription was made) and `received` are history and nothing reads them.
`PublishMessageCreated` is one action: both parties, every channel of theirs, and
`publishToUserLocked`'s closing of those that are full.  `Close` closes all and replaces
the map.

**EventStreams.**  `pc` is the place of a handler in `streamEvents`: `new`, `subscribed`
(before the headers), `selecting`, `writing` and `keepalive` (in a write), `returning`
(before the deferred unsubscribe), `finished`, or `unavailable` (503).  When several cases
of the `select` are ready, any may be taken, as in Go.  A write to a client that is gone may
fail or may still fit the socket's buffer; a write to one that is stalled may block for
ever.  `ClientMoves` is the environment.

**ServerLifecycle.**  `run` is the place in `Runner.Run`: `serving` (in the `select`), `shutting`
(after `PreShutdown`, which is `EventStreams!Shutdown`), `draining` and `polling` (in `http.Server.Shutdown`, before
and after its first look at the connections), `awaiting` (the last receive), and the two returns, `clean` and
`failed`.  `serve` is the goroutine of `Serve`; its last value, `stopped` or `failed`, is how `Serve` returned, and stays when
the error is taken from `serveErrors`, the channel of capacity one: so `CleanMeansClean` tells a clean end of `Serve` from a
failure that was received and dropped.  `http.Server` is external: `Shutdown` closes the listener and polls until every
connection is idle; its context is looked at between two polls and may expire when the last handler has just ended.
It cancels no request.  Nothing of the process runs after the return.

**EventFeed.**  A stream is a contiguous run of its user's events from where it began.  The
only freedom is where it ends.  `EventStreams` maps its `written`, event in hand and
buffer to it.

**Catalog.**  A request is `idle`, `deciding` (it has read the row and passed the checks)
or `done`.  `UpdateListing` and `ChangeListingStatus` are the read and the checks, in the
code's order; `UpdateOwnedListing` and `UpdateOwnedListingStatus` the statements, whose `WHERE`
PostgreSQL evaluates on the row it writes.  The value of a column is the request that wrote it.  A
request may fail between the two.  `Moderate` is a change of `moderation_status` in the
database; no code of the repository makes one.

**Conversations.**  A call of `StartConversation` is `idle`, `inserting` with the listing it
read, `answered` or `over`.  The upsert is one action, since the unique constraint makes it
atomic.  An answer can be lost after the upsert took effect.

**ChatMessages.**  A send is `checked` (in its transaction, the conversation read), `inserted`
(it has an id; nobody else sees the row), `updated` (it holds the lock of the
conversation's row), `committed` and `Over` (published, failed or lost).  `Commit` may go to
`Over` directly: the acknowledgement was lost, `CreateMessage` returns an error and nothing is
published.  `AdvanceReadPointer` waits for the lock and evaluates the `CASE` on the row it then finds.
`Crash` is the death of the process.  A message, its body and its `created_at` are its id.

**Delivery.**  `feed`, `status`, `start` and `delivered` are those of `EventFeed`, which `EventStreams`
implements: the detailed broker and its handlers are replaced by what was shown of them.  Publishing appends the event
to the feeds of both parties, in the order in which the senders reach the broker.  A tab connects and
reconciles, hears events of any of its user's conversations, asks for the latest page at first and then for what
follows the last id it knows, merges the answer by id, asks again after a full page, and scrolls back with
`before_id`.  `page` is the answer on its way.  The tab is the client that `docs/09-chat-and-sse.md`
describes (`web/` has no chat yet).

**Inbox.**  `Following` is the `WHERE` of `ListConversationsForUser`, `Precedes` its `ORDER BY`,
`NextCursor` what `ListConversations` makes of the row `limit + 1`.  `sentAt` is the clock `SendMessage`
reads before its transaction, `stamp` the `created_at` it ends up in.  `shown` and `moved` (conversations in which
something was committed since the first page) are history.

**Handles.**  Operators on sequences of characters; the loop of `NormalizeHandle` is the recursive function
`Spelled`, whose value at `i` is what has been written after `i` characters.  `Lower` says what `strings.ToLower` makes of the
characters from which a letter comes; the Kelvin sign is one of them.

**Sessions.**  A flow is one sign-in of a browser: the state cookie and the redirect
(`StartDiscord`), the callback (`DiscordCallback`), the statements of `AuthStore.loginAttempt`
one by one (`GetUserByDiscordID`, `UpdateDiscordIdentity` or `CreateUser`, `ReplaceSession`,
`Commit`), and the answer with its cookies.  Tokens and ids of users are the flow that made them.  A
statement waits for a row or a key that another transaction has written and not committed; an
insert that conflicts with a committed key starts the next attempt (`Retry`), which `Login` counts.
`Candidate` has the handle candidates of each name, by `Handles`.  A call is any other request of a browser: it carries
the cookie of the moment it is sent, is authenticated or is a logout, and is answered later or never.  A logout whose
`DELETE` fails is one of the former: the middleware's lookup alone says what becomes of the cookie.  A user is
disabled by hand; no code of the repository does it.

**AccountRules.**  `AuthenticateUser` also keeps the profile the statement returned, which
`UpdateProfile` compares the request with; `UpdateUserProfile` is the `UPDATE`, on the row of its own
moment.  `CreateContent` stands for the insert of a listing, a conversation or a message: what they share is that
the account is not looked at again.

**ListingPages.**  A row has the columns that the orders and the filters use.  `Key` is the
`ORDER BY` as a triple that ascends (rank of the status, time or price, id), `Beyond` the `WHERE` clause
of a position, `Show` the statement with `limit + 1` and the page cut from its rows.  A cursor is refused
with another query (`Bound`); that of an owned list does not name the owner, who is the user of the session and
the same for all pages of the one reader.  `shown` and `steady` (the listings that have kept their place since the
first page) are history.  Times are any values: `created_at` and `updated_at` are the
application's clock before the statement runs.

**Requests.**  What is left of a request is the sequence `todo` of named steps: the middlewares in
their order, then those of the handler of its route (`Handlers`, one row per route).  A step goes on, fails
with a status (`Fail`), or answers.  A call of a service answers one of the errors of its use case
(`Refusals`, which `catalogError`, `sellerError` and `chatError` turn into statuses), or fails otherwise, and then
its change may be in the database nevertheless: the answer was lost, or the client left.  `Recover` is a panic before
any step inside the recovery middleware.  `handling` counts the calls of the error handler that are to come:
`RequestLogger` makes one (`HandleError: true`) and Echo another.

The queries of `db/queries` are executed from the Go code that sqlc generates of them
(`internal/generated/db`), where `map` points for those whose `WHERE` and `ORDER BY` the modules state.

## Runs

| Run | Instance | Shows |
|---|---|---|
| `streams` | 3 users, 1 tab, capacity 2, 3 messages, the whole of `Runner.Run` | of the broker: `NoPanic`, `GaplessStream`; of the handlers: `NoLeakedSubscription`, the refinement `ImplementsFeed`; of the process: `CleanMeansClean`, `FailureIsReported`, and, under `LifeFairness`, `StreamsLetShutdownEnd`, `StreamsEnd`, `BufferedAreWritten` |
| `catalog_transitions` | 1 listing, 2 requests | violated: `LegalTransitions` |
| `conversations` | 1 listing with 2 columns, 3 users, 2 contacts, 2 catalog requests, moderation | `OneConversation`; of the catalog: `OnlyAskedChanges`, `LegalWhenFresh` |
| `conversations_for_sale` | 1 contact, 1 catalog request | violated: `StartsOnlyWhenForSale` |
| `delivery` | 1 conversation, 2 sends, 1 tab with 2 streams, pages of 1 | of the sends: `PublishedAreCommitted`, `SendsEnd`; of the tab: `HolesComeFromLateCommits`, `CommittedIsShown` |
| `inbox` | 2 conversations, 3 users, 2 sends, 2 marks, 2 instants, pages of 1 | `SteadyConversationShownOnce`, `RepeatedOnlyIfMovedBack`, `OnlyLateCommitsGoUncounted`, `UnreadChangesForAReason`; of the sends: `ActivityIsLastCommit` |
| `chat_gaps` | as `delivery` | violated: `PagesHaveNoGaps` |
| `sessions` | 2 sign-ins of 2 Discord accounts beside an earlier account, handles of at most 6 characters, 2 attempts, under `SessionsFairness` | `OneAccount`, `GivesUpOnlyWhenTaken`, `LoginsHaveCanonicalHandles`, `AccountsComeWithSessions`, `SignInsEnd` |
| `accounts` | 1 user, 1 browser, 2 sign-ins, 2 other requests, 2 profile columns | `ProfileChangesAsAsked`; of the sessions: `OldTokensAreDead`, `RotationIsWhole`, `CookieLostOnlyToLateAnswer` |
| `accounts_disabled` | 1 sign-in, 1 request | violated: `DisabledCreateNothing` |
| `pages` | 3 listings, 6 queries, pages of 1 and 2, 3 writes, under fairness of the reader | `TypeOK`, `SteadyShownOnce`, `PagesInOrder`, `NewestNeverRepeats`, `ReadingEnds` |
| `requests` | every route, every combination of origin, referer, cookie and body | `OneAnswer`, `RefusedChangesNothing`, `ChangesAreAuthorised`, `AnswersNameTheRequest`, `CookieFollowsSession` |

A run of a module that extends another also checks the properties of the module it extends, on
states of the composition.  The modules state a type invariant each; adding its name to the `.cfg` checks it, and
the runs spend their time on the others.

Every property of a passing run has a mutant in `PROJECT.json`: a definition of the model
changed the way a slip in the code would change it (an unchecked close, an update outside
of the transaction, a missing rollback, a pointer set without its `CASE`), under which the same run
finds the property violated.  The mutants stand beside the definitions they change, with a
comment "Mutant:".

## Bounds

* `streams`: with capacity 2, the third message overflows a channel whose handler has not taken one, and
  all fit one whose handler reads.  `Capacity` is 16 in the code.  The third user's messages are the ones the tab must not
  get.  One tab is what the liveness properties are about; the safety properties of the broker and
  the streams are proved for every capacity, every number of messages and any set of tabs.
* Two catalog requests let a write fall between the read and the write of another; requests are
  used once, and a new one is another request.  Initial listings have any status, so the run
  need not build one up.  Two contacts are two tabs of one buyer, or one each of two buyers.
* `delivery`: one earlier message and two sends are the fewest with which a tab has something to catch up from
  and a later id overtakes an earlier one; `PageLimit = 1` puts a page boundary between every two messages.  The second
  stream of the tab (`MaxStreams`) is the reconnection; once the last one is over nothing more is promised.
* `inbox`: two conversations and a page of one are the fewest with a boundary; two instants let clocks tie and go
  back.  Two marks of one user can arrive in either order, and name a message of the other conversation.
* `sessions`: `MaxAttempts` is 1000 and `MaxHandle` 40 in the code.  With 2 and 6, and names of which
  one normalises to the earlier account's handle and is cut at a hyphen for its second candidate, two sign-ins reach a
  lost race for the Discord id, a lost race for the handle, and the end of the attempts.  `accounts` has
  `MaxHandle = 40`.  Two sign-ins and two other requests of one browser are enough for an answer
  to be overtaken by a whole sign-in.
* `MaxWrites` bounds the changes of the table of listings: three are enough to fill the list, or
  to create a listing and then move it and move it back between pages.  Two times and two prices make ties.  The
  safety properties of the pages are proved without these bounds.
* `requests`: one request at a time, since the steps share nothing; `Sizes` has one on either side of each limit.
* Deadlock is not checked but in `requests`: sends, clients and the rest are finite in each instance and
  the system stops when they are used up.  The liveness properties say instead what may not be
  waited for.
* Symmetry is used for requests, contacts and marks, which the modules do not distinguish, and in no run
  with a liveness property.

## Fairness

`ServerLifecycle!LifeFairness`: a goroutine that can run does run (weak fairness of the headers, of
returning, of the steps of `Run` and of `Serve`).  Go's `select` picks among the ready cases at random, so a case that is
ready again and again is taken: strong fairness of its cases.  A write ends if the client reads, or fails once it is
gone; nothing is assumed of a stalled client, nor that a client ever moves, that anyone sends, that a signal
comes, that the listener fails or that the timeout passes.  So `StreamsLetShutdownEnd` and `StreamsEnd` speak
of clients that are not stalled for ever.

`ChatMessages!SendFairness`: a statement that can run ends; PostgreSQL queues the waiters of a row lock, so a
waiter is not overtaken for ever (strong fairness of the `UPDATE`).  Nothing is assumed of aborts and crashes.
`Delivery!Fairness` adds that a tab reconnects, reads its stream, fetches when it has to and gets an answer, as
long as the server lives: the client the document asks for.  Nothing makes it scroll back or lose its stream.

`Sessions!SessionsFairness`: the same for the statements of a sign-in: those that wait for a row or
for a key of a unique index are queued (strong fairness), the others just run.

`ListingPages!Spec`: a reader who has a next page asks for it (weak fairness of `ReadOn`).  The table may
change between any two pages; that `MaxWrites` bounds the changes is part of what makes the reading
end, since a list that grows for ever ahead of its reader has no last page.

## Proofs

The only assumptions are those the modules state of their constants; `PROJECT.json` lists each
theorem with the property of a run that it is about.  A run shows the property on one small instance, the theorem
on every one: any sets of users, tabs, listings, sign-ins and requests, any capacity, page size and number of
attempts.  Every invariant and every action property of the passing runs is now a theorem, and so is the refinement.

The assumptions worth a word: the conversations of an inbox are finitely many (it counts them) and there is
an instant besides 0 (`Inbox`); a profile column has a value (`AccountRules`); and a handle has room for six
characters, of an alphabet that has those of "user" and not the hyphen (`Handles`; 40 and a-z in the code), since a suffix
of four digits has to leave one in front of it.

`EventStreamsProofs`, the broker.  The inductive invariant is `BrokerTypeOK`, that a channel is registered
exactly while it is open, and `GaplessStream`.  The second is what the mutex buys: a
close always goes together with the removal from the map, in whichever of the four
operations it happens.  From it no operation can reach a closed channel (`BrokerNeverPanics`).
`GaplessStream` says that what was received, followed by what is buffered, is the part of the
user's feed from where the subscription joined; for an open channel it reaches the end of the
feed, since publishing either appends to both or closes the channel (`BrokerIsGapless`).  There is one
lemma per conjunct, with one step per operation.

The streams.  `HandlersUseBroker` shows that each step of the handlers is a step of
`BrokerSpec` or leaves the broker alone, so the broker's invariant carries over.  On top, the invariant relates a
handler's place to its channel (`new` and `unavailable` have none, that of `finished` is closed), and
its `written` and event in hand to what the channel gave; the events of every feed are numbered by the
calls so far.  That yields `StreamsTypeOK`, `HandlersLeakNothing`,
`OpenStreamsMissNothing` and the refinement `StreamsImplementFeed`, by the standard argument: initial states map
to initial states, every step to a step of the feed or a stutter.

The process.  Every step of the process is a step of the streams or leaves them alone
(`StepOfStreams`), so all theorems about streams hold of the process (`ProcessRunsStreams`).  For the return of
`Run` the invariant `RunInv` relates where `Run` is with the listener, with what is in the channel of errors, with
`closed` and with the handlers: once the broker is closed nothing opens it, once `Shutdown` has seen every connection
idle, none is made, and what the channel of errors holds is how `Serve` returned, so that `Run` has received
`ErrServerClosed` when it returns nil (`CleanReturnIsClean`).

`ListingPagesProofs`.  For every finite set of listings, and any queries, page sizes and any number of
writes.  `Less` is shown to be a strict total order on keys, and the keys of different
listings to differ, by the id in them (`LessIrreflexive`, `LessTransitive`, `LessTotal`).  The inductive
invariant adds three parts to the properties: whatever was shown is at the cursor or before it
(`ShownBeforeCursor`); a listing that keeps its place is shown if and only if its place is not beyond the
cursor (`SteadyInPlace`), which is what the cut at the last row shown must keep up; and what the newest-first
search has shown still has the key it was shown with (`NewestInPlace`), because no statement changes
`created_at`.  `ShowKeepsInv` is the step of a page, `WriteKeepsInv` that of the table, which all changes share.

`ChatMessagesProofs`.  The ids carry the argument.  No id is above the sequence (`IdsSuffice`), a message that is
inserted and not committed has an id that is no row's and no other send's (`IdsAreOwned`), and whoever sends or marks is
a party of the conversation (`CallersAreParties`).  Then an event names a committed row, and only the parties leave
anything.  `ActivityIsLastCommit` is inductive on top of that, because the lock of the conversation's row is held from the
`UPDATE` to the `COMMIT`.

`DeliveryProofs`.  A commit is late if a higher id of its conversation was committed before it.  The invariant
(`TabsInv`) says that every hole of what a tab shows is a late commit, and so is every hole of what it shows together
with the page on its way: a page that follows an id takes all the committed ids above it up to its own end, so the merge
meets what was there.  What a tab shows stays committed, which `ChatMessagesProofs` gives.

`ConversationsProofs`.  A listing that exists keeps existing and keeps its seller (`SellersStand`), so what a call
read before its insert is still true of what matters to the unique key; ids of conversations are counted
(`IdsAreCounted`); and only a call that was answered has an answer.  From these, `OneConversation`.  Of the listings,
`RowChanges` says what one step may do to a row, which gives `OnlyAskedChanges`; `LegalWhenFresh` needs that a request
which goes on to change a status found the change in the table for the status it read (`DecidedByTable`).  The value
for a missing row is assumed to be no row (`NoListingAssumption`).

`SessionsProofs`.  The heart is `OwnInv`: a sign-in that has inserted a row, not yet committed, owns its Discord
account and its handle against every committed row and every other such sign-in; a sign-in that goes on with an account
it found has found its own; tokens of sessions, and ids of users, are those of sign-ins that are done.  `OneAccount`
is inductive with it, and what one step does to the rows follows for `AccountsComeWithSessions` and `RotationIsWhole`.
For the old tokens, every token in a cookie, in a request or to be replaced is of a sign-in that is done (`TokenInv`),
and a sign-in that is done stores no session: a dead token stays dead.  The same holds of a token that is not
accepted, since nobody is enabled again (`RefusedStays`), so a request that was told to clear its cookie still deserves
it when its answer arrives (`CookiesAreLostLate`).  A sign-in gives up for cause because one that lost the race for its own
account finds it at its next attempt (`Tries`).

Handles, in `SessionsProofs`.  What `Spelled` has written is always tidy: no hyphen first and never two in a row
(`SpelledTidy`, over the characters of the name).  So a trim takes one hyphen at most (`TrimTidy`), a cut loses one character
more at most (`CutForm`), and a candidate is between 3 and `MaxHandle` characters and ends with a letter or a digit for every
number of up to four digits (`CandidatesAreCanonical`).  That is `CandidatesFitTheColumn`, and `HandlesStayCanonical` for every
account there will be.  The two recursive functions, `Spelled` and `Decimal`, are first shown to exist
(`SpelledExists`, `DecimalExists`): the least length, or number, for which there is no such function would have one by
what there is for the one before.  Each induction here is of that form, by the least counterexample, since the
induction theorems of the library take the formula as a parameter and none of the provers can be given one.

Signed-in requests, in `SessionsProofs`.  Every step of `AccountRules` is a step of the sessions or leaves them alone
(`ServicesUseSessions`), so the sessions' theorems hold there (`SessionsHoldAmongServices`).  For `ProfilesChangeAsAsked` the
invariant is `RulesOK`: the types, and that a request which goes on has a user who signed in.  Nothing is said of what the
request has *seen*, and nothing can be: another tab may have changed it.  The proof needs only that `NewProfile` takes the
other columns from the row of the moment of the `UPDATE`.

`InboxProofs`.  The invariant `InboxInv` is that of the listing pages, for a list whose rows move with every commit:
whatever was shown lies at or before the cursor and in the order of the statement; and a conversation that nothing was
committed in was shown exactly once, as the row it still is, if and only if the cursor has passed it (`SteadyInPlace`).
A page is shown to be the first rows of the statement in order, each once (`PageIsTop`), because the place of a row is the
number of rows before it, which needs finite sets and the order to be total (`PlaceOrders`).  `SteadyConversationsShownOnce`
follows at the last page.  For `RepeatsWentBack`, two rows of one conversation are in order, so the second is older.
For the unread counts the step is seen as a change of a set: rows come by a commit, one at a time, and pointers only go up,
by a mark (`UnreadSources`), and the cardinality follows.  That a pointer names a committed message of its own
conversation (`PointersNameTheirMessages`) gives `UncountedCommitLate`: the message behind which the late one commits is the
one the pointer names.

`RequestsProofs`.  First the 25 routes are read off their table, and the list of steps of each is shown sound
(`SoundProgram`): it ends with its only terminal step, what changes something comes after what authorises it, and after it come
only steps that refuse nothing.  A slip in the order of one handler would break one line of this part.  Then the
invariant `Inv`: a request is on its path at step `k`, with everything the steps before `k` have established and no answer
(`OnPath`), or it has left it and is answered, streaming, redirected or failing (`Settled`).  The error handler may still run
twice by then, but it answers only if there is no answer, whence `EveryRequestIsAnsweredOnce`; the other four properties are
read off the invariant.

Proved and in no run, besides the steps between specifications (`HandlersUseBroker`, `ProcessRunsStreams`, `InboxUsesChat`,
`ServicesUseSessions`): the types (`StreamsTypeOK`, `ChatIsTyped`, `InboxIsTyped`, `RulesHold`, `RequestsStayOnPath`),
`OpenStreamsMissNothing`, `StrangersLeaveNothing`, `TabsShowCommitted`, `ConversationsNameTheSeller`,
`PointersNameTheirMessages` and `HandlesStayCanonical`.

Only model-checked: the liveness properties (`StreamsLetShutdownEnd`, `StreamsEnd`, `BufferedAreWritten`, `SendsEnd`,
`CommittedIsShown`, `SignInsEnd`, `ReadingEnds`), since the prover has no rules for fairness and `ENABLED`.  What the
violated properties of the next section would need is not provable, as it is false; what does hold in their place is proved.

## Disagreements with the documents

1. *A listing can take a transition the table excludes* (`catalog_transitions`).
   `ChangeListingStatus` checks the transition on the row it read and the `UPDATE` does not compare
   the status.  Two overlapping requests read `active`; one sets `sold`, the other then sets
   `reserved`.  What does hold is `LegalWhenFresh`: the transition is legal if the status read is still the row's.
2. *A conversation can start about a sold listing* (`conversations_for_sale`): the same
   shape, between the read of the listing and the insert.  What does hold is `OneConversation`.
3. *Catch-up by the last known id can miss a message for good* (`chat_gaps`): a message
   whose transaction commits after one with a higher id is behind the client's position.  Scrolling
   back does not help, as it starts from the oldest message shown.  What does hold is
   `HolesComeFromLateCommits`: this is the only way to miss one.
4. *A disabled account can still create content* (`accounts_disabled`): `SendMessage`,
   `StartConversation` and `CreateListing` look at the status the session middleware read, and the insert looks at
   none.  An account disabled in between writes once more.  `UpdateUserProfile` does check the row
   (`status = 'active'` in its `WHERE`), and `ProfileChangesAsAsked` shows that it holds.

Seen while reading, and no run's subject:

* `docs/plans/phase-6-7-chat-sse-backend.md:35` lets a disabled user read existing conversations, while
  `sessionMiddleware` refuses every request of such a user (`httpapi/auth.go:250`), as `Authenticate` does in
  `Sessions`.
* The session middleware stands outside the access log and the recovery (`httpapi/router.go:64-72`), and so
  do the body limit and the origin check: what they refuse is answered and not in the access log.  When the
  database is down, a request with a session cookie gets a 500 on every route, `/healthz` and the static pages included.
* The inbox shows a conversation's message with the highest id and sorts by the one that committed last
  (`db/queries/chat.sql`): after a late commit the two are different messages.

## What is not modelled

Configuration, migrations, logging and the Discord client are sequential code without state of their
own; the last can only succeed or fail in a sign-in, which `Requests` and `Sessions` have.  The web client is a set of
static pages.  Titles, bodies, prices and times appear only where a property tells them
apart; validation of input is a step that may refuse (`Requests`).  Of the generated queries, the scanning of rows and
the single-row reads of profiles and categories are left out.  In `Requests`: panics of the session middleware itself,
a failing `crypto/rand`, services that are nil, and the statuses for disabled users, which no request reaches since the
middleware refuses them first.  The broker is nil, or the writer cannot flush, only if the program is wired
wrongly.  Several server processes over one database appear as several clocks only in the hazards; the broker is
per process, and the documents speak of one.

## Plan

The order was: the broker and its streams, the chat, the catalog, the sign-ins; then what composes them
(`Delivery`, `ServerLifecycle`, `AccountRules`), the readers (`ListingPages`, `Inbox`), `Handles` and `Requests`; and
proofs of each safety property as soon as its run held.  All of these are there.  What remains worth doing:

1. Counterparts of the violated properties that say how late a stale read can be: content is created for an account that was
   active when its session was read, a conversation for a listing that was for sale when it was read.
2. A client of `web/` for the chat, once it is written, against the tab of `Delivery`.
