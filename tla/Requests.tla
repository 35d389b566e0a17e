------------------------------ MODULE Requests ------------------------------
(***************************************************************************)
(* One HTTP request through internal/adapter/httpapi: the middlewares, the *)
(* handler of its route, the errors of the services and the error handler. *)
(*                                                                         *)
(* What remains to be done for the request is the sequence todo of named   *)
(* steps.  A service call stands for everything behind it; the other       *)
(* modules say what that is.  A failed call answers an error of the domain *)
(* or any other error, and then its statement may have been executed: the  *)
(* answer of the database was lost, or the client left.                    *)
(*                                                                         *)
(* main.go configures every service, and crypto/rand does not fail.  The   *)
(* bodies of the answers and the codes of the errors are left out; 200     *)
(* stands for every success.                                               *)
(***************************************************************************)
EXTENDS Naturals, Sequences, SequencesExt

CONSTANTS
  BodyLimit,  \* HTTP_BODY_LIMIT_BYTES
  JSONLimit,  \* maximumJSONRequestBytes
  Sizes       \* lengths of a request's body

ASSUME LimitsAssumption == BodyLimit \in Nat /\ JSONLimit \in Nat /\ Sizes \subseteq Nat

VARIABLES
  request,   \* what the client sent
  todo,      \* the steps left
  inside,    \* those of the access log and the recovery that are entered
  session,   \* what the session middleware found
  headers,   \* headers and cookies set on the response so far
  done,      \* the service calls whose change is in the database
  failure,   \* the status of the error on its way up, or 0
  handling,  \* calls of the error handler to come
  answers    \* the answers written

vars == <<request, todo, inside, session, headers, done, failure, handling, answers>>

-----------------------------------------------------------------------------
(* Routes                                                                  *)

\* One table of two, of which no key is in both.
Joined(f, g) ==
  [x \in DOMAIN f \cup DOMAIN g |-> IF x \in DOMAIN f THEN f[x] ELSE g[x]]

\* Mutant: the listing is read back after the change, for the log.
ReadBackStatus ==
  <<"user", "id", "body", "fields", "ChangeListingStatus", "GetListing", "answer">>

ChangeStatus ==
  <<"user", "id", "body", "fields", "GetListing", "ChangeListingStatus", "answer">>

CatalogHandlers == [
  listCategories |-> <<"ListCategories", "answer">>,
  searchListings |-> <<"query", "SearchListings", "answer">>,
  createListing |-> <<"user", "body", "fields", "CreateListing", "answer">>,
  updateListing |-> <<"user", "id", "body", "fields", "UpdateListing", "answer">>,
  changeListingStatus |-> ChangeStatus,
  listOwnedListings |-> <<"user", "query", "ListOwnedListings", "answer">>,
  getListing |-> <<"id", "GetListing", "answer">>]

SellerHandlers == [
  updateProfile |-> <<"user", "body", "present", "UpdateProfile", "answer">>,
  getSellerProfile |-> <<"GetSellerProfile", "answer">>,
  listSellerListings |-> <<"query", "ListSellerListings", "answer">>]

ChatHandlers == [
  startConversation |-> <<"user", "id", "StartConversation", "answer">>,
  listConversations |-> <<"user", "query", "ListConversations", "answer">>,
  listMessages |-> <<"user", "id", "query", "ListMessages", "answer">>,
  sendMessage |-> <<"user", "id", "body", "fields", "SendMessage", "answer">>,
  markConversationRead |->
    <<"user", "id", "body", "fields", "MarkConversationRead", "answer">>]

StreamEvents == <<"user", "SubscribeStream", "stream">>

StartDiscord == <<"return_to", "AuthorizationURL", "setState", "redirect">>

DiscordCallback ==
  <<"clearState", "state", "provider", "code", "LoginWithDiscord", "setSession", "redirect">>

\* Mutant: the cookie goes whether or not the session does.
LogoutClearsFirst == <<"clearSession", "Logout", "answer">>

Logout == <<"Logout", "clearSession", "answer">>

Me == <<"user", "answer">>
Health == <<"answer">>
Ready == <<"Ping", "answer">>

OtherHandlers == [
  streamEvents |-> StreamEvents,
  startDiscord |-> StartDiscord,
  discordCallback |-> DiscordCallback,
  logout |-> Logout,
  me |-> Me,
  health |-> Health,
  ready |-> Ready]

Handlers ==
  Joined(Joined(CatalogHandlers, SellerHandlers), Joined(ChatHandlers, OtherHandlers))

UnsafeRoutes ==
  {"logout", "updateProfile", "createListing", "updateListing", "changeListingStatus",
   "startConversation", "sendMessage", "markConversationRead"}

\* A path that no route has goes to the static files; a method that no route
\* of its path has, to a handler of the router.
Unrouted == [page |-> <<"serve">>, api |-> <<"serve">>, method |-> <<"methodNotAllowed">>]

Routes == DOMAIN Handlers \cup DOMAIN Unrouted

\* The steps of a route, after the middlewares.
Program(route) == Joined(Handlers, Unrouted)[route]

\* Mutant: a request that is too long is refused before it has its headers.
LimitFirst ==
  <<"bodyLimit", "requestID", "securityHeaders", "sameOrigin", "session", "accessLog", "recovery">>

Middlewares ==
  <<"requestID", "securityHeaders", "bodyLimit", "sameOrigin", "session", "accessLog", "recovery">>

-----------------------------------------------------------------------------
(* Errors                                                                  *)

CatalogError == [validation |-> 422, query |-> 400, notFound |-> 404, forbidden |-> 403,
                 conflict |-> 409]

SellerError == [validation |-> 422, query |-> 400, notFound |-> 404, disabled |-> 403]

ChatError == [validation |-> 422, query |-> 400, notFound |-> 404, forbidden |-> 404,
              self |-> 409, unavailable |-> 409, readTarget |-> 422]

\* The errors of the domain that each use case answers to an active user.
CatalogRefusals == [
  ListCategories |-> {},
  CreateListing |-> {"validation"},
  UpdateListing |-> {"validation", "notFound", "forbidden"},
  ChangeListingStatus |-> {"validation", "notFound", "forbidden", "conflict"},
  ListOwnedListings |-> {"query"},
  GetListing |-> {"notFound"},
  SearchListings |-> {"query"}]

SellerRefusals == [
  UpdateProfile |-> {"validation", "disabled"},
  GetSellerProfile |-> {"notFound"},
  ListSellerListings |-> {"notFound", "query"}]

ChatRefusals == [
  StartConversation |-> {"notFound", "unavailable", "self"},
  ListConversations |-> {"query"},
  ListMessages |-> {"query", "notFound"},
  SendMessage |-> {"validation", "notFound"},
  MarkConversationRead |-> {"notFound", "readTarget"}]

\* The statuses of a call that is refused, and of one that fails.
Statuses(errors, refusals) ==
  [c \in DOMAIN refusals |-> {errors[e] : e \in refusals[c]}]

Refusals ==
  Joined(
    Joined(Statuses(CatalogError, CatalogRefusals), Statuses(SellerError, SellerRefusals)),
    Joined(Statuses(ChatError, ChatRefusals), [Logout |-> {}, Ping |-> {}, SubscribeStream |-> {}]))

Failed(c) == IF c \in {"Ping", "SubscribeStream"} THEN 503 ELSE 500

Changing ==
  {"CreateListing", "UpdateListing", "ChangeListingStatus", "UpdateProfile",
   "StartConversation", "SendMessage", "MarkConversationRead", "LoginWithDiscord", "Logout"}

-----------------------------------------------------------------------------
Sites == {"own", "other", "absent"}

Requests ==
  [route : Routes, unsafe : BOOLEAN, origin : Sites,
   referer : Sites, cookie : BOOLEAN, size : Sizes, declared : BOOLEAN]

Init ==
  /\ request \in {r \in Requests : r.route \in DOMAIN Handlers =>
                                     r.unsafe = (r.route \in UnsafeRoutes)}
  /\ todo = Middlewares \o Program(request.route)
  /\ inside = {}
  /\ session = "none"
  /\ headers = {}
  /\ done = {}
  /\ failure = 0
  /\ handling = 0
  /\ answers = <<>>

At(step) == todo # <<>> /\ Head(todo) = step

\* The step is over and the next one follows.
Go == todo' = Tail(todo) /\ UNCHANGED <<failure, handling, answers>>

\* The step returns an error.  RequestLogger calls the error handler and passes
\* the error on; Echo calls it again.
Fail(status) ==
  /\ todo' = <<>>
  /\ failure' = status
  /\ handling' = IF "accessLog" \in inside THEN 2 ELSE 1
  /\ UNCHANGED answers

Write(status) == answers' = Append(answers, [status |-> status, headers |-> headers])

-----------------------------------------------------------------------------
(* Middlewares                                                             *)

SetHeaders ==
  \E h \in {"requestID", "securityHeaders"} :
    /\ At(h) /\ Go
    /\ headers' = headers \cup {h}
    /\ UNCHANGED <<request, inside, session, done>>

LimitBody ==
  /\ At("bodyLimit")
  /\ IF request.declared /\ request.size > BodyLimit THEN Fail(413) ELSE Go
  /\ UNCHANGED <<request, inside, session, headers, done>>

\* Mutant: nothing presented is nothing to object to.
PresentedOrOwn == IF request.origin = "absent" THEN "own" ELSE request.origin

Presented == IF request.origin = "absent" THEN request.referer ELSE request.origin

SameOrigin ==
  /\ At("sameOrigin")
  /\ IF request.unsafe /\ Presented # "own" THEN Fail(403) ELSE Go
  /\ UNCHANGED <<request, inside, session, headers, done>>

\* Mutant: whatever the error, the cookie is cleared and the request goes on.
ClearOnAnyError ==
  /\ At("session") /\ Go
  /\ IF ~request.cookie THEN UNCHANGED <<session, headers>>
     ELSE \/ session' = "accepted" /\ UNCHANGED headers
          \/ session' \in {"rejected", "unknown"} /\ headers' = headers \cup {"clearSession"}
  /\ UNCHANGED <<request, inside, done>>

AuthenticateCookie ==
  /\ At("session")
  /\ \/ ~request.cookie /\ Go /\ UNCHANGED <<session, headers>>
     \/ request.cookie /\ session' = "accepted" /\ Go /\ UNCHANGED headers
     \/ /\ request.cookie /\ session' = "rejected" /\ Go
        /\ headers' = headers \cup {"clearSession"}
     \/ request.cookie /\ session' = "unknown" /\ Fail(500) /\ UNCHANGED headers
  /\ UNCHANGED <<request, inside, done>>

Enter ==
  \E m \in {"accessLog", "recovery"} :
    /\ At(m) /\ Go
    /\ inside' = inside \cup {m}
    /\ UNCHANGED <<request, session, headers, done>>

-----------------------------------------------------------------------------
(* Handlers                                                                *)

CurrentUser ==
  /\ At("user")
  /\ IF session = "accepted" THEN Go ELSE Fail(401)
  /\ UNCHANGED <<request, inside, session, headers, done>>

TooLong == request.size > JSONLimit \/ request.size > BodyLimit

\* Mutant: only the declared length counts.
DecodeDeclared ==
  /\ At("body")
  /\ \/ ~(request.declared /\ TooLong) /\ (Go \/ Fail(400))
     \/ TooLong /\ Fail(413)
     \/ Fail(415)
  /\ UNCHANGED <<request, inside, session, headers, done>>

\* A body without a declared length may be malformed before it is too long.
DecodeJSONRequest ==
  /\ At("body")
  /\ \/ ~TooLong /\ Go
     \/ ~(request.declared /\ request.size > JSONLimit) /\ Fail(400)
     \/ TooLong /\ Fail(413)
     \/ Fail(415)
  /\ UNCHANGED <<request, inside, session, headers, done>>

\* Values of the path, the query and the body, each of them usable or not.
Check(values, status) ==
  /\ At(values)
  /\ Go \/ Fail(status)
  /\ UNCHANGED <<request, inside, session, headers, done>>

CheckId == Check("id", 404)
CheckQuery == Check("query", 400)
CheckFields == Check("fields", 422)
CheckPresent == Check("present", 400)
CheckReturnTo == Check("return_to", 400)

CallService ==
  \E c \in DOMAIN Refusals :
    /\ At(c)
    /\ \/ Go /\ done' = done \cup ({c} \cap Changing)
       \/ (\E status \in Refusals[c] : Fail(status)) /\ UNCHANGED done
       \/ Fail(Failed(c)) /\ done' \in {done, done \cup ({c} \cap Changing)}
    /\ UNCHANGED <<request, inside, session, headers>>

\* Mutant: the session cookie is set whatever the login answers.
LoginIgnored ==
  /\ At("LoginWithDiscord") /\ Go
  /\ done' \in {done, done \cup {"LoginWithDiscord"}}
  /\ UNCHANGED <<request, inside, session, headers>>

\* Every error of a login, an unknown one included, is a redirect.
LoginWithDiscord ==
  /\ At("LoginWithDiscord")
  /\ \/ Go /\ done' = done \cup {"LoginWithDiscord"}
     \/ /\ todo' = <<"redirect">> /\ done' \in {done, done \cup {"LoginWithDiscord"}}
        /\ UNCHANGED <<failure, handling, answers>>
  /\ UNCHANGED <<request, inside, session, headers>>

\* What else ends a sign-in with a redirect to the login page.
CheckSignIn ==
  /\ \E s \in {"AuthorizationURL", "state", "provider", "code"} : At(s)
  /\ \/ Go
     \/ todo' = <<"redirect">> /\ UNCHANGED <<failure, handling, answers>>
  /\ UNCHANGED <<request, inside, session, headers, done>>

SetCookie ==
  \E c \in {"clearState", "setState", "clearSession", "setSession"} :
    /\ At(c) /\ Go
    /\ headers' = headers \cup {c}
    /\ UNCHANGED <<request, inside, session, done>>

\* Only GET and HEAD have files, and the paths of the API have none.
Serve ==
  /\ At("serve")
  /\ \/ Fail(404)
     \/ /\ ~request.unsafe /\ request.route = "page"
        /\ Write(200) /\ todo' = <<>> /\ UNCHANGED <<failure, handling>>
  /\ UNCHANGED <<request, inside, session, headers, done>>

\* Echo itself answers OPTIONS, with the methods of the path.
MethodNotAllowed ==
  /\ At("methodNotAllowed")
  /\ \/ Fail(405)
     \/ ~request.unsafe /\ Write(200) /\ todo' = <<>> /\ UNCHANGED <<failure, handling>>
  /\ UNCHANGED <<request, inside, session, headers, done>>

\* The status is written; the body may then fail.
Answer ==
  /\ \/ At("answer") /\ Write(200)
     \/ At("redirect") /\ Write(302)
  /\ todo' = <<>>
  /\ \/ UNCHANGED <<failure, handling>>
     \/ failure' = 500 /\ handling' = 2
  /\ UNCHANGED <<request, inside, session, headers, done>>

\* The stream begins with a 200, and errors of later writes only end it.
Stream ==
  /\ At("stream") /\ Write(200)
  /\ todo' = <<"streaming">>
  /\ UNCHANGED <<request, inside, session, headers, done, failure, handling>>

StreamEnds ==
  /\ At("streaming") /\ Go
  /\ UNCHANGED <<request, inside, session, headers, done>>

\* The handler panics before a step.
Recover ==
  /\ "recovery" \in inside /\ todo # <<>>
  /\ Fail(500)
  /\ UNCHANGED <<request, inside, session, headers, done>>

-----------------------------------------------------------------------------
\* Mutant: the error handler does not look at what was written.
HandleErrorAgain ==
  /\ handling > 0
  /\ handling' = handling - 1
  /\ Write(failure)
  /\ UNCHANGED <<request, todo, inside, session, headers, done, failure>>

HandleError ==
  /\ handling > 0
  /\ handling' = handling - 1
  /\ IF answers = <<>> THEN Write(failure) ELSE UNCHANGED answers
  /\ UNCHANGED <<request, todo, inside, session, headers, done, failure>>

Over == todo = <<>> /\ handling = 0 /\ UNCHANGED vars

Next ==
  \/ SetHeaders \/ LimitBody \/ SameOrigin \/ AuthenticateCookie \/ Enter
  \/ CurrentUser \/ DecodeJSONRequest
  \/ CheckId \/ CheckQuery \/ CheckFields \/ CheckPresent \/ CheckReturnTo
  \/ CallService \/ LoginWithDiscord \/ CheckSignIn \/ SetCookie
  \/ Serve \/ MethodNotAllowed \/ Answer \/ Stream \/ StreamEnds
  \/ Recover \/ HandleError \/ Over

Spec == Init /\ [][Next]_vars

-----------------------------------------------------------------------------
\* One answer per request: the error handler is called twice for an error that
\* passes the access log, and also for a panic or a failed write after the
\* answer has begun, an event stream included.
OneAnswer ==
  /\ Len(answers) <= 1
  /\ (todo = <<>> /\ handling = 0) => Len(answers) = 1

\* A request that is refused has changed nothing: whatever a client is told it
\* has to correct, it may send again corrected.
RefusedChangesNothing ==
  \A a \in ToSet(answers) : a.status \in 400..499 => done = {}

\* Something changes only for a request of the own site and of a user whose
\* session was accepted, but for logouts, which need no session, and sign-ins,
\* which come from Discord; and no body is acted on that was longer than
\* either limit, whether or not its length was declared.
ChangesAreAuthorised ==
  done # {} =>
    /\ request.route = "discordCallback" \/
         /\ request.unsafe
         /\ <<request.origin, request.referer>> \in ({"own"} \X Sites) \cup {<<"absent", "own">>}
    /\ request.route \in {"discordCallback", "logout"} \/ session = "accepted"
    /\ "body" \in ToSet(Program(request.route)) => ~TooLong

\* Every answer, of whatever step, names the request and has the security
\* headers.
AnswersNameTheRequest ==
  \A a \in ToSet(answers) : {"requestID", "securityHeaders"} \subseteq a.headers

\* An answer takes the session cookie from the browser when the session was
\* rejected and when a logout has deleted it, and not when the database could
\* not say or the deletion failed; it gives one only after a sign-in.
CookieFollowsSession ==
  \A a \in ToSet(answers) :
    /\ session = "rejected" => "clearSession" \in a.headers
    /\ "clearSession" \in a.headers => session = "rejected" \/ "Logout" \in done
    /\ "setSession" \in a.headers => "LoginWithDiscord" \in done
=============================================================================
