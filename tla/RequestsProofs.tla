--------------------------- MODULE RequestsProofs ---------------------------
(***************************************************************************)
(* Theorems about one HTTP request, for any limits and sizes of bodies.    *)
(*                                                                         *)
(* First what the proofs need of the routes: every list of steps is read   *)
(* off its table and found sound, in the sense of SoundProgram.  Then the  *)
(* inductive invariant: a request is either on its path, with all that its *)
(* steps so far have established and no answer, or it has left the path    *)
(* and is answered, streaming, redirected or failing.  After that one      *)
(* lemma for each group of actions.                                        *)
(***************************************************************************)
EXTENDS Requests, TLAPS

\* The steps that end a handler.
Terminal == {"answer", "redirect", "stream", "serve", "methodNotAllowed"}

MiddlewareSteps ==
  {"requestID", "securityHeaders", "bodyLimit", "sameOrigin", "session", "accessLog", "recovery"}

\* What a handler still does once it has changed something.
AfterChange == {"setSession", "clearSession", "answer", "redirect"}

\* Every step of a handler.
HandlerSteps ==
  {"user", "id", "query", "body", "fields", "present", "return_to", "state", "provider", "code",
   "AuthorizationURL", "LoginWithDiscord", "setState", "clearState", "setSession", "clearSession",
   "ListCategories", "SearchListings", "CreateListing", "UpdateListing", "ChangeListingStatus",
   "ListOwnedListings", "GetListing", "UpdateProfile", "GetSellerProfile", "ListSellerListings",
   "StartConversation", "ListConversations", "ListMessages", "SendMessage",
   "MarkConversationRead", "SubscribeStream", "Logout", "Ping",
   "answer", "redirect", "stream", "serve", "methodNotAllowed"}

\* What the properties need of the steps p of a route.
SoundProgram(route, p) ==
  /\ p \in Seq(HandlerSteps) /\ p # <<>>
  /\ \A i \in 1..Len(p) :
       /\ p[i] \in Terminal <=> i = Len(p)
       /\ p[i] \in Changing =>
            /\ route \in UnsafeRoutes \cup {"discordCallback"}
            /\ route \in {"discordCallback", "logout"} \/ \E j \in 1..i : p[j] = "user"
            /\ \A j \in (i + 1)..Len(p) : p[j] \in AfterChange
       /\ p[i] = "clearSession" => \E j \in 1..i : p[j] = "Logout"
       /\ p[i] = "setSession" => \E j \in 1..i : p[j] = "LoginWithDiscord"

\* The keys of a joined table.
LEMMA DomJoined == \A f, g : DOMAIN Joined(f, g) = DOMAIN f \cup DOMAIN g
BY DEF Joined

\* The routes, by name.
LEMMA RouteNames ==
  Routes =
    {"listCategories", "searchListings", "createListing", "updateListing",
     "changeListingStatus", "listOwnedListings", "getListing", "updateProfile",
     "getSellerProfile", "listSellerListings", "startConversation", "listConversations",
     "listMessages", "sendMessage", "markConversationRead", "streamEvents", "startDiscord",
     "discordCallback", "logout", "me", "health", "ready", "page", "api", "method"}
<1>1. DOMAIN CatalogHandlers =
        {"listCategories", "searchListings", "createListing", "updateListing",
         "changeListingStatus", "listOwnedListings", "getListing"}
  BY DEF CatalogHandlers
<1>2. DOMAIN SellerHandlers = {"updateProfile", "getSellerProfile", "listSellerListings"}
  BY DEF SellerHandlers
<1>3. DOMAIN ChatHandlers =
        {"startConversation", "listConversations", "listMessages", "sendMessage",
         "markConversationRead"}
  BY DEF ChatHandlers
<1>4. DOMAIN OtherHandlers =
        {"streamEvents", "startDiscord", "discordCallback", "logout", "me", "health", "ready"}
  BY DEF OtherHandlers
<1>5. DOMAIN Unrouted = {"page", "api", "method"}
  BY DEF Unrouted
<1>6. /\ DOMAIN Joined(CatalogHandlers, SellerHandlers) =
           DOMAIN CatalogHandlers \cup DOMAIN SellerHandlers
      /\ DOMAIN Joined(ChatHandlers, OtherHandlers) =
           DOMAIN ChatHandlers \cup DOMAIN OtherHandlers
  BY DomJoined
<1>7. DOMAIN Handlers =
        DOMAIN Joined(CatalogHandlers, SellerHandlers)
          \cup DOMAIN Joined(ChatHandlers, OtherHandlers)
  BY DomJoined DEF Handlers
<1> QED
  BY <1>1, <1>2, <1>3, <1>4, <1>5, <1>6, <1>7 DEF Routes

\* The steps of each route, read off the tables.
LEMMA Programs ==
  /\ Program("listCategories") = <<"ListCategories", "answer">>
  /\ Program("searchListings") = <<"query", "SearchListings", "answer">>
  /\ Program("createListing") = <<"user", "body", "fields", "CreateListing", "answer">>
  /\ Program("updateListing") = <<"user", "id", "body", "fields", "UpdateListing", "answer">>
  /\ Program("changeListingStatus") =
       <<"user", "id", "body", "fields", "GetListing", "ChangeListingStatus", "answer">>
  /\ Program("listOwnedListings") = <<"user", "query", "ListOwnedListings", "answer">>
  /\ Program("getListing") = <<"id", "GetListing", "answer">>
  /\ Program("updateProfile") = <<"user", "body", "present", "UpdateProfile", "answer">>
  /\ Program("getSellerProfile") = <<"GetSellerProfile", "answer">>
  /\ Program("listSellerListings") = <<"query", "ListSellerListings", "answer">>
  /\ Program("startConversation") = <<"user", "id", "StartConversation", "answer">>
  /\ Program("listConversations") = <<"user", "query", "ListConversations", "answer">>
  /\ Program("listMessages") = <<"user", "id", "query", "ListMessages", "answer">>
  /\ Program("sendMessage") = <<"user", "id", "body", "fields", "SendMessage", "answer">>
  /\ Program("markConversationRead") =
       <<"user", "id", "body", "fields", "MarkConversationRead", "answer">>
  /\ Program("streamEvents") = <<"user", "SubscribeStream", "stream">>
  /\ Program("startDiscord") = <<"return_to", "AuthorizationURL", "setState", "redirect">>
  /\ Program("discordCallback") =
       <<"clearState", "state", "provider", "code", "LoginWithDiscord", "setSession", "redirect">>
  /\ Program("logout") = <<"Logout", "clearSession", "answer">>
  /\ Program("me") = <<"user", "answer">>
  /\ Program("health") = <<"answer">>
  /\ Program("ready") = <<"Ping", "answer">>
  /\ Program("page") = <<"serve">>
  /\ Program("api") = <<"serve">>
  /\ Program("method") = <<"methodNotAllowed">>
<1> USE DEF Program, Joined, Handlers, CatalogHandlers, SellerHandlers, ChatHandlers,
            OtherHandlers, Unrouted
<1>1. /\ Program("listCategories") = <<"ListCategories", "answer">>
      /\ Program("searchListings") = <<"query", "SearchListings", "answer">>
      /\ Program("createListing") = <<"user", "body", "fields", "CreateListing", "answer">>
      /\ Program("updateListing") = <<"user", "id", "body", "fields", "UpdateListing", "answer">>
      /\ Program("changeListingStatus") =
           <<"user", "id", "body", "fields", "GetListing", "ChangeListingStatus", "answer">>
      /\ Program("listOwnedListings") = <<"user", "query", "ListOwnedListings", "answer">>
      /\ Program("getListing") = <<"id", "GetListing", "answer">>
  BY DEF Program, ChangeStatus
<1>2. /\ Program("updateProfile") = <<"user", "body", "present", "UpdateProfile", "answer">>
      /\ Program("getSellerProfile") = <<"GetSellerProfile", "answer">>
      /\ Program("listSellerListings") = <<"query", "ListSellerListings", "answer">>
  BY DEF Program
<1>3. /\ Program("startConversation") = <<"user", "id", "StartConversation", "answer">>
      /\ Program("listConversations") = <<"user", "query", "ListConversations", "answer">>
      /\ Program("listMessages") = <<"user", "id", "query", "ListMessages", "answer">>
      /\ Program("sendMessage") = <<"user", "id", "body", "fields", "SendMessage", "answer">>
      /\ Program("markConversationRead") =
           <<"user", "id", "body", "fields", "MarkConversationRead", "answer">>
  BY DEF Program
<1>4. /\ Program("streamEvents") = <<"user", "SubscribeStream", "stream">>
      /\ Program("startDiscord") = <<"return_to", "AuthorizationURL", "setState", "redirect">>
      /\ Program("discordCallback") =
           <<"clearState", "state", "provider", "code", "LoginWithDiscord", "setSession", "redirect">>
      /\ Program("logout") = <<"Logout", "clearSession", "answer">>
      /\ Program("me") = <<"user", "answer">>
      /\ Program("health") = <<"answer">>
      /\ Program("ready") = <<"Ping", "answer">>
  BY DEF Program, StreamEvents, StartDiscord, DiscordCallback, Logout, Me,
                           Health, Ready
<1>5. /\ Program("page") = <<"serve">>
      /\ Program("api") = <<"serve">>
      /\ Program("method") = <<"methodNotAllowed">>
  BY DEF Program
<1> QED
  BY <1>1, <1>2, <1>3, <1>4, <1>5

\* Every route is sound in this sense.
LEMMA ProgramsAreSound == \A route \in Routes : SoundProgram(route, Program(route))
<1> USE DEF SoundProgram, Terminal, HandlerSteps, Changing, AfterChange, UnsafeRoutes
<1>1. SoundProgram("listCategories", <<"ListCategories", "answer">>)
  OBVIOUS
<1>2. SoundProgram("searchListings", <<"query", "SearchListings", "answer">>)
  OBVIOUS
<1>3. SoundProgram("createListing", <<"user", "body", "fields", "CreateListing", "answer">>)
  OBVIOUS
<1>4. SoundProgram("updateListing",
        <<"user", "id", "body", "fields", "UpdateListing", "answer">>)
  OBVIOUS
<1>5. SoundProgram("changeListingStatus",
        <<"user", "id", "body", "fields", "GetListing", "ChangeListingStatus", "answer">>)
  OBVIOUS
<1>6. SoundProgram("listOwnedListings", <<"user", "query", "ListOwnedListings", "answer">>)
  OBVIOUS
<1>7. SoundProgram("getListing", <<"id", "GetListing", "answer">>)
  OBVIOUS
<1>8. SoundProgram("updateProfile", <<"user", "body", "present", "UpdateProfile", "answer">>)
  OBVIOUS
<1>9. SoundProgram("getSellerProfile", <<"GetSellerProfile", "answer">>)
  OBVIOUS
<1>10. SoundProgram("listSellerListings", <<"query", "ListSellerListings", "answer">>)
  OBVIOUS
<1>11. SoundProgram("startConversation", <<"user", "id", "StartConversation", "answer">>)
  OBVIOUS
<1>12. SoundProgram("listConversations", <<"user", "query", "ListConversations", "answer">>)
  OBVIOUS
<1>13. SoundProgram("listMessages", <<"user", "id", "query", "ListMessages", "answer">>)
  OBVIOUS
<1>14. SoundProgram("sendMessage", <<"user", "id", "body", "fields", "SendMessage", "answer">>)
  OBVIOUS
<1>15. SoundProgram("markConversationRead",
        <<"user", "id", "body", "fields", "MarkConversationRead", "answer">>)
  OBVIOUS
<1>16. SoundProgram("streamEvents", <<"user", "SubscribeStream", "stream">>)
  OBVIOUS
<1>17. SoundProgram("startDiscord", <<"return_to", "AuthorizationURL", "setState", "redirect">>)
  OBVIOUS
<1>18. SoundProgram("discordCallback",
        <<"clearState", "state", "provider", "code", "LoginWithDiscord", "setSession", "redirect">>)
  OBVIOUS
<1>19. SoundProgram("logout", <<"Logout", "clearSession", "answer">>)
  OBVIOUS
<1>20. SoundProgram("me", <<"user", "answer">>)
  OBVIOUS
<1>21. SoundProgram("health", <<"answer">>)
  OBVIOUS
<1>22. SoundProgram("ready", <<"Ping", "answer">>)
  OBVIOUS
<1>23. SoundProgram("page", <<"serve">>)
  OBVIOUS
<1>24. SoundProgram("api", <<"serve">>)
  OBVIOUS
<1>25. SoundProgram("method", <<"methodNotAllowed">>)
  OBVIOUS
<1> HIDE DEF SoundProgram, Terminal, HandlerSteps, Changing, AfterChange, UnsafeRoutes
<1> QED
  BY Programs, RouteNames, <1>1, <1>2, <1>3, <1>4, <1>5, <1>6, <1>7, <1>8, <1>9, <1>10, <1>11, <1>12, <1>13, <1>14, <1>15, <1>16, <1>17, <1>18, <1>19, <1>20, <1>21, <1>22, <1>23, <1>24, <1>25

-----------------------------------------------------------------------------
(* The steps of a request, from the first middleware.                      *)

Steps(route) == Middlewares \o Program(route)

\* What a concatenation consists of.
LEMMA Concatenation ==
  ASSUME NEW S, NEW m \in Seq(S), NEW p \in Seq(S)
  PROVE  /\ m \o p \in Seq(S)
         /\ Len(m \o p) = Len(m) + Len(p)
         /\ \A i \in 1..Len(m) : (m \o p)[i] = m[i]
         /\ \A i \in 1..Len(p) : (m \o p)[i + Len(m)] = p[i]
OBVIOUS

\* What stands in a sequence is of its set.
LEMMA ElementsOfSequence ==
  ASSUME NEW S, NEW m \in Seq(S)
  PROVE  \A i \in 1..Len(m) : m[i] \in S
OBVIOUS

\* Where each middleware stands, and what SoundProgram says of the whole.
LEMMA StepsAreSound ==
  ASSUME NEW route \in Routes, NEW s, s = Steps(route)
  PROVE  /\ s \in Seq(MiddlewareSteps \cup HandlerSteps)
         /\ Len(s) > 7
         /\ s[1] = "requestID" /\ s[2] = "securityHeaders" /\ s[3] = "bodyLimit"
         /\ s[4] = "sameOrigin" /\ s[5] = "session" /\ s[6] = "accessLog" /\ s[7] = "recovery"
         /\ \A i \in 1..Len(s) :
              /\ s[i] \in HandlerSteps <=> i > 7
              /\ s[i] \in Terminal <=> i = Len(s)
              /\ s[i] \in Changing =>
                   /\ route \in UnsafeRoutes \cup {"discordCallback"}
                   /\ route \in {"discordCallback", "logout"} \/ \E j \in 1..i : s[j] = "user"
                   /\ \A j \in (i + 1)..Len(s) : s[j] \in AfterChange
              /\ s[i] = "clearSession" => \E j \in 1..i : s[j] = "Logout"
              /\ s[i] = "setSession" => \E j \in 1..i : s[j] = "LoginWithDiscord"
         /\ \A x \in ToSet(Program(route)) : \E i \in 8..Len(s) : s[i] = x
<1> DEFINE m == Middlewares
           p == Program(route)
<1>1. /\ m \in Seq(MiddlewareSteps) /\ Len(m) = 7
      /\ m[1] = "requestID" /\ m[2] = "securityHeaders" /\ m[3] = "bodyLimit"
      /\ m[4] = "sameOrigin" /\ m[5] = "session" /\ m[6] = "accessLog" /\ m[7] = "recovery"
  BY DEF Middlewares, MiddlewareSteps
<1>2. SoundProgram(route, p)
  BY ProgramsAreSound
<1>3. p \in Seq(HandlerSteps) /\ Len(p) \in Nat /\ Len(p) > 0
  BY <1>2 DEF SoundProgram
<1> HIDE DEF m, p
<1>4. /\ s \in Seq(MiddlewareSteps \cup HandlerSteps)
      /\ Len(s) = 7 + Len(p)
      /\ \A i \in 1..7 : s[i] = m[i]
      /\ \A i \in 8..Len(s) : s[i] = p[i - 7]
      /\ \A i \in 1..Len(p) : s[i + 7] = p[i]
  <2>1. s = m \o p
    BY DEF Steps, m, p
  <2>2. /\ m \in Seq(MiddlewareSteps \cup HandlerSteps)
        /\ p \in Seq(MiddlewareSteps \cup HandlerSteps)
    BY <1>1, <1>3
  <2>3. /\ s \in Seq(MiddlewareSteps \cup HandlerSteps)
        /\ Len(s) = Len(m) + Len(p)
        /\ \A i \in 1..Len(m) : s[i] = m[i]
        /\ \A i \in 1..Len(p) : s[i + Len(m)] = p[i]
    BY <2>1, <2>2, Concatenation
  <2>4. ASSUME NEW i \in 8..Len(s)
        PROVE  s[i] = p[i - 7]
    <3>1. i - 7 \in 1..Len(p) /\ (i - 7) + Len(m) = i
      BY <2>3, <1>1, <1>3
    <3> QED
      BY <2>3, <3>1
  <2> QED
    BY <2>3, <2>4, <1>1
<1>5. \A i \in 1..Len(s) :
        /\ s[i] \in HandlerSteps <=> i > 7
        /\ i <= 7 => s[i] \in MiddlewareSteps
  <2>1. \A i \in 1..Len(m) : m[i] \in MiddlewareSteps
    BY <1>1, ElementsOfSequence
  <2>2. \A x \in MiddlewareSteps : x \notin HandlerSteps
    BY DEF MiddlewareSteps, HandlerSteps
  <2>3. \A i \in 1..Len(p) : p[i] \in HandlerSteps
    BY <1>3, ElementsOfSequence
  <2> QED
    BY <2>1, <2>2, <2>3, <1>1, <1>3, <1>4
<1>6. MiddlewareSteps \cap (Terminal \cup Changing \cup {"clearSession", "setSession"}) = {}
  BY DEF MiddlewareSteps, Terminal, Changing
<1>7. ASSUME NEW i \in 1..Len(s)
      PROVE  /\ s[i] \in HandlerSteps <=> i > 7
             /\ s[i] \in Terminal <=> i = Len(s)
             /\ s[i] \in Changing =>
                  /\ route \in UnsafeRoutes \cup {"discordCallback"}
                  /\ route \in {"discordCallback", "logout"} \/ \E j \in 1..i : s[j] = "user"
                  /\ \A j \in (i + 1)..Len(s) : s[j] \in AfterChange
             /\ s[i] = "clearSession" => \E j \in 1..i : s[j] = "Logout"
             /\ s[i] = "setSession" => \E j \in 1..i : s[j] = "LoginWithDiscord"
  <2>1. CASE i <= 7
    BY <2>1, <1>3, <1>4, <1>5, <1>6
  <2>2. CASE i > 7
    <3>1. i - 7 \in 1..Len(p) /\ s[i] = p[i - 7] /\ (i = Len(s) <=> i - 7 = Len(p))
      BY <2>2, <1>3, <1>4
    <3>2. /\ p[i - 7] \in Terminal <=> i - 7 = Len(p)
          /\ p[i - 7] \in Changing =>
               /\ route \in UnsafeRoutes \cup {"discordCallback"}
               /\ route \in {"discordCallback", "logout"} \/ \E j \in 1..(i - 7) : p[j] = "user"
               /\ \A j \in (i - 7 + 1)..Len(p) : p[j] \in AfterChange
          /\ p[i - 7] = "clearSession" => \E j \in 1..(i - 7) : p[j] = "Logout"
          /\ p[i - 7] = "setSession" => \E j \in 1..(i - 7) : p[j] = "LoginWithDiscord"
      BY <1>2, <3>1 DEF SoundProgram
    <3>3. \A x : (\E j \in 1..(i - 7) : p[j] = x) => \E j \in 1..i : s[j] = x
      <4> SUFFICES ASSUME NEW x, NEW j \in 1..(i - 7), p[j] = x
                   PROVE  \E k \in 1..i : s[k] = x
        OBVIOUS
      <4>1. j + 7 \in 1..i /\ s[j + 7] = x
        BY <1>3, <1>4, <2>2
      <4> QED
        BY <4>1
    <3>4. ASSUME NEW j \in (i + 1)..Len(s), p[i - 7] \in Changing
          PROVE  s[j] \in AfterChange
      <4>1. j - 7 \in (i - 7 + 1)..Len(p) /\ s[j] = p[j - 7]
        BY <2>2, <1>3, <1>4
      <4> QED
        BY <4>1, <3>2, <3>4
    <3> QED
      BY <1>5, <3>1, <3>2, <3>3, <3>4
  <2> QED
    BY <2>1, <2>2
<1>8. ASSUME NEW x \in ToSet(Program(route))
      PROVE  \E i \in 8..Len(s) : s[i] = x
  <2>1. PICK i \in 1..Len(p) : p[i] = x
    BY <1>3 DEF ToSet, p
  <2>2. i + 7 \in 8..Len(s) /\ s[i + 7] = x
    BY <2>1, <1>3, <1>4
  <2> QED
    BY <2>2
<1> QED
  <2>1. Len(s) > 7 /\ 1 \in 1..7 /\ 2 \in 1..7 /\ 3 \in 1..7 /\ 4 \in 1..7 /\ 5 \in 1..7
        /\ 6 \in 1..7 /\ 7 \in 1..7
    BY <1>3, <1>4
  <2>2. /\ s[1] = "requestID" /\ s[2] = "securityHeaders" /\ s[3] = "bodyLimit"
        /\ s[4] = "sameOrigin" /\ s[5] = "session" /\ s[6] = "accessLog" /\ s[7] = "recovery"
    BY <2>1, <1>1, <1>4
  <2> QED
    BY <2>1, <2>2, <1>4, <1>7, <1>8, Zenon

-----------------------------------------------------------------------------
(* The inductive invariant.                                                *)

\* What it means that a request has passed a step.
Passed(step) ==
  /\ step \in {"requestID", "securityHeaders"} => step \in headers
  /\ step = "sameOrigin" => (request.unsafe => Presented = "own")
  /\ step = "user" => session = "accepted"
  /\ step = "body" => ~TooLong
  /\ step \in {"Logout", "LoginWithDiscord"} => step \in done

\* The request has passed its first k steps, each of them, has changed what
\* those of them change at most, and is not answered yet.
OnPath(k) ==
  LET s == Steps(request.route)
  IN  /\ k \in 0..(Len(s) - 1)
      /\ todo \in Seq(MiddlewareSteps \cup HandlerSteps)
      /\ Len(todo) = Len(s) - k
      /\ \A i \in 1..Len(todo) : todo[i] = s[k + i]
      /\ \A i \in 1..k : Passed(s[i])
      /\ \A c \in done : c \in Changing /\ \E i \in 1..k : s[i] = c
      /\ k < 5 => session = "none" /\ headers \subseteq {"requestID", "securityHeaders"}
      /\ answers = <<>> /\ handling = 0 /\ failure = 0

Named == {"requestID", "securityHeaders"} \subseteq headers

Authorised ==
  /\ request.route = "discordCallback" \/
       /\ request.unsafe
       /\ <<request.origin, request.referer>> \in ({"own"} \X Sites) \cup {<<"absent", "own">>}
  /\ request.route \in {"discordCallback", "logout"} \/ session = "accepted"
  /\ "body" \in ToSet(Program(request.route)) => ~TooLong

\* The one answer has what was set so far, and refuses nothing that was done.
Answered ==
  \E status : /\ answers = <<[status |-> status, headers |-> headers]>>
              /\ status \in 400..499 => done = {}

\* The request has left its path: answered, streaming, about to be redirected
\* to the login page, or with an error on its way up.
Settled ==
  /\ \/ todo = <<>> /\ (Answered \/ (answers = <<>> /\ handling # 0))
     \/ todo = <<"streaming">> /\ Answered
     \/ todo = <<"redirect">> /\ answers = <<>> /\ handling = 0
  /\ Named
  /\ done # {} => Authorised
  /\ failure \in 400..499 => done = {}

\* The session cookie is cleared and set for its reasons only.
CookiesSet ==
  /\ session = "rejected" => "clearSession" \in headers
  /\ "clearSession" \in headers => session = "rejected" \/ "Logout" \in done
  /\ "setSession" \in headers => "LoginWithDiscord" \in done

Inv ==
  /\ request \in Requests
  /\ request.route \in DOMAIN Handlers => request.unsafe = (request.route \in UnsafeRoutes)
  /\ handling \in 0..2
  /\ inside # {} => Named
  /\ CookiesSet
  /\ Settled \/ \E k \in Nat : OnPath(k)

-----------------------------------------------------------------------------
(* What holds on the path.                                                 *)

\* The next step of a request on its path, and where each middleware stands.
LEMMA NextOnPath ==
  ASSUME request \in Requests, NEW k \in Nat, OnPath(k), NEW s, s = Steps(request.route)
  PROVE  /\ k + 1 \in 1..Len(s)
         /\ todo # <<>> /\ Head(todo) = s[k + 1]
         /\ Tail(todo) \in Seq(MiddlewareSteps \cup HandlerSteps)
         /\ Len(Tail(todo)) = Len(s) - (k + 1)
         /\ \A i \in 1..Len(Tail(todo)) : Tail(todo)[i] = s[k + 1 + i]
         /\ s[k + 1] # "streaming"
         /\ s[k + 1] = "requestID" => k = 0
         /\ s[k + 1] = "securityHeaders" => k = 1
         /\ s[k + 1] = "session" => k = 4
         /\ s[k + 1] \in {"bodyLimit", "sameOrigin"} => k < 4
         /\ s[k + 1] \in HandlerSteps => k >= 7
         /\ s[k + 1] \notin {"requestID", "securityHeaders"} => k >= 2
<1>1. request.route \in Routes
  BY DEF Requests
<1>2. /\ k \in 0..(Len(s) - 1)
      /\ todo \in Seq(MiddlewareSteps \cup HandlerSteps)
      /\ Len(todo) = Len(s) - k
      /\ \A i \in 1..Len(todo) : todo[i] = s[k + i]
  BY DEF OnPath
<1>3. /\ s \in Seq(MiddlewareSteps \cup HandlerSteps) /\ Len(s) \in Nat
      /\ Len(s) > 7
      /\ s[1] = "requestID" /\ s[2] = "securityHeaders" /\ s[3] = "bodyLimit"
      /\ s[4] = "sameOrigin" /\ s[5] = "session" /\ s[6] = "accessLog" /\ s[7] = "recovery"
      /\ \A i \in 1..Len(s) : s[i] \in HandlerSteps <=> i > 7
  BY <1>1, StepsAreSound
<1>4. k + 1 \in 1..Len(s) /\ Len(todo) > 0
  BY <1>2, <1>3
<1>5. todo # <<>> /\ Head(todo) = todo[1] /\ todo[1] = s[k + 1]
  <2>1. todo # <<>>
    BY <1>2, <1>4
  <2>2. Head(todo) = todo[1]
    BY <1>2, <2>1
  <2>3. 1 \in 1..Len(todo)
    BY <1>2, <1>4
  <2> QED
    BY <1>2, <2>1, <2>2, <2>3
<1>6. /\ Tail(todo) \in Seq(MiddlewareSteps \cup HandlerSteps)
      /\ Len(Tail(todo)) = Len(todo) - 1
      /\ \A i \in 1..Len(Tail(todo)) : Tail(todo)[i] = todo[i + 1]
  BY <1>2, <1>5
<1>7. \A i \in 1..Len(Tail(todo)) : Tail(todo)[i] = s[k + 1 + i]
  <2> SUFFICES ASSUME NEW i \in 1..Len(Tail(todo))
               PROVE  Tail(todo)[i] = s[k + 1 + i]
    OBVIOUS
  <2>1. i + 1 \in 1..Len(todo) /\ k + (i + 1) = k + 1 + i
    BY <1>2, <1>6
  <2>2. todo[i + 1] = s[k + (i + 1)]
    BY <1>2, <2>1
  <2> QED
    BY <2>1, <2>2, <1>6
<1>8. s[k + 1] \in MiddlewareSteps \cup HandlerSteps
  BY <1>3, <1>4, ElementsOfSequence
<1>9. s[k + 1] # "streaming"
  BY <1>8 DEF MiddlewareSteps, HandlerSteps
<1>10. s[k + 1] \in HandlerSteps => k >= 7
  BY <1>3, <1>4
<1>11. s[k + 1] \in MiddlewareSteps => k \in 0..6
  <2>1. \A x \in MiddlewareSteps : x \notin HandlerSteps
    BY DEF MiddlewareSteps, HandlerSteps
  <2> QED
    BY <2>1, <1>3, <1>4
<1>12. k \in 0..6 => \/ k = 0 /\ s[k + 1] = "requestID"
                     \/ k = 1 /\ s[k + 1] = "securityHeaders"
                     \/ k = 2 /\ s[k + 1] = "bodyLimit"
                     \/ k = 3 /\ s[k + 1] = "sameOrigin"
                     \/ k = 4 /\ s[k + 1] = "session"
                     \/ k = 5 /\ s[k + 1] = "accessLog"
                     \/ k = 6 /\ s[k + 1] = "recovery"
  BY <1>3
<1>13. /\ s[k + 1] = "requestID" => k = 0
       /\ s[k + 1] = "securityHeaders" => k = 1
       /\ s[k + 1] = "session" => k = 4
       /\ s[k + 1] \in {"bodyLimit", "sameOrigin"} => k < 4
  BY <1>11, <1>12 DEF MiddlewareSteps
<1>14. s[k + 1] \notin {"requestID", "securityHeaders"} => k >= 2
  BY <1>3
<1> QED
  BY <1>2, <1>4, <1>5, <1>6, <1>7, <1>9, <1>10, <1>13, <1>14

\* Whatever a request has changed, and whatever it changes next, it was
\* authorised to by the steps before; it changes nothing twice, and nothing
\* before its headers are set.
LEMMA ChangesOnPath ==
  ASSUME request \in Requests,
         request.route \in DOMAIN Handlers => request.unsafe = (request.route \in UnsafeRoutes),
         NEW k \in Nat, OnPath(k), NEW s, s = Steps(request.route)
  PROVE  /\ done # {} => Authorised /\ s[k + 1] \in AfterChange
         /\ s[k + 1] \in Changing => Authorised
         /\ k < 7 => done = {}
         /\ k >= 2 => Named
<1>1. request.route \in Routes
  BY DEF Requests
<1>2. /\ k \in 0..(Len(s) - 1)
      /\ \A i \in 1..k : Passed(s[i])
      /\ \A c \in done : c \in Changing /\ \E i \in 1..k : s[i] = c
  BY DEF OnPath
<1>3. /\ Len(s) \in Nat /\ Len(s) > 7
      /\ s[1] = "requestID" /\ s[2] = "securityHeaders" /\ s[4] = "sameOrigin"
      /\ \A i \in 1..Len(s) :
           /\ s[i] \in HandlerSteps <=> i > 7
           /\ s[i] \in Changing =>
                /\ request.route \in UnsafeRoutes \cup {"discordCallback"}
                /\ request.route \in {"discordCallback", "logout"}
                     \/ \E j \in 1..i : s[j] = "user"
                /\ \A j \in (i + 1)..Len(s) : s[j] \in AfterChange
      /\ \A x \in ToSet(Program(request.route)) : \E i \in 8..Len(s) : s[i] = x
  <2>1. s \in Seq(MiddlewareSteps \cup HandlerSteps)
    BY <1>1, StepsAreSound
  <2> QED
    BY <1>1, <2>1, StepsAreSound
<1>4. Changing \subseteq HandlerSteps
  BY DEF Changing, HandlerSteps
<1>5. {"user", "body"} \cap Changing = {} /\ "body" \notin AfterChange
  BY DEF Changing, AfterChange
<1>6. ASSUME NEW i \in 1..(k + 1), s[i] \in Changing
      PROVE  Authorised
  <2>1. i \in 1..Len(s) /\ i > 7 /\ k >= 7
    BY <1>2, <1>3, <1>4, <1>6
  <2>2. request.route = "discordCallback" \/
          /\ request.unsafe
          /\ <<request.origin, request.referer>> \in ({"own"} \X Sites) \cup {<<"absent", "own">>}
    <3> SUFFICES ASSUME request.route # "discordCallback"
                 PROVE  /\ request.unsafe
                        /\ <<request.origin, request.referer>>
                             \in ({"own"} \X Sites) \cup {<<"absent", "own">>}
      OBVIOUS
    <3>1. request.route \in UnsafeRoutes
      BY <2>1, <1>3, <1>6
    <3>2. request.route \in DOMAIN Handlers
      <4>1. UnsafeRoutes \cap DOMAIN Unrouted = {}
        BY DEF UnsafeRoutes, Unrouted
      <4> QED
        BY <3>1, <4>1, <1>1 DEF Routes
    <3>3. request.unsafe
      BY <3>1, <3>2, Zenon
    <3>4. Passed("sameOrigin")
      BY <1>2, <1>3, <2>1
    <3>5. Presented = "own"
      BY <3>3, <3>4 DEF Passed
    <3>6. request.origin \in Sites /\ request.referer \in Sites
      BY DEF Requests
    <3>7. \/ request.origin = "own"
          \/ request.origin = "absent" /\ request.referer = "own"
      BY <3>5 DEF Presented
    <3> QED
      BY <3>3, <3>6, <3>7
  <2>3. request.route \in {"discordCallback", "logout"} \/ session = "accepted"
    <3> SUFFICES ASSUME request.route \notin {"discordCallback", "logout"}
                 PROVE  session = "accepted"
      OBVIOUS
    <3>1. PICK j \in 1..i : s[j] = "user"
      BY <2>1, <1>3, <1>6
    <3>2. j # i
      BY <3>1, <1>5, <1>6
    <3>3. j \in 1..k
      BY <3>1, <3>2, <2>1
    <3> QED
      BY <3>1, <3>3, <1>2 DEF Passed
  <2>4. "body" \in ToSet(Program(request.route)) => ~TooLong
    <3> SUFFICES ASSUME "body" \in ToSet(Program(request.route))
                 PROVE  ~TooLong
      OBVIOUS
    <3>1. PICK j \in 8..Len(s) : s[j] = "body"
      BY <1>3
    <3>2. j # i
      BY <3>1, <1>5, <1>6
    <3>3. ~(j \in (i + 1)..Len(s))
      BY <3>1, <1>3, <1>5, <1>6, <2>1
    <3>4. j \in 1..k
      BY <3>1, <3>2, <3>3, <1>2, <1>3
    <3> QED
      BY <3>1, <3>4, <1>2 DEF Passed
  <2> QED
    BY <2>2, <2>3, <2>4 DEF Authorised
<1>7. ASSUME done # {}
      PROVE  Authorised /\ s[k + 1] \in AfterChange /\ k >= 7
  <2>1. PICK c \in done : TRUE
    BY <1>7
  <2>2. PICK i \in 1..k : s[i] = c /\ c \in Changing
    BY <1>2, <2>1
  <2>3. i \in 1..(k + 1) /\ i \in 1..Len(s) /\ k + 1 \in (i + 1)..Len(s)
    BY <2>2, <1>2, <1>3
  <2>4. i > 7
    BY <2>2, <2>3, <1>3, <1>4
  <2> QED
    BY <2>2, <2>3, <2>4, <1>3, <1>6
<1>8. s[k + 1] \in Changing => Authorised
  BY <1>6
<1>9. k >= 2 => Named
  BY <1>2, <1>3 DEF Passed, Named
<1> QED
  BY <1>7, <1>8, <1>9

-----------------------------------------------------------------------------
(* What a step does to the invariant.                                      *)

\* A step that is passed takes the request one step further.
LEMMA Goes ==
  ASSUME Inv, NEW k \in Nat, OnPath(k),
         NEW x, x = Steps(request.route)[k + 1], x \notin Terminal,
         Go, request' = request, Passed(x)',
         session' = session \/ x = "session",
         headers \subseteq headers', done \subseteq done',
         done' \subseteq done \cup ({x} \cap Changing),
         k + 1 < 5 => session' = "none" /\ headers' \subseteq {"requestID", "securityHeaders"},
         inside' # {} => Named', CookiesSet'
  PROVE  Inv'
<1>1. request.route \in Routes /\ request \in Requests
  BY DEF Inv, Requests
<1>s. PICK s : s = Steps(request.route)
  OBVIOUS
<1>2. /\ k \in 0..(Len(s) - 1)
      /\ \A i \in 1..k : Passed(s[i])
      /\ \A c \in done : c \in Changing /\ \E i \in 1..k : s[i] = c
      /\ answers = <<>> /\ handling = 0 /\ failure = 0
  BY <1>s DEF OnPath
<1>3. /\ k + 1 \in 1..Len(s)
      /\ Tail(todo) \in Seq(MiddlewareSteps \cup HandlerSteps)
      /\ Len(Tail(todo)) = Len(s) - (k + 1)
      /\ \A i \in 1..Len(Tail(todo)) : Tail(todo)[i] = s[k + 1 + i]
      /\ s[k + 1] = "session" => k = 4
  BY <1>1, <1>s, NextOnPath
<1>4. /\ Len(s) \in Nat /\ Len(s) > 7
      /\ s[1] = "requestID" /\ s[2] = "securityHeaders" /\ s[3] = "bodyLimit"
      /\ s[4] = "sameOrigin" /\ s[5] = "session"
      /\ s[k + 1] \in Terminal <=> k + 1 = Len(s)
  <2>1. s \in Seq(MiddlewareSteps \cup HandlerSteps)
    BY <1>1, <1>s, StepsAreSound
  <2> QED
    BY <1>1, <1>3, <1>s, <2>1, StepsAreSound
<1>5. Steps(request.route)' = s
  BY <1>s DEF Steps
<1>6. x = s[k + 1]
  BY <1>s
<1>7. k + 1 \in 0..(Len(s) - 1)
  BY <1>2, <1>4, <1>6
<1>8. ASSUME NEW i \in 1..(k + 1)
      PROVE  Passed(s[i])'
  <2>1. CASE i = k + 1
    BY <2>1, <1>6
  <2>2. CASE i # k + 1
    <3>1. i \in 1..k /\ Passed(s[i])
      BY <2>2, <1>2
    <3>2. session' = session \/ s[i] # "user"
      <4>1. CASE x = "session"
        <5>1. k = 4
          BY <4>1, <1>3, <1>6
        <5>2. i = 1 \/ i = 2 \/ i = 3 \/ i = 4
          BY <5>1, <3>1
        <5> QED
          BY <5>2, <1>4
      <4> QED
        BY <4>1
    <3>3. Presented' = Presented /\ TooLong' = TooLong
      BY DEF Presented, TooLong
    <3> QED
      BY <3>1, <3>2, <3>3 DEF Passed
  <2> QED
    BY <2>1, <2>2
<1>9. \A c \in done' : c \in Changing /\ \E i \in 1..(k + 1) : s[i] = c
  <2> SUFFICES ASSUME NEW c \in done'
               PROVE  c \in Changing /\ \E i \in 1..(k + 1) : s[i] = c
    OBVIOUS
  <2>1. CASE c \in done
    <3>1. PICK i \in 1..k : s[i] = c /\ c \in Changing
      BY <2>1, <1>2
    <3>2. i \in 1..(k + 1)
      BY <3>1, <1>2
    <3> QED
      BY <3>1, <3>2
  <2>2. CASE c \notin done
    <3>1. c = s[k + 1] /\ c \in Changing /\ k + 1 \in 1..(k + 1)
      BY <2>2, <1>6
    <3> QED
      BY <3>1
  <2> QED
    BY <2>1, <2>2
<1>10. OnPath(k + 1)'
  <2>1. /\ todo' = Tail(todo) /\ answers' = <<>> /\ handling' = 0 /\ failure' = 0
    BY <1>2 DEF Go
  <2> QED
    BY <1>3, <1>5, <1>7, <1>8, <1>9, <2>1 DEF OnPath
<1>11. (\E j \in Nat : OnPath(j))'
  BY <1>10
<1>12. handling' \in 0..2
  BY <1>2 DEF Go
<1> QED
  BY <1>11, <1>12 DEF Inv

\* A step that fails settles the request.
LEMMA Fails ==
  ASSUME Inv, NEW k \in Nat, OnPath(k),
         NEW x, x = Steps(request.route)[k + 1],
         NEW status, Fail(status), Named,
         request' = request, headers' = headers, inside' = inside,
         session' = session \/ x = "session",
         done' = done \/ (x \in Changing /\ done' = done \cup {x}),
         status \in 400..499 => done' = done /\ x \notin AfterChange,
         CookiesSet'
  PROVE  Inv'
<1>a. /\ request \in Requests
      /\ request.route \in DOMAIN Handlers => request.unsafe = (request.route \in UnsafeRoutes)
  BY DEF Inv
<1>b. x = "session" => k = 4
  BY <1>a, NextOnPath
<1>1. /\ done # {} => Authorised /\ x \in AfterChange
      /\ x \in Changing => Authorised
      /\ k < 7 => done = {}
  BY <1>a, ChangesOnPath
<1>2. Named'
  BY DEF Named
<1>3. done' # {} => Authorised'
  <2>1. ASSUME done' # {}
        PROVE  session' = session /\ Authorised
    <3>1. x # "session"
      BY <1>1, <1>b, <2>1 DEF Changing
    <3> QED
      BY <1>1, <2>1, <3>1
  <2>2. Program(request.route)' = Program(request.route) /\ TooLong' = TooLong
    BY DEF Program, TooLong
  <2>3. Authorised /\ session' = session => Authorised'
    BY <2>2 DEF Authorised
  <2> QED
    BY <2>1, <2>3
<1>4. failure' \in 400..499 => done' = {}
  BY <1>1 DEF Fail
<1>5. todo' = <<>> /\ answers' = <<>> /\ handling' # 0 /\ handling' \in 0..2
  BY DEF Fail, OnPath
<1>6. Settled'
  BY <1>2, <1>3, <1>4, <1>5 DEF Settled
<1>7. inside' # {} => Named'
  BY <1>2
<1> QED
  BY <1>5, <1>6, <1>7 DEF Inv

\* A step that redirects to the login page does, too.
LEMMA Redirects ==
  ASSUME Inv, NEW k \in Nat, OnPath(k),
         NEW x, x = Steps(request.route)[k + 1],
         todo' = <<"redirect">>, UNCHANGED <<failure, handling, answers>>, Named,
         UNCHANGED <<request, session, headers, inside>>,
         done' = done \/ (x \in Changing /\ done' = done \cup {x}),
         CookiesSet'
  PROVE  Inv'
<1>1. done' # {} => Authorised
  BY ChangesOnPath DEF Inv
<1>2. Authorised => Authorised'
  BY DEF Authorised, Program, TooLong
<1>3. answers = <<>> /\ handling = 0 /\ failure = 0
  BY DEF OnPath
<1>4. Settled'
  BY <1>1, <1>2, <1>3 DEF Settled, Named
<1> QED
  BY <1>4 DEF Inv, Named

\* Which requests may take a step.
LEMMA WhoIsAt ==
  ASSUME Inv, NEW x, At(x)
  PROVE  \/ x = "streaming" /\ Settled /\ todo = <<"streaming">>
         \/ x = "redirect" /\ Settled /\ todo = <<"redirect">>
         \/ \E k \in Nat : OnPath(k) /\ x = Steps(request.route)[k + 1]
<1>1. ASSUME Settled
      PROVE  \/ x = "streaming" /\ todo = <<"streaming">>
             \/ x = "redirect" /\ todo = <<"redirect">>
  <2>1. /\ <<"streaming">> # <<>> /\ Head(<<"streaming">>) = "streaming"
        /\ <<"redirect">> # <<>> /\ Head(<<"redirect">>) = "redirect"
    OBVIOUS
  <2>2. todo # <<>> /\ Head(todo) = x
    BY DEF At
  <2>3. todo = <<>> \/ todo = <<"streaming">> \/ todo = <<"redirect">>
    BY <1>1 DEF Settled
  <2> QED
    BY <2>1, <2>2, <2>3
<1>2. ASSUME NEW k \in Nat, OnPath(k)
      PROVE  x = Steps(request.route)[k + 1]
  BY <1>2, NextOnPath DEF At, Inv
<1> QED
  BY <1>1, <1>2 DEF Inv

-----------------------------------------------------------------------------
(* The actions, one by one.                                                *)

\* The middlewares keep the invariant.
LEMMA MiddlewareStep ==
  ASSUME Inv, SetHeaders \/ LimitBody \/ SameOrigin \/ AuthenticateCookie \/ Enter
  PROVE  Inv'
<1>1. request \in Requests /\ CookiesSet /\ (inside # {} => Named)
      /\ (request.route \in DOMAIN Handlers => request.unsafe = (request.route \in UnsafeRoutes))
  BY DEF Inv
<1>2. ASSUME NEW x \in MiddlewareSteps, At(x)
      PROVE  \E k \in Nat :
               /\ OnPath(k) /\ x = Steps(request.route)[k + 1]
               /\ x \notin Terminal /\ x \notin Changing /\ x \notin AfterChange
               /\ x = "requestID" => k = 0
               /\ x = "securityHeaders" => k = 1
               /\ x = "session" => k = 4
               /\ x \in {"bodyLimit", "sameOrigin"} => k < 4
               /\ x \notin {"requestID", "securityHeaders"} => Named
  <2>1. /\ x \notin {"streaming", "redirect"}
        /\ x \notin Terminal /\ x \notin Changing /\ x \notin AfterChange
    BY DEF MiddlewareSteps, Terminal, Changing, AfterChange
  <2>2. PICK k \in Nat : OnPath(k) /\ x = Steps(request.route)[k + 1]
    BY <1>2, <2>1, WhoIsAt
  <2>3. k >= 2 => Named
    BY <1>1, <2>2, ChangesOnPath
  <2>4. x \notin {"requestID", "securityHeaders"} => k >= 2
    BY <1>1, <2>2, NextOnPath
  <2> QED
    BY <1>1, <2>1, <2>2, <2>3, <2>4, NextOnPath
<1>3. CASE SetHeaders
  <2>1. PICK x \in {"requestID", "securityHeaders"} :
          /\ At(x) /\ Go
          /\ headers' = headers \cup {x}
          /\ UNCHANGED <<request, inside, session, done>>
    BY <1>3 DEF SetHeaders
  <2>2. PICK k \in Nat : /\ OnPath(k) /\ x = Steps(request.route)[k + 1]
                         /\ x \notin Terminal /\ k < 2
    BY <1>2, <2>1 DEF MiddlewareSteps
  <2>3. Passed(x)'
    BY <2>1 DEF Passed
  <2>4. CookiesSet' /\ (inside' # {} => Named')
    BY <1>1, <2>1 DEF CookiesSet, Named
  <2>5. k + 1 < 5 => session' = "none" /\ headers' \subseteq {"requestID", "securityHeaders"}
    BY <2>1, <2>2 DEF OnPath
  <2> QED
    BY <2>1, <2>2, <2>3, <2>4, <2>5, Goes
<1>4. CASE LimitBody
  <2>1. PICK k \in Nat : /\ OnPath(k) /\ "bodyLimit" = Steps(request.route)[k + 1]
                         /\ "bodyLimit" \notin Terminal /\ "bodyLimit" \notin AfterChange
                         /\ k < 4 /\ Named
    BY <1>2, <1>4 DEF LimitBody, MiddlewareSteps
  <2>2. UNCHANGED <<request, inside, session, headers, done>>
    BY <1>4 DEF LimitBody
  <2>3. CookiesSet' /\ (inside' # {} => Named')
    BY <1>1, <2>2 DEF CookiesSet, Named
  <2>4. CASE Go
    <3>1. Passed("bodyLimit")'
      BY DEF Passed
    <3>2. k + 1 < 5 => session' = "none" /\ headers' \subseteq {"requestID", "securityHeaders"}
      BY <2>1, <2>2 DEF OnPath
    <3> QED
      BY <2>1, <2>2, <2>3, <2>4, <3>1, <3>2, Goes
  <2>5. CASE Fail(413)
    BY <2>1, <2>2, <2>3, <2>5, Fails
  <2> QED
    BY <1>4, <2>4, <2>5 DEF LimitBody
<1>5. CASE SameOrigin
  <2>1. PICK k \in Nat : /\ OnPath(k) /\ "sameOrigin" = Steps(request.route)[k + 1]
                         /\ "sameOrigin" \notin Terminal /\ "sameOrigin" \notin AfterChange
                         /\ k < 4 /\ Named
    BY <1>2, <1>5 DEF SameOrigin, MiddlewareSteps
  <2>2. UNCHANGED <<request, inside, session, headers, done>>
    BY <1>5 DEF SameOrigin
  <2>3. CookiesSet' /\ (inside' # {} => Named')
    BY <1>1, <2>2 DEF CookiesSet, Named
  <2>4. CASE ~(request.unsafe /\ Presented # "own") /\ Go
    <3>1. Passed("sameOrigin")'
      BY <2>2, <2>4 DEF Passed, Presented
    <3>2. k + 1 < 5 => session' = "none" /\ headers' \subseteq {"requestID", "securityHeaders"}
      BY <2>1, <2>2 DEF OnPath
    <3> QED
      BY <2>1, <2>2, <2>3, <2>4, <3>1, <3>2, Goes
  <2>5. CASE Fail(403)
    BY <2>1, <2>2, <2>3, <2>5, Fails
  <2> QED
    BY <1>5, <2>4, <2>5 DEF SameOrigin
<1>6. CASE AuthenticateCookie
  <2>1. PICK k \in Nat : /\ OnPath(k) /\ "session" = Steps(request.route)[k + 1]
                         /\ "session" \notin Terminal /\ "session" \notin Changing
                         /\ k = 4 /\ Named
    BY <1>2, <1>6 DEF AuthenticateCookie, MiddlewareSteps
  <2>2. UNCHANGED <<request, inside, done>>
    BY <1>6 DEF AuthenticateCookie
  <2>3. session = "none" /\ headers \subseteq {"requestID", "securityHeaders"}
    BY <2>1 DEF OnPath
  <2>4. ASSUME Go, headers \subseteq headers',
               \/ session' = session /\ headers' = headers
               \/ session' = "accepted" /\ headers' = headers
               \/ session' = "rejected" /\ headers' = headers \cup {"clearSession"}
        PROVE  Inv'
    <3>1. CookiesSet'
      BY <2>3, <2>4 DEF CookiesSet
    <3>2. inside' # {} => Named'
      BY <2>1, <2>4 DEF Named
    <3>3. Passed("session")'
      BY DEF Passed
    <3> QED
      BY <2>1, <2>2, <2>4, <3>1, <3>2, <3>3, Goes
  <2>5. ASSUME session' = "unknown", Fail(500), headers' = headers
        PROVE  Inv'
    <3>1. CookiesSet'
      BY <2>3, <2>5 DEF CookiesSet
    <3> QED
      BY <2>1, <2>2, <2>5, <3>1, Fails
  <2> QED
    BY <1>6, <2>4, <2>5 DEF AuthenticateCookie
<1>7. CASE Enter
  <2>1. PICK x \in {"accessLog", "recovery"} :
          /\ At(x) /\ Go
          /\ UNCHANGED <<request, session, headers, done>>
    BY <1>7 DEF Enter
  <2>2. PICK k \in Nat : /\ OnPath(k) /\ x = Steps(request.route)[k + 1]
                         /\ x \notin Terminal /\ Named
    BY <1>2, <2>1 DEF MiddlewareSteps
  <2>3. Passed(x)'
    BY <2>1 DEF Passed
  <2>4. CookiesSet' /\ (inside' # {} => Named')
    BY <1>1, <2>1, <2>2 DEF CookiesSet, Named
  <2>5. k + 1 < 5 => session' = "none" /\ headers' \subseteq {"requestID", "securityHeaders"}
    BY <2>1, <2>2 DEF OnPath
  <2> QED
    BY <2>1, <2>2, <2>3, <2>4, <2>5, Goes
<1> QED
  BY <1>3, <1>4, <1>5, <1>6, <1>7

\* Where a handler is: past its middlewares, with the headers set.
LEMMA HandlerAt ==
  ASSUME Inv, NEW x \in HandlerSteps, At(x), x # "redirect"
  PROVE  \E k \in Nat : /\ OnPath(k) /\ x = Steps(request.route)[k + 1]
                        /\ k >= 7 /\ Named
                        /\ answers = <<>> /\ handling = 0 /\ failure = 0
                        /\ done # {} => Authorised /\ x \in AfterChange
                        /\ x \in Changing => Authorised
<1>1. /\ request \in Requests
      /\ request.route \in DOMAIN Handlers => request.unsafe = (request.route \in UnsafeRoutes)
  BY DEF Inv
<1>2. x # "streaming"
  BY DEF HandlerSteps
<1>3. PICK k \in Nat : OnPath(k) /\ x = Steps(request.route)[k + 1]
  BY <1>2, WhoIsAt
<1>4. k >= 7
  BY <1>1, <1>3, NextOnPath
<1>5. /\ k >= 2 => Named
      /\ done # {} => Authorised /\ x \in AfterChange
      /\ x \in Changing => Authorised
  BY <1>1, <1>3, ChangesOnPath
<1>6. answers = <<>> /\ handling = 0 /\ failure = 0
  BY <1>3 DEF OnPath
<1> QED
  BY <1>3, <1>4, <1>5, <1>6

\* A step of a handler that may fail and otherwise only checks or answers what
\* the request brought keeps the invariant.
LEMMA CheckingStep ==
  ASSUME Inv, NEW x \in HandlerSteps \ (Terminal \cup AfterChange \cup Changing), At(x),
         UNCHANGED <<request, inside, session, headers, done>>,
         (Go /\ Passed(x)) \/ \E status : Fail(status)
  PROVE  Inv'
<1>1. x # "redirect"
  BY DEF Terminal
<1>2. PICK k \in Nat : OnPath(k) /\ x = Steps(request.route)[k + 1] /\ k >= 7 /\ Named
  BY <1>1, HandlerAt
<1>3. CookiesSet' /\ (inside' # {} => Named')
  BY DEF Inv, CookiesSet, Named
<1>4. CASE Go /\ Passed(x)
  <2>1. Passed(x)'
    BY <1>4 DEF Passed, Presented, TooLong
  <2>2. ~(k + 1 < 5)
    BY <1>2
  <2> QED
    BY <1>2, <1>3, <1>4, <2>1, <2>2, Goes
<1>5. ASSUME NEW status, Fail(status)
      PROVE  Inv'
  BY <1>2, <1>3, <1>5, Fails
<1> QED
  BY <1>4, <1>5

\* The checks of a handler keep the invariant.
LEMMA CheckStep ==
  ASSUME Inv,
         \/ CurrentUser \/ DecodeJSONRequest
         \/ CheckId \/ CheckQuery \/ CheckFields \/ CheckPresent \/ CheckReturnTo
  PROVE  Inv'
<1>1. {"user", "body", "id", "query", "fields", "present", "return_to"}
        \subseteq HandlerSteps \ (Terminal \cup AfterChange \cup Changing)
  BY DEF HandlerSteps, Terminal, AfterChange, Changing
<1>2. CASE CurrentUser
  <2>1. session = "accepted" => Passed("user")
    BY DEF Passed
  <2> QED
    BY <1>1, <1>2, <2>1, CheckingStep DEF CurrentUser
<1>3. CASE DecodeJSONRequest
  <2>1. ~TooLong => Passed("body")
    BY DEF Passed
  <2>2. \/ Go /\ Passed("body")
        \/ \E status : Fail(status)
    BY <1>3, <2>1 DEF DecodeJSONRequest
  <2> QED
    BY <1>1, <1>3, <2>2, CheckingStep DEF DecodeJSONRequest
<1>4. ASSUME NEW x \in {"id", "query", "fields", "present", "return_to"}, NEW status,
             Check(x, status)
      PROVE  Inv'
  <2>1. Passed(x)
    BY DEF Passed
  <2> QED
    BY <1>1, <1>4, <2>1, CheckingStep DEF Check
<1> QED
  BY <1>2, <1>3, <1>4 DEF CheckId, CheckQuery, CheckFields, CheckPresent, CheckReturnTo

\* The calls of the services.
LEMMA Services ==
  DOMAIN Refusals \subseteq
    HandlerSteps \ (Terminal \cup AfterChange \cup {"user", "body", "LoginWithDiscord"})
<1>1. DOMAIN Statuses(CatalogError, CatalogRefusals) =
        {"ListCategories", "CreateListing", "UpdateListing", "ChangeListingStatus",
         "ListOwnedListings", "GetListing", "SearchListings"}
  BY DEF Statuses, CatalogRefusals
<1>2. DOMAIN Statuses(SellerError, SellerRefusals) =
        {"UpdateProfile", "GetSellerProfile", "ListSellerListings"}
  BY DEF Statuses, SellerRefusals
<1>3. DOMAIN Statuses(ChatError, ChatRefusals) =
        {"StartConversation", "ListConversations", "ListMessages", "SendMessage",
         "MarkConversationRead"}
  BY DEF Statuses, ChatRefusals
<1> DEFINE others == [Logout |-> {}, Ping |-> {}, SubscribeStream |-> {}]
<1>4. DOMAIN others = {"Logout", "Ping", "SubscribeStream"}
  OBVIOUS
<1> HIDE DEF others
<1>5. /\ DOMAIN Joined(Statuses(CatalogError, CatalogRefusals),
                       Statuses(SellerError, SellerRefusals)) =
           DOMAIN Statuses(CatalogError, CatalogRefusals)
             \cup DOMAIN Statuses(SellerError, SellerRefusals)
      /\ DOMAIN Joined(Statuses(ChatError, ChatRefusals), others) =
           DOMAIN Statuses(ChatError, ChatRefusals) \cup DOMAIN others
  BY DomJoined
<1>6. DOMAIN Refusals =
        DOMAIN Joined(Statuses(CatalogError, CatalogRefusals),
                      Statuses(SellerError, SellerRefusals))
          \cup DOMAIN Joined(Statuses(ChatError, ChatRefusals), others)
  BY DomJoined DEF Refusals, others
<1> QED
  BY <1>1, <1>2, <1>3, <1>4, <1>5, <1>6 DEF HandlerSteps, Terminal, AfterChange

\* A call of a service keeps the invariant: what it changes is authorised, and
\* when it refuses, nothing was changed before.
LEMMA ServiceStep ==
  ASSUME Inv, CallService
  PROVE  Inv'
<1>1. PICK c \in DOMAIN Refusals :
        /\ At(c)
        /\ \/ Go /\ done' = done \cup ({c} \cap Changing)
           \/ (\E status \in Refusals[c] : Fail(status)) /\ UNCHANGED done
           \/ Fail(Failed(c)) /\ done' \in {done, done \cup ({c} \cap Changing)}
        /\ UNCHANGED <<request, inside, session, headers>>
  BY DEF CallService
<1>2. /\ c \in HandlerSteps /\ c \notin Terminal /\ c \notin AfterChange
      /\ c \notin {"user", "body", "LoginWithDiscord", "redirect"}
  BY Services DEF Terminal
<1>3. PICK k \in Nat : OnPath(k) /\ c = Steps(request.route)[k + 1] /\ k >= 7 /\ Named
  BY <1>1, <1>2, HandlerAt
<1>4. done \subseteq done'
  BY <1>1
<1>5. CookiesSet' /\ (inside' # {} => Named')
  BY <1>1, <1>4 DEF Inv, CookiesSet, Named
<1>6. CASE Go /\ done' = done \cup ({c} \cap Changing)
  <2>1. Passed(c)'
    <3>1. c \notin {"requestID", "securityHeaders", "sameOrigin"}
      BY <1>2 DEF HandlerSteps
    <3>2. c = "Logout" => c \in Changing
      BY DEF Changing
    <3> QED
      BY <1>2, <1>6, <3>1, <3>2 DEF Passed
  <2>2. ~(k + 1 < 5)
    BY <1>3
  <2> QED
    BY <1>1, <1>2, <1>3, <1>4, <1>5, <1>6, <2>1, <2>2, Goes
<1>7. ASSUME NEW status, Fail(status), UNCHANGED done
      PROVE  Inv'
  BY <1>1, <1>2, <1>3, <1>5, <1>7, Fails
<1>8. CASE Fail(Failed(c)) /\ done' \in {done, done \cup ({c} \cap Changing)}
  <2>1. Failed(c) \notin 400..499
    BY DEF Failed
  <2>2. done' = done \/ (c \in Changing /\ done' = done \cup {c})
    BY <1>8
  <2> QED
    BY <1>1, <1>3, <1>5, <1>8, <2>1, <2>2, Fails
<1> QED
  BY <1>1, <1>6, <1>7, <1>8

\* The sign-in keeps the invariant, redirects to the login page included.
LEMMA SignInStep ==
  ASSUME Inv, LoginWithDiscord \/ CheckSignIn
  PROVE  Inv'
<1>1. PICK x \in {"LoginWithDiscord", "AuthorizationURL", "state", "provider", "code"} :
        /\ At(x)
        /\ x = "LoginWithDiscord" => LoginWithDiscord
        /\ x # "LoginWithDiscord" => CheckSignIn
  BY DEF LoginWithDiscord, CheckSignIn
<1>2. /\ x \in HandlerSteps /\ x \notin Terminal /\ x \notin AfterChange /\ x # "redirect"
      /\ x = "LoginWithDiscord" <=> x \in Changing
  BY DEF HandlerSteps, Terminal, AfterChange, Changing
<1>3. PICK k \in Nat : OnPath(k) /\ x = Steps(request.route)[k + 1] /\ k >= 7 /\ Named
  BY <1>1, <1>2, HandlerAt
<1>4. /\ UNCHANGED <<request, inside, session, headers>>
      /\ done' = done \/ (x \in Changing /\ done' = done \cup {x})
      /\ \/ Go /\ (x = "LoginWithDiscord" => x \in done')
         \/ todo' = <<"redirect">> /\ UNCHANGED <<failure, handling, answers>>
  BY <1>1, <1>2 DEF LoginWithDiscord, CheckSignIn
<1>5. CookiesSet' /\ (inside' # {} => Named')
  BY <1>4 DEF Inv, CookiesSet, Named
<1>6. CASE Go /\ (x = "LoginWithDiscord" => x \in done')
  <2>1. Passed(x)'
    BY <1>6 DEF Passed
  <2>2. ~(k + 1 < 5)
    BY <1>3
  <2> QED
    BY <1>2, <1>3, <1>4, <1>5, <1>6, <2>1, <2>2, Goes
<1>7. CASE todo' = <<"redirect">> /\ UNCHANGED <<failure, handling, answers>>
  BY <1>3, <1>4, <1>5, <1>7, Redirects
<1> QED
  BY <1>4, <1>6, <1>7

\* A cookie that a handler sets or clears: the session's only after the sign-in
\* or the logout.
LEMMA CookieStep ==
  ASSUME Inv, SetCookie
  PROVE  Inv'
<1>1. PICK c \in {"clearState", "setState", "clearSession", "setSession"} :
        /\ At(c) /\ Go
        /\ headers' = headers \cup {c}
        /\ UNCHANGED <<request, inside, session, done>>
  BY DEF SetCookie
<1>2. c \in HandlerSteps /\ c \notin Terminal /\ c # "redirect"
  BY DEF HandlerSteps, Terminal
<1>3. PICK k \in Nat : OnPath(k) /\ c = Steps(request.route)[k + 1] /\ k >= 7 /\ Named
  BY <1>1, <1>2, HandlerAt
<1>4. PICK s : s = Steps(request.route)
  OBVIOUS
<1>5. request \in Requests /\ request.route \in Routes
  BY DEF Inv, Requests
<1>6. k + 1 \in 1..Len(s) /\ s[k + 1] = c
  BY <1>3, <1>4, <1>5, NextOnPath
<1>7. /\ c = "clearSession" => \E j \in 1..(k + 1) : s[j] = "Logout"
      /\ c = "setSession" => \E j \in 1..(k + 1) : s[j] = "LoginWithDiscord"
  BY <1>4, <1>5, <1>6, StepsAreSound
<1>8. \A i \in 1..k : Passed(s[i])
  BY <1>3, <1>4 DEF OnPath
<1>9. ASSUME NEW x \in {"Logout", "LoginWithDiscord"}, NEW j \in 1..(k + 1), s[j] = x
      PROVE  x \in done
  <2>1. j \in 1..k
    BY <1>6, <1>9
  <2> QED
    BY <2>1, <1>8, <1>9 DEF Passed
<1>10. /\ c = "clearSession" => "Logout" \in done
       /\ c = "setSession" => "LoginWithDiscord" \in done
  BY <1>7, <1>9
<1>11. CookiesSet' /\ Named'
  BY <1>1, <1>3, <1>10 DEF Inv, CookiesSet, Named
<1>12. Passed(c)'
  BY DEF Passed
<1>13. ~(k + 1 < 5)
  BY <1>3
<1> QED
  BY <1>1, <1>2, <1>3, <1>11, <1>12, <1>13, Goes

\* What a request was authorised to, it is while its session stands.
LEMMA AuthorisedStays ==
  ASSUME UNCHANGED <<request, session>>, Authorised
  PROVE  Authorised'
BY DEF Authorised, Program, TooLong

\* The statuses of these answers refuse nothing.
LEMMA NoRefusals ==
  \A status \in {200, 302, 500} : status \notin 400..499
OBVIOUS

\* What every step that writes the answer leaves.
LEMMA Writes ==
  ASSUME Inv, Named, answers = <<>>, done # {} => Authorised,
         failure \in 400..499 => done = {},
         NEW status \in {200, 302}, Write(status),
         UNCHANGED <<request, inside, session, headers, done>>,
         failure' = failure \/ failure' = 500,
         handling' \in 0..2,
         todo' = <<>> \/ todo' = <<"streaming">>
  PROVE  Inv'
<1>1. answers' = <<[status |-> status, headers |-> headers']>>
  BY DEF Write
<1>2. Answered'
  <2>1. status \in {200, 302, 500}
    OBVIOUS
  <2>2. status \notin 400..499
    BY <2>1, NoRefusals
  <2> QED
    BY <1>1, <2>2 DEF Answered
<1>3. Named' /\ CookiesSet'
  BY DEF Inv, Named, CookiesSet
<1>4. done' # {} => Authorised'
  BY AuthorisedStays
<1>5. failure' \in 400..499 => done' = {}
  <2>1. failure' = failure => (failure' \in 400..499 => done' = {})
    BY Zenon
  <2>2. failure' = 500 => failure' \notin 400..499
    <3>1. 500 \in {200, 302, 500}
      OBVIOUS
    <3> QED
      BY <3>1, NoRefusals
  <2> QED
    BY <2>1, <2>2, Zenon
<1>6. Settled'
  BY <1>2, <1>3, <1>4, <1>5 DEF Settled
<1> QED
  BY <1>3, <1>6 DEF Inv

\* The last steps of a handler keep the invariant.
LEMMA LastStep ==
  ASSUME Inv, Serve \/ MethodNotAllowed \/ Answer \/ Stream \/ StreamEnds
  PROVE  Inv'
<1>1. /\ {"serve", "methodNotAllowed", "answer", "redirect", "stream"} \subseteq HandlerSteps
      /\ {"serve", "methodNotAllowed"} \cap (AfterChange \cup Changing) = {}
  BY DEF HandlerSteps, AfterChange, Changing
<1>2. CookiesSet /\ handling \in 0..2
  BY DEF Inv
<1>3. CASE Serve
  <2>1. PICK k \in Nat : /\ OnPath(k) /\ "serve" = Steps(request.route)[k + 1] /\ Named
                         /\ answers = <<>> /\ handling = 0 /\ failure = 0
                         /\ done # {} => Authorised
    BY <1>1, <1>3, HandlerAt DEF Serve
  <2>2. CookiesSet'
    BY <1>2, <1>3 DEF Serve, CookiesSet
  <2>3. CASE Fail(404)
    BY <1>1, <1>3, <2>1, <2>2, <2>3, Fails DEF Serve
  <2>4. CASE Write(200) /\ todo' = <<>> /\ UNCHANGED <<failure, handling>>
    BY <1>2, <1>3, <2>1, <2>4, Writes DEF Serve
  <2> QED
    BY <1>3, <2>3, <2>4 DEF Serve
<1>4. CASE MethodNotAllowed
  <2>1. PICK k \in Nat : /\ OnPath(k) /\ "methodNotAllowed" = Steps(request.route)[k + 1]
                         /\ Named /\ answers = <<>> /\ handling = 0 /\ failure = 0
                         /\ done # {} => Authorised
    BY <1>1, <1>4, HandlerAt DEF MethodNotAllowed
  <2>2. CookiesSet'
    BY <1>2, <1>4 DEF MethodNotAllowed, CookiesSet
  <2>3. CASE Fail(405)
    BY <1>1, <1>4, <2>1, <2>2, <2>3, Fails DEF MethodNotAllowed
  <2>4. CASE Write(200) /\ todo' = <<>> /\ UNCHANGED <<failure, handling>>
    BY <1>2, <1>4, <2>1, <2>4, Writes DEF MethodNotAllowed
  <2> QED
    BY <1>4, <2>3, <2>4 DEF MethodNotAllowed
<1>5. CASE Answer
  <2>1. PICK x \in {"answer", "redirect"}, status \in {200, 302} :
          /\ At(x) /\ Write(status)
    BY <1>5 DEF Answer
  <2>2. /\ Named /\ answers = <<>> /\ (failure \in 400..499 => done = {})
        /\ done # {} => Authorised
    <3>1. CASE Settled /\ todo = <<"redirect">>
      <4>1. answers = <<>>
        BY <3>1 DEF Settled
      <4>2. Named /\ (done # {} => Authorised)
        BY <3>1 DEF Settled
      <4>3. failure \in 400..499 => done = {}
        BY <3>1 DEF Settled
      <4> QED
        BY <4>1, <4>2, <4>3
    <3>2. ASSUME NEW k \in Nat, OnPath(k), x = Steps(request.route)[k + 1]
          PROVE  /\ Named /\ answers = <<>> /\ (failure \in 400..499 => done = {})
                 /\ done # {} => Authorised
      <4>1. answers = <<>> /\ failure = 0
        BY <3>2 DEF OnPath
      <4>2. /\ request \in Requests
            /\ request.route \in DOMAIN Handlers =>
                 request.unsafe = (request.route \in UnsafeRoutes)
        BY DEF Inv
      <4>3. k >= 7
        BY <3>2, <4>2, <1>1, NextOnPath
      <4>4. (k >= 2 => Named) /\ (done # {} => Authorised)
        BY <3>2, <4>2, ChangesOnPath
      <4> QED
        BY <4>1, <4>3, <4>4
    <3> QED
      BY <2>1, <3>1, <3>2, WhoIsAt
  <2>3. /\ UNCHANGED <<request, inside, session, headers, done>>
        /\ failure' = failure \/ failure' = 500
        /\ handling' \in 0..2 /\ todo' = <<>>
    BY <1>2, <1>5 DEF Answer
  <2> QED
    BY <2>1, <2>2, <2>3, Writes
<1>6. CASE Stream
  <2>1. /\ Named /\ answers = <<>> /\ failure = 0
        /\ done # {} => Authorised
    BY <1>1, <1>6, HandlerAt DEF Stream
  <2> QED
    BY <1>2, <1>6, <2>1, Writes DEF Stream
<1>7. CASE StreamEnds
  <2>1. Settled /\ todo = <<"streaming">>
    <3>1. At("streaming")
      BY <1>7 DEF StreamEnds
    <3>2. ~ \E k \in Nat : OnPath(k) /\ "streaming" = Steps(request.route)[k + 1]
      BY NextOnPath DEF Inv
    <3> QED
      BY <3>1, <3>2, WhoIsAt
  <2>2. Answered /\ Named /\ (done # {} => Authorised) /\ (failure \in 400..499 => done = {})
    BY <2>1 DEF Settled
  <2>3. todo' = <<>> /\ UNCHANGED <<failure, handling, answers>>
    BY <1>7, <2>1 DEF StreamEnds, Go
  <2>4. UNCHANGED <<request, inside, session, headers, done>>
    BY <1>7 DEF StreamEnds
  <2>5. Answered' /\ Named' /\ (done' # {} => Authorised')
    BY <2>2, <2>3, <2>4, AuthorisedStays DEF Answered, Named
  <2>6. Settled'
    BY <2>2, <2>3, <2>4, <2>5 DEF Settled
  <2> QED
    BY <2>3, <2>4, <2>5, <2>6 DEF Inv, CookiesSet
<1> QED
  BY <1>3, <1>4, <1>5, <1>6, <1>7

\* A panic keeps the invariant: before the answer as an error on its way up,
\* after it as one that nothing is written for.
LEMMA RecoverStep ==
  ASSUME Inv, Recover
  PROVE  Inv'
<1>1. /\ Named /\ Fail(500) /\ todo # <<>>
      /\ UNCHANGED <<request, inside, session, headers, done>>
  BY DEF Inv, Recover
<1>2. CookiesSet'
  BY <1>1 DEF Inv, CookiesSet
<1>3. CASE Settled
  <2>1. Answered \/ answers = <<>>
    BY <1>3 DEF Settled
  <2>2. /\ todo' = <<>> /\ failure' = 500 /\ handling' \in 1..2 /\ answers' = answers
    BY <1>1 DEF Fail
  <2>3. Answered' \/ answers' = <<>>
    BY <2>1, <2>2, <1>1 DEF Answered
  <2>4. Named' /\ (done' # {} => Authorised')
    BY <1>1, <1>3, AuthorisedStays DEF Settled, Named
  <2>5. handling' # 0 /\ ~(failure' \in 400..499)
    BY <2>2
  <2>6. Settled'
    BY <2>2, <2>3, <2>4, <2>5 DEF Settled
  <2> QED
    BY <1>1, <1>2, <2>2, <2>4, <2>6 DEF Inv
<1>4. ASSUME NEW k \in Nat, OnPath(k)
      PROVE  Inv'
  <2>1. 500 \notin 400..499
    BY NoRefusals, Zenon
  <2> QED
    BY <2>1, <1>1, <1>2, <1>4, Fails
<1> QED
  BY <1>3, <1>4 DEF Inv

\* The error handler keeps the invariant: it answers what is not answered yet.
LEMMA HandleErrorStep ==
  ASSUME Inv, HandleError
  PROVE  Inv'
<1>1. /\ handling # 0 /\ handling' \in 0..2
      /\ UNCHANGED <<request, todo, inside, session, headers, done, failure>>
  BY DEF Inv, HandleError
<1>2. Settled
  BY <1>1 DEF Inv, OnPath
<1>3. Answered \/ answers = <<>>
  BY <1>2 DEF Settled
<1>4. todo = <<>> \/ (todo = <<"streaming">> /\ Answered)
  BY <1>1, <1>2 DEF Settled
<1>5. Answered'
  <2>1. CASE answers = <<>>
    <3>1. answers' = <<[status |-> failure, headers |-> headers']>>
      BY <1>1, <2>1 DEF HandleError, Write
    <3>2. failure \in 400..499 => done' = {}
      BY <1>1, <1>2 DEF Settled
    <3> QED
      BY <3>1, <3>2 DEF Answered
  <2>2. CASE answers # <<>>
    BY <1>1, <1>3, <2>2 DEF HandleError, Answered
  <2> QED
    BY <2>1, <2>2
<1>6. Named' /\ (done' # {} => Authorised') /\ (failure' \in 400..499 => done' = {})
  BY <1>1, <1>2, AuthorisedStays DEF Settled, Named
<1>7. Settled'
  BY <1>1, <1>4, <1>5, <1>6 DEF Settled
<1> QED
  BY <1>1, <1>6, <1>7 DEF Inv, CookiesSet

-----------------------------------------------------------------------------
(* The theorems.                                                           *)

LEMMA InvInit == Init => Inv
<1> SUFFICES ASSUME Init PROVE Inv
  OBVIOUS
<1>1. /\ request \in Requests
      /\ request.route \in DOMAIN Handlers => request.unsafe = (request.route \in UnsafeRoutes)
  BY DEF Init
<1>2. request.route \in Routes
  BY <1>1 DEF Requests
<1>3. PICK s : s = Steps(request.route)
  OBVIOUS
<1>4. s \in Seq(MiddlewareSteps \cup HandlerSteps) /\ Len(s) \in Nat /\ Len(s) > 7
  BY <1>2, <1>3, StepsAreSound
<1>5. todo = s
  BY <1>3 DEF Init, Steps
<1>6. /\ session = "none" /\ headers = {} /\ done = {} /\ failure = 0 /\ handling = 0
      /\ answers = <<>> /\ inside = {}
  BY DEF Init
<1>7. OnPath(0)
  <2>1. 0 \in 0..(Len(s) - 1) /\ Len(todo) = Len(s) - 0
    BY <1>4, <1>5
  <2>2. \A i \in 1..Len(todo) : todo[i] = s[0 + i]
    BY <1>4, <1>5
  <2> QED
    BY <1>3, <1>4, <1>5, <1>6, <2>1, <2>2 DEF OnPath
<1>8. CookiesSet /\ handling \in 0..2
  BY <1>6 DEF CookiesSet
<1> QED
  BY <1>1, <1>6, <1>7, <1>8 DEF Inv

LEMMA InvStep == Inv /\ [Next]_vars => Inv'
<1> SUFFICES ASSUME Inv, [Next]_vars PROVE Inv'
  OBVIOUS
<1>1. CASE UNCHANGED vars
  <2>1. UNCHANGED <<request, todo, inside, session, headers, done, failure, handling, answers>>
    BY <1>1 DEF vars
  <2>2. Settled => Settled'
    BY <2>1, AuthorisedStays DEF Settled, Answered, Named
  <2>3. \A k \in Nat : OnPath(k) => OnPath(k)'
    BY <2>1 DEF OnPath, Steps, Program, Passed, Presented, TooLong
  <2>4. CookiesSet' /\ (inside' # {} => Named')
    BY <2>1 DEF Inv, CookiesSet, Named
  <2> QED
    BY <2>1, <2>2, <2>3, <2>4 DEF Inv
<1>2. CASE SetHeaders \/ LimitBody \/ SameOrigin \/ AuthenticateCookie \/ Enter
  BY <1>2, MiddlewareStep
<1>3. CASE \/ CurrentUser \/ DecodeJSONRequest
           \/ CheckId \/ CheckQuery \/ CheckFields \/ CheckPresent \/ CheckReturnTo
  BY <1>3, CheckStep
<1>4. CASE CallService
  BY <1>4, ServiceStep
<1>5. CASE LoginWithDiscord \/ CheckSignIn
  BY <1>5, SignInStep
<1>6. CASE SetCookie
  BY <1>6, CookieStep
<1>7. CASE Serve \/ MethodNotAllowed \/ Answer \/ Stream \/ StreamEnds
  BY <1>7, LastStep
<1>8. CASE Recover
  BY <1>8, RecoverStep
<1>9. CASE HandleError
  BY <1>9, HandleErrorStep
<1>10. CASE Over
  BY <1>1, <1>10 DEF Over
<1> QED
  BY <1>1, <1>2, <1>3, <1>4, <1>5, <1>6, <1>7, <1>8, <1>9, <1>10 DEF Next

\* A request on its path has no answer and changed what it was authorised to;
\* one that has left it is answered or about to be, with the headers set.
THEOREM RequestsStayOnPath == Spec => []Inv
<1> QED
  BY InvInit, InvStep, PTL DEF Spec

\* One answer per request, although the error handler is called twice for some
\* errors and once for some that come after the answer: on the path there is
\* none, and whoever leaves it has one or an error that still has to be
\* handled.
THEOREM EveryRequestIsAnsweredOnce == Spec => []OneAnswer
<1>1. Inv => OneAnswer
  <2> SUFFICES ASSUME Inv PROVE OneAnswer
    OBVIOUS
  <2>1. CASE Settled
    <3>1. Answered => Len(answers) = 1
      BY DEF Answered
    <3>2. answers = <<>> => Len(answers) = 0
      OBVIOUS
    <3>3. todo = <<>> /\ handling = 0 => Answered
      <4>1. <<"streaming">> # <<>> /\ <<"redirect">> # <<>>
        OBVIOUS
      <4> QED
        BY <2>1, <4>1 DEF Settled
    <3>4. Answered \/ answers = <<>>
      BY <2>1 DEF Settled
    <3>5. Len(answers) = 0 \/ Len(answers) = 1
      BY <3>1, <3>2, <3>4
    <3>6. Len(answers) <= 1
      BY <3>5
    <3> QED
      BY <3>1, <3>3, <3>6 DEF OneAnswer
  <2>2. ASSUME NEW k \in Nat, OnPath(k)
        PROVE  OneAnswer
    <3>1. todo # <<>>
      BY <2>2, NextOnPath DEF Inv
    <3>2. Len(answers) = 0
      BY <2>2 DEF OnPath
    <3> QED
      BY <3>1, <3>2 DEF OneAnswer
  <2> QED
    BY <2>1, <2>2 DEF Inv
<1> QED
  BY <1>1, RequestsStayOnPath, PTL

\* The answers of a request, from the invariant.
LEMMA AnswersOf ==
  ASSUME Inv, NEW a \in ToSet(answers)
  PROVE  /\ a.headers = headers /\ (a.status \in 400..499 => done = {})
         /\ Named /\ CookiesSet
<1>1. answers # <<>>
  BY DEF ToSet
<1>2. Settled
  BY <1>1 DEF Inv, OnPath
<1>3. PICK status : /\ answers = <<[status |-> status, headers |-> headers]>>
                    /\ status \in 400..499 => done = {}
  BY <1>1, <1>2 DEF Settled, Answered
<1>4. a = [status |-> status, headers |-> headers]
  BY <1>3 DEF ToSet
<1> QED
  BY <1>2, <1>3, <1>4 DEF Settled, Inv

\* A request that is refused has changed nothing: once something is changed,
\* only steps are left that refuse nothing.
THEOREM RefusalsChangeNothing == Spec => []RefusedChangesNothing
<1>1. Inv => RefusedChangesNothing
  BY AnswersOf DEF RefusedChangesNothing
<1> QED
  BY <1>1, RequestsStayOnPath, PTL

\* Whatever changes was authorised by the steps before: the origin, the
\* session and the length of the body, on every route there is.
THEOREM ChangesAreAuthorisedBefore == Spec => []ChangesAreAuthorised
<1>1. Inv => ChangesAreAuthorised
  <2> SUFFICES ASSUME Inv, done # {} PROVE Authorised
    BY DEF ChangesAreAuthorised, Authorised
  <2>1. CASE Settled
    BY <2>1 DEF Settled
  <2>2. ASSUME NEW k \in Nat, OnPath(k)
        PROVE  Authorised
    BY <2>2, ChangesOnPath DEF Inv
  <2> QED
    BY <2>1, <2>2 DEF Inv
<1> QED
  BY <1>1, RequestsStayOnPath, PTL

\* No answer leaves without the name of the request and the security headers:
\* nothing fails before they are set.
THEOREM EveryAnswerNamesTheRequest == Spec => []AnswersNameTheRequest
<1>1. Inv => AnswersNameTheRequest
  BY AnswersOf DEF AnswersNameTheRequest, Named
<1> QED
  BY <1>1, RequestsStayOnPath, PTL

\* The session cookie of an answer follows what became of the session.
THEOREM CookiesFollowSessions == Spec => []CookieFollowsSession
<1>1. Inv => CookieFollowsSession
  BY AnswersOf DEF CookieFollowsSession, CookiesSet
<1> QED
  BY <1>1, RequestsStayOnPath, PTL

=============================================================================
