------------------------------ MODULE Sessions ------------------------------
(***************************************************************************)
(* Sign-in with Discord, sessions and their cookies:                       *)
(* internal/adapter/httpapi/auth.go, internal/app/auth.go,                 *)
(* internal/adapter/postgres/auth.go and db/queries/auth.sql.              *)
(*                                                                         *)
(* A flow is one sign-in, from GET /auth/discord to the answer of its      *)
(* callback.  Its state value, its session token and the id of a user row  *)
(* it inserts are all fresh, and the flow itself stands for each.          *)
(*                                                                         *)
(* The login is a transaction at READ COMMITTED.  An INSERT that conflicts *)
(* with a row another transaction has not committed waits for it, and so   *)
(* does a statement for a row another has updated or deleted.  Answers     *)
(* reach the browser in any order, or not at all.                          *)
(*                                                                         *)
(* Discord names, avatars and last_seen_at are left out; so is a database  *)
(* error before the transaction begins, which changes nothing.             *)
(***************************************************************************)
EXTENDS Handles

CONSTANTS
  Discord,      \* Discord accounts
  Names,        \* Discord usernames, which their owners may change
  MaxAttempts,  \* maximumHandleAttempts
  Browsers,     \* browsers, each with its cookies
  Flows,        \* sign-ins
  Earlier,      \* sign-ins of before, each the first of an account; their
                \* sessions are over
  Registered,   \* the Discord account and the handle of each of those
  Calls,        \* other requests that carry a session cookie
  NoFlow        \* an absent cookie, token or user

ASSUME MaxAttemptsAssumption == MaxAttempts \in Nat \ {0}
ASSUME NamesAssumption == Names \subseteq Seq(STRING)
ASSUME EarlierAssumption ==
  /\ Earlier \cap Flows = {}
  /\ Registered \in [Earlier -> [discord : Discord, handle : Seq(STRING)]]
  /\ \A e, g \in Earlier :
       (Registered[e].discord = Registered[g].discord
          \/ Registered[e].handle = Registered[g].handle) => e = g
ASSUME NoFlowAssumption == NoFlow \notin Flows \cup Earlier

VARIABLES
  users,     \* committed rows of table users
  sessions,  \* committed rows of table sessions
  expired,   \* the tokens whose thirty days are over
  flow,      \* step and values of each sign-in
  call,      \* step and values of each other request
  oauth,     \* each browser's OAuth state cookie
  cookie     \* each browser's session cookie

dbVars == <<users, sessions, expired>>
sessionVars == <<dbVars, flow, call, oauth, cookie>>

\* The candidates of a login: AuthService normalises, AuthStore counts.
Candidate == [name \in Names |->
  [n \in 1..MaxAttempts |-> HandleCandidate(NormalizeHandle(name), n)]]

SignIns == Flows \cup Earlier
User == [id : SignIns, discord : Discord, handle : Seq(STRING), disabled : BOOLEAN]
Session == [token : Flows, user : SignIns]
Tokens == Flows \cup {NoFlow}

Steps == {"away", "finding", "updating", "inserting", "rotating", "committing",
          "answering", "over"}
Outcomes == {"none", "signed in", "failed", "refused", "disabled", "exhausted"}
FlowState ==
  [step : Steps, outcome : Outcomes, browser : Browsers, discord : Discord,
   name : Names, previous : Tokens, stale : BOOLEAN, attempt : 1..MaxAttempts,
   user : SignIns \cup {NoFlow}]
CallState ==
  [step : {"sent", "served", "refused", "over"}, logout : BOOLEAN,
   browser : Browsers, token : Flows, user : SignIns \cup {NoFlow}]

Idle == [step |-> "idle"]

SessionsInit ==
  /\ users = {[id |-> e, discord |-> Registered[e].discord,
                handle |-> Registered[e].handle, disabled |-> FALSE] : e \in Earlier}
  /\ sessions = {}
  /\ expired = {}
  /\ flow = [f \in Flows |-> Idle]
  /\ call = [c \in Calls |-> Idle]
  /\ oauth = [b \in Browsers |-> NoFlow]
  /\ cookie = [b \in Browsers |-> NoFlow]

-----------------------------------------------------------------------------
Live(t) == t \notin expired /\ \E s \in sessions : s.token = t

\* Live, and of an account that is not disabled: what Authenticate accepts.
Accepted(t) ==
  /\ t \notin expired
  /\ \E s \in sessions, u \in users : s.token = t /\ u.id = s.user /\ ~u.disabled

Account(d) == {u \in users : u.discord = d}
Handle(f) == Candidate[flow[f].name][flow[f].attempt]

\* The flows whose transaction has written rows and has not ended.
Writing == {f \in Flows : flow[f].step \in {"rotating", "committing"}}

UserLocked(f) == \E g \in Writing \ {f} : flow[g].user = flow[f].user
TokenLocked(t) ==
  \E g \in Flows : flow[g].step = "committing" /\ flow[g].previous = t /\ t # NoFlow

\* An uncommitted row with the discord_id or the handle f wants to insert.
InsertBlocked(f) ==
  \E g \in Writing \ {f} :
    flow[g].user = g /\ (flow[g].discord = flow[f].discord \/ Handle(g) = Handle(f))

\* Mutant: the unique constraint on discord_id is missing.
HandleTaken(f) == \E u \in users : u.handle = Handle(f)

\* A committed row violates users_discord_id_key or users_handle_lower_key.
InsertConflicts(f) == \E u \in users : u.discord = flow[f].discord \/ u.handle = Handle(f)

Step(f, from, to) ==
  /\ flow[f].step = from
  /\ flow' = [flow EXCEPT ![f].step = to]

End(f, outcome) == flow' = [flow EXCEPT ![f].step = "answering", ![f].outcome = outcome]

-----------------------------------------------------------------------------
(* The callback up to the transaction                                      *)

\* The redirect to Discord sets the state cookie over an earlier one's.
StartDiscord(f, b, d, name) ==
  /\ flow[f] = Idle
  /\ flow' = [flow EXCEPT ![f] =
       [step |-> "away", outcome |-> "none", browser |-> b, discord |-> d,
        name |-> name, previous |-> NoFlow, stale |-> FALSE, attempt |-> 1, user |-> NoFlow]]
  /\ oauth' = [oauth EXCEPT ![b] = f]
  /\ UNCHANGED <<dbVars, call, cookie>>

\* The session middleware notes whether the cookie the request carries is to
\* be cleared; then the state cookie must match and Discord must know the code.
DiscordCallback(f) ==
  LET b == flow[f].browser
      arrived == [flow[f] EXCEPT !.previous = cookie[b],
                                 !.stale = cookie[b] # NoFlow /\ ~Accepted(cookie[b])]
  IN
  /\ flow[f].step = "away"
  /\ ~TokenLocked(cookie[b])
  /\ \/ /\ oauth[b] = f
        /\ flow' = [flow EXCEPT ![f] = [arrived EXCEPT !.step = "finding"]]
     \/ flow' = [flow EXCEPT ![f] =
                   [arrived EXCEPT !.step = "answering", !.outcome = "refused"]]
  /\ UNCHANGED <<dbVars, call, oauth, cookie>>

-----------------------------------------------------------------------------
(* AuthStore.Login and loginAttempt                                        *)

\* Mutant: the account is looked up by its name.
GetUserByHandle(f) ==
  /\ flow[f].step = "finding"
  /\ IF \A u \in users : u.handle # Handle(f) THEN Step(f, "finding", "inserting")
     ELSE \E u \in users :
            /\ u.handle = Handle(f)
            /\ IF u.disabled THEN End(f, "disabled")
               ELSE flow' = [flow EXCEPT ![f].step = "updating", ![f].user = u.id]
  /\ UNCHANGED <<dbVars, call, oauth, cookie>>

\* BEGIN and GetUserByDiscordID.
GetUserByDiscordID(f) ==
  /\ flow[f].step = "finding"
  /\ IF Account(flow[f].discord) = {} THEN Step(f, "finding", "inserting")
     ELSE \E u \in Account(flow[f].discord) :
            IF u.disabled THEN End(f, "disabled")
            ELSE flow' = [flow EXCEPT ![f].step = "updating", ![f].user = u.id]
  /\ UNCHANGED <<dbVars, call, oauth, cookie>>

\* Sets the Discord columns and updated_at, and does not look at the status.
UpdateDiscordIdentity(f) ==
  /\ Step(f, "updating", "rotating")
  /\ ~UserLocked(f)
  /\ UNCHANGED <<dbVars, call, oauth, cookie>>

\* Mutant: the next attempt tries the same handle again.
RetrySameHandle(f) == flow' = [flow EXCEPT ![f].step = "finding"]

\* Mutant: the next attempt does not look for the account again.
RetryInsertOnly(f) ==
  IF flow[f].attempt < MaxAttempts
    THEN flow' = [flow EXCEPT ![f].step = "inserting", ![f].attempt = @ + 1]
    ELSE End(f, "exhausted")

\* isRetryableUserConflict: the transaction is rolled back, the next begins.
Retry(f) ==
  IF flow[f].attempt < MaxAttempts
    THEN flow' = [flow EXCEPT ![f].step = "finding", ![f].attempt = @ + 1]
    ELSE End(f, "exhausted")

\* Mutant: the row is inserted outside of the transaction.
CreateUserAtOnce(f) ==
  /\ flow[f].step = "inserting"
  /\ ~InsertBlocked(f)
  /\ IF InsertConflicts(f) THEN Retry(f) /\ UNCHANGED users
     ELSE /\ flow' = [flow EXCEPT ![f].step = "rotating", ![f].user = f]
          /\ users' = users \cup {[id |-> f, discord |-> flow[f].discord,
                                   handle |-> Handle(f), disabled |-> FALSE]}
  /\ UNCHANGED <<sessions, expired, call, oauth, cookie>>

CreateUser(f) ==
  /\ flow[f].step = "inserting"
  /\ ~InsertBlocked(f)
  /\ IF InsertConflicts(f) THEN Retry(f)
     ELSE flow' = [flow EXCEPT ![f].step = "rotating", ![f].user = f]
  /\ UNCHANGED <<dbVars, call, oauth, cookie>>

\* Mutant: the previous session is deleted outside of the transaction.
DeleteSessionAtOnce(f) ==
  /\ Step(f, "rotating", "committing")
  /\ ~TokenLocked(flow[f].previous)
  /\ sessions' = {s \in sessions : s.token # flow[f].previous}
  /\ UNCHANGED <<users, expired, call, oauth, cookie>>

\* DeleteSessionByHash of the previous token, then CreateSession, which waits
\* for nobody: neither shows before the COMMIT.
ReplaceSession(f) ==
  /\ Step(f, "rotating", "committing")
  /\ ~TokenLocked(flow[f].previous)
  /\ UNCHANGED <<dbVars, call, oauth, cookie>>

\* The acknowledgement may be lost: the login then fails although it happened.
Commit(f) ==
  /\ flow[f].step = "committing"
  /\ users' = users \cup
       IF flow[f].user = f
         THEN {[id |-> f, discord |-> flow[f].discord, handle |-> Handle(f), disabled |-> FALSE]}
         ELSE {}
  /\ sessions' = {s \in sessions : s.token # flow[f].previous}
                 \cup {[token |-> f, user |-> flow[f].user]}
  /\ End(f, "signed in") \/ End(f, "failed")
  /\ UNCHANGED <<expired, call, oauth, cookie>>

\* A statement fails or the request is cancelled: the deferred Rollback.
Abort(f) ==
  /\ flow[f].step \in {"finding", "updating", "inserting", "rotating", "committing"}
  /\ End(f, "failed")
  /\ UNCHANGED <<dbVars, call, oauth, cookie>>

\* The answer reaches the browser, or is lost.  It always clears the state
\* cookie; it sets the session cookie after a success, and otherwise clears
\* the one the middleware found stale.
CallbackAnswered(f) ==
  LET b == flow[f].browser IN
  /\ Step(f, "answering", "over")
  /\ \/ /\ oauth' = [oauth EXCEPT ![b] = NoFlow]
        /\ cookie' = [cookie EXCEPT ![b] =
             IF flow[f].outcome = "signed in" THEN f
             ELSE IF flow[f].stale THEN NoFlow ELSE @]
     \/ UNCHANGED <<oauth, cookie>>
  /\ UNCHANGED <<dbVars, call>>

-----------------------------------------------------------------------------
(* Requests with a session cookie                                          *)

\* A logout that cannot delete its session, or whose lookup of it fails, is
\* counted with the other requests: it changes nothing, and what its answer
\* does to the cookie is what the middleware found.
Request(c, b, logout) ==
  /\ call[c] = Idle /\ cookie[b] # NoFlow
  /\ call' = [call EXCEPT ![c] =
       [step |-> "sent", logout |-> logout, browser |-> b, token |-> cookie[b], user |-> NoFlow]]
  /\ UNCHANGED <<dbVars, flow, oauth, cookie>>

\* Mutant: the cookie is cleared on a database error too.
AuthenticateOrRefuse(c) ==
  /\ call[c].step = "sent" /\ ~call[c].logout
  /\ call' = [call EXCEPT ![c].step = "refused"]
  /\ UNCHANGED <<dbVars, flow, oauth, cookie>>

\* sessionMiddleware: the request goes on with the user the statement
\* returned, or without one and with the cookie to be cleared.
Authenticate(c) ==
  /\ call[c].step = "sent" /\ ~call[c].logout
  /\ ~TokenLocked(call[c].token)
  /\ IF Accepted(call[c].token)
       THEN \E s \in sessions :
              /\ s.token = call[c].token
              /\ call' = [call EXCEPT ![c].step = "served", ![c].user = s.user]
       ELSE call' = [call EXCEPT ![c].step = "refused"]
  /\ UNCHANGED <<dbVars, flow, oauth, cookie>>

\* Mutant: the session stays in the database.
ForgetCookieOnly(c) ==
  /\ call[c].step = "sent" /\ call[c].logout
  /\ call' = [call EXCEPT ![c].step = "refused"]
  /\ UNCHANGED <<dbVars, flow, oauth, cookie>>

\* Whatever the middleware found, the session of the token is deleted and the
\* cookie cleared; a session that is gone already is no error.
Logout(c) ==
  /\ call[c].step = "sent" /\ call[c].logout
  /\ ~TokenLocked(call[c].token)
  /\ sessions' = {s \in sessions : s.token # call[c].token}
  /\ call' = [call EXCEPT ![c].step = "refused"]
  /\ UNCHANGED <<users, expired, flow, oauth, cookie>>

\* The answer of a "refused" request clears the cookie, if it arrives.
CallAnswered(c) ==
  /\ call[c].step \in {"served", "refused"}
  /\ call' = [call EXCEPT ![c].step = "over"]
  /\ \/ UNCHANGED cookie
     \/ /\ call[c].step = "refused"
        /\ cookie' = [cookie EXCEPT ![call[c].browser] = NoFlow]
  /\ UNCHANGED <<dbVars, flow, oauth>>

-----------------------------------------------------------------------------
\* Thirty days after a sign-in.
Expire(t) ==
  /\ t \notin expired /\ \E s \in sessions : s.token = t
  /\ expired' = expired \cup {t}
  /\ UNCHANGED <<users, sessions, flow, call, oauth, cookie>>

\* Operators set users.status in the database, and wait for the row; no code
\* of src/ does.
Disable(u) ==
  /\ u \in users /\ ~u.disabled
  /\ ~ \E f \in Writing : flow[f].user = u.id
  /\ users' = (users \ {u}) \cup {[u EXCEPT !.disabled = TRUE]}
  /\ UNCHANGED <<sessions, expired, flow, call, oauth, cookie>>

SignIn(f) ==
  \/ \E b \in Browsers, d \in Discord, name \in Names : StartDiscord(f, b, d, name)
  \/ DiscordCallback(f)
  \/ GetUserByDiscordID(f)
  \/ UpdateDiscordIdentity(f)
  \/ CreateUser(f)
  \/ ReplaceSession(f)
  \/ Commit(f)
  \/ Abort(f)
  \/ CallbackAnswered(f)

Outside ==
  \/ \E t \in Flows : Expire(t)
  \/ \E u \in users : Disable(u)

SessionsNext ==
  \/ \E f \in Flows : SignIn(f)
  \/ \E c \in Calls :
       \/ \E b \in Browsers, logout \in BOOLEAN : Request(c, b, logout)
       \/ Authenticate(c)
       \/ Logout(c)
       \/ CallAnswered(c)
  \/ Outside

SessionsSafety == SessionsInit /\ [][SessionsNext]_sessionVars

\* A statement that can run ends; the waiters of a row or of a key are queued.
SessionsFairness ==
  \A f \in Flows :
    /\ WF_sessionVars(GetUserByDiscordID(f))
    /\ SF_sessionVars(UpdateDiscordIdentity(f))
    /\ SF_sessionVars(CreateUser(f))
    /\ SF_sessionVars(ReplaceSession(f))
    /\ WF_sessionVars(Commit(f))

SessionsSpec == SessionsSafety /\ SessionsFairness

-----------------------------------------------------------------------------
\* Type invariant.
SessionsTypeOK ==
  /\ users \subseteq User
  /\ sessions \subseteq Session
  /\ expired \subseteq Flows
  /\ flow \in [Flows -> {Idle} \cup FlowState]
  /\ call \in [Calls -> {Idle} \cup CallState]
  /\ oauth \in [Browsers -> Tokens]
  /\ cookie \in [Browsers -> Tokens]

\* Overlapping first sign-ins make one account per Discord account and one
\* handle per account, and a session is always of the account of whoever
\* signed in: a retry that finds the account somebody else has just made ends
\* up in that account.
OneAccount ==
  /\ \A u, v \in users :
       (u.id = v.id \/ u.discord = v.discord \/ u.handle = v.handle) => u = v
  /\ \A s \in sessions :
       \E u \in users : u.id = s.user /\ u.discord = flow[s.token].discord

\* The usernames whose candidates are all handles the column accepts.
InsertableNames ==
  {name \in Names : \A n \in {1, 2, 9, 10, 99, 100, 999, 1000} :
     IsCanonicalHandle(HandleCandidate(NormalizeHandle(name), n))}

\* Every handle that a login may insert is one the column accepts, however the
\* username is spelt, where it has to be cut and how long the suffix grows; a
\* refused INSERT would fail every login of that username.
LoginsHaveCanonicalHandles ==
  \A f \in Flows : flow[f] # Idle => flow[f].name \in InsertableNames

\* A session disappears only by a logout with its token, or in the very step
\* that stores the session of a sign-in which replaces it: a sign-in that
\* fails leaves the browser signed in as before.
RotationIsWhole ==
  [][\A s \in sessions \ sessions' :
       \/ \E c \in Calls :
            /\ call[c].step = "sent" /\ call'[c].step = "refused"
            /\ call[c].logout /\ call[c].token = s.token
       \/ \E f \in Flows :
            /\ flow[f] # Idle /\ flow[f].previous = s.token
            /\ \E new \in sessions' \ sessions : new.token = f]_sessionVars

\* An account appears in the step that stores its first session, or not at
\* all: a first sign-in that fails half way leaves no account behind.
AccountsComeWithSessions ==
  [][\A u \in users' : (\A v \in users : v.id # u.id) =>
       [token |-> u.id, user |-> u.id] \in sessions' \ sessions]_sessionVars

\* A sign-in gives up for want of a handle only when the handles it tried are
\* other accounts'; for the last it may instead have met its own account.
GivesUpOnlyWhenTaken ==
  \A f \in Flows :
    (flow[f] # Idle /\ flow[f].outcome = "exhausted") =>
      \A n \in 1..MaxAttempts :
        \E u \in users :
          \/ u.handle = Candidate[flow[f].name][n] /\ u.discord # flow[f].discord
          \/ n = MaxAttempts /\ u.discord = flow[f].discord

\* The token of a logout and the one a sign-in replaced open nothing any more,
\* also when several requests of the browser carried them.
OldTokensAreDead ==
  /\ \A c \in Calls :
       (call[c] # Idle /\ call[c].logout /\ call[c].step \in {"refused", "over"}) =>
         ~Live(call[c].token)
  /\ \A f \in Flows :
       (flow[f] # Idle /\ flow[f].outcome = "signed in" /\ flow[f].previous # NoFlow) =>
         ~Live(flow[f].previous)

\* A browser loses the cookie of a live session, to nothing, only by its own
\* logout or by the late answer of a request that carried an older cookie or
\* that came while the account was disabled.
CookieLostOnlyToLateAnswer ==
  [][\A b \in Browsers :
       (cookie[b] # NoFlow /\ Live(cookie[b]) /\ cookie'[b] = NoFlow) =>
         \/ \E c \in Calls :
              /\ call[c] # Idle /\ call[c].step = "refused" /\ call'[c].step = "over"
              /\ call[c].browser = b
              /\ call[c].token # cookie[b] \/ ~Accepted(cookie[b])
         \/ \E f \in Flows :
              /\ flow[f] # Idle /\ flow[f].browser = b /\ flow[f].stale
              /\ flow[f].step = "answering" /\ flow'[f].step = "over"
              /\ flow[f].previous # cookie[b] \/ ~Accepted(cookie[b])
    ]_sessionVars

\* A callback is answered: no sign-in waits for ever for a row, for a key, or
\* in its loop of attempts.
SignInsEnd ==
  \A f \in Flows : flow[f] # Idle /\ flow[f].step = "finding" ~> flow[f].step \in {"answering", "over"}
=============================================================================
