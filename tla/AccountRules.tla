---------------------------- MODULE AccountRules ----------------------------
(***************************************************************************)
(* What requests of a signed-in user do after the session middleware:      *)
(* create content, or update the profile.  Composes Sessions with          *)
(* the services' use of the user the middleware put into the request.      *)
(*                                                                         *)
(* That user is the row as one earlier statement read it.  Services that   *)
(* create content (listings, conversations, messages) do not look at the   *)
(* account again; the UPDATE of the profile does.                          *)
(***************************************************************************)
EXTENDS Sessions

CONSTANTS
  Columns,  \* the columns of a profile: location and bio
  Values    \* their values

ASSUME ValuesAssumption == Values # {}

VARIABLES
  profile,  \* the profile columns of each user id
  content,  \* the content rows, each a user id and the call that made it
  work      \* what each request asks for and what it read

ruleVars == <<profile, content, work>>
vars == <<sessionVars, ruleVars>>

Profile == [Columns -> Values]
Blank == CHOOSE v \in Values : TRUE

\* The ways to name columns in a PATCH: each is set or absent.
Asked == UNION {[named -> Values] : named \in SUBSET Columns \ {{}}}
NoAsk == [c \in {} |-> Blank]
Work == [kind : {"none", "create", "profile"}, asked : Asked \cup {NoAsk},
         seen : Profile, result : {"none", "ok", "unchanged", "disabled"}]

Init ==
  /\ SessionsInit
  /\ profile = [id \in SignIns |-> [c \in Columns |-> Blank]]
  /\ content = {}
  /\ work = [k \in Calls |-> [kind |-> "none", asked |-> NoAsk,
                              seen |-> [c \in Columns |-> Blank], result |-> "none"]]

-----------------------------------------------------------------------------
Ask(k, b, kind, asked) ==
  /\ Request(k, b, FALSE)
  /\ work' = [work EXCEPT ![k].kind = kind, ![k].asked = asked]
  /\ UNCHANGED <<profile, content>>

\* The statement returns the whole row of the user, profile included.
AuthenticateUser(k) ==
  /\ Authenticate(k)
  /\ work' = [work EXCEPT ![k].seen =
       IF call'[k].step = "served" THEN profile[call'[k].user] ELSE @]
  /\ UNCHANGED <<profile, content>>

Pending(k, kind) ==
  call[k].step = "served" /\ work[k].kind = kind /\ work[k].result = "none"

Done(k, result) == work' = [work EXCEPT ![k].result = result]

\* CreateListing, StartConversation, SendMessage: the row is inserted for the
\* user of the request; the foreign key only needs the account to exist.
CreateContent(k) ==
  /\ Pending(k, "create")
  /\ content' = content \cup {[author |-> call[k].user, by |-> k]}
  /\ Done(k, "ok")
  /\ UNCHANGED <<sessionVars, profile>>

\* UpdateProfile with nothing to change compared to the user it was given.
SkipUpdate(k) ==
  /\ Pending(k, "profile")
  /\ \A c \in DOMAIN work[k].asked : work[k].asked[c] = work[k].seen[c]
  /\ Done(k, "unchanged")
  /\ UNCHANGED <<sessionVars, profile, content>>

Active(id) == \E u \in users : u.id = id /\ ~u.disabled

\* Mutant: the columns not named get the values the session read.
NewProfileFromSession(k) ==
  [c \in Columns |-> IF c \in DOMAIN work[k].asked THEN work[k].asked[c] ELSE work[k].seen[c]]

\* CASE WHEN set_x THEN x ELSE the column of the current row
NewProfile(k) ==
  [c \in Columns |-> IF c \in DOMAIN work[k].asked THEN work[k].asked[c]
                     ELSE profile[call[k].user][c]]

\* UPDATE .. WHERE id = .. AND status = 'active'; no row is ErrUserDisabled.
UpdateUserProfile(k) ==
  /\ Pending(k, "profile")
  /\ \E c \in DOMAIN work[k].asked : work[k].asked[c] # work[k].seen[c]
  /\ ~ \E f \in Writing : flow[f].user = call[k].user
  /\ IF Active(call[k].user)
       THEN /\ profile' = [profile EXCEPT ![call[k].user] = NewProfile(k)]
            /\ Done(k, "ok")
       ELSE Done(k, "disabled") /\ UNCHANGED profile
  /\ UNCHANGED <<sessionVars, content>>

\* The answer, or the handler's failure before it did anything.
Answer(k) == CallAnswered(k) /\ UNCHANGED ruleVars

Next ==
  \/ (\/ \E f \in Flows : SignIn(f)
      \/ \E k \in Calls : Logout(k)
      \/ \E k \in Calls, b \in Browsers : Request(k, b, TRUE)
      \/ Outside) /\ UNCHANGED ruleVars
  \/ \E k \in Calls :
       \/ \E b \in Browsers : Ask(k, b, "create", NoAsk)
       \/ \E b \in Browsers, asked \in Asked : Ask(k, b, "profile", asked)
       \/ AuthenticateUser(k)
       \/ CreateContent(k)
       \/ SkipUpdate(k)
       \/ UpdateUserProfile(k)
       \/ Answer(k)

Spec == Init /\ [][Next]_vars

-----------------------------------------------------------------------------
\* Type invariant.
TypeOK ==
  /\ SessionsTypeOK
  /\ profile \in [SignIns -> Profile]
  /\ content \subseteq [author : SignIns, by : Calls]
  /\ work \in [Calls -> Work]

\* A profile changes only by a request of its own user, who is active at that
\* very step, and only in the columns the request names: two tabs that edit
\* different columns do not undo each other, and a disabled account's profile
\* stands still whenever the account was disabled.
ProfileChangesAsAsked ==
  [][\A id \in SignIns : profile'[id] # profile[id] =>
       /\ Active(id)
       /\ \E k \in Calls :
            /\ call[k].step = "served" /\ call[k].user = id
            /\ work[k].result = "none" /\ work'[k].result = "ok"
            /\ \A c \in Columns :
                 profile'[id][c] = IF c \in DOMAIN work[k].asked THEN work[k].asked[c]
                                   ELSE profile[id][c]]_vars

\* No content is created for an account that is disabled.  The services check
\* the status the middleware read, not the one the account has by then.
DisabledCreateNothing ==
  [][\A row \in content' \ content : Active(row.author)]_vars
=============================================================================
