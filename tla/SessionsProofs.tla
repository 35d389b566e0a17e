--------------------------- MODULE SessionsProofs ---------------------------
(***************************************************************************)
(* Theorems about sign-ins and sessions for any accounts, browsers, names  *)
(* and overlapping requests: a Discord account has one user, an account    *)
(* comes with its first session, a session ends by a logout or by the      *)
(* sign-in that replaces it, a replaced token stays dead, a sign-in gives  *)
(* up only when its handles are taken, no answer takes the cookie of a     *)
(* session it is not about, every handle is one the column accepts, and a  *)
(* profile changes as one request of its user asks.                        *)
(***************************************************************************)
EXTENDS AccountRules, WellFoundedInduction, TLAPS

\* The handles that rows have or may get; what they look like is no matter here.
SomeHandles ==
  {Registered[e].handle : e \in Earlier}
  \cup {Candidate[name][n] : name \in Names, n \in 1..MaxAttempts}

UserRow == [id : SignIns, discord : Discord, handle : SomeHandles, disabled : BOOLEAN]

FormOK ==
  /\ users \subseteq UserRow
  /\ sessions \subseteq Session
  /\ flow \in [Flows -> {Idle} \cup FlowState]
  /\ call \in [Calls -> {Idle} \cup CallState]
  /\ cookie \in [Browsers -> Tokens]

-----------------------------------------------------------------------------
(* What the steps do to one sign-in                                        *)

Others(f) == \A g \in Flows \ {f} : flow'[g] = flow[g]

\* A sign-in stays one person's, of one browser.
Same(f) ==
  /\ flow'[f].browser = flow[f].browser /\ flow'[f].discord = flow[f].discord
  /\ flow'[f].name = flow[f].name

SameCookies(f) == flow'[f].previous = flow[f].previous /\ flow'[f].stale = flow[f].stale

Typed == flow' \in [Flows -> {Idle} \cup FlowState]

LEMMA FlowForm ==
  ASSUME FormOK, NEW f \in Flows
  PROVE  /\ flow[f] = Idle \/ flow[f] \in FlowState
         /\ flow[f].step \in Steps <=> flow[f] # Idle
         /\ flow[f].step \in Steps => flow[f] \in FlowState
BY DEF FormOK, Idle, FlowState, Steps

LEMMA SetFlow ==
  ASSUME FormOK, NEW f \in Flows, NEW x \in FlowState, flow' = [flow EXCEPT ![f] = x]
  PROVE  flow'[f] = x /\ Others(f) /\ Typed
BY DEF FormOK, Others, Typed

LEMMA StepForm ==
  ASSUME FormOK, NEW f \in Flows, NEW from \in Steps, NEW to \in Steps, Step(f, from, to)
  PROVE  /\ Typed /\ Others(f) /\ Same(f) /\ SameCookies(f)
         /\ flow[f].step = from /\ flow'[f].step = to
         /\ flow'[f].outcome = flow[f].outcome
         /\ flow'[f].attempt = flow[f].attempt /\ flow'[f].user = flow[f].user
<1>1. flow[f] \in FlowState /\ flow[f].step = from
  BY FlowForm DEF Step
<1> DEFINE x == [flow[f] EXCEPT !.step = to]
<1>2. /\ x \in FlowState /\ x.step = to /\ x.browser = flow[f].browser
      /\ x.discord = flow[f].discord /\ x.name = flow[f].name
      /\ x.previous = flow[f].previous /\ x.stale = flow[f].stale
      /\ x.outcome = flow[f].outcome /\ x.attempt = flow[f].attempt /\ x.user = flow[f].user
  BY <1>1 DEF FlowState
<1>3. flow' = [flow EXCEPT ![f] = x]
  BY DEF Step
<1> HIDE DEF x
<1> QED
  BY <1>1, <1>2, <1>3, SetFlow DEF Same, SameCookies

LEMMA EndForm ==
  ASSUME FormOK, NEW f \in Flows, NEW outcome \in Outcomes, flow[f].step \in Steps,
         End(f, outcome)
  PROVE  /\ Typed /\ Others(f) /\ Same(f) /\ SameCookies(f)
         /\ flow'[f].step = "answering" /\ flow'[f].outcome = outcome
<1>1. flow[f] \in FlowState
  BY FlowForm
<1> DEFINE x == [flow[f] EXCEPT !.step = "answering", !.outcome = outcome]
<1>2. /\ x \in FlowState /\ x.step = "answering" /\ x.browser = flow[f].browser
      /\ x.discord = flow[f].discord /\ x.name = flow[f].name
      /\ x.previous = flow[f].previous /\ x.stale = flow[f].stale
      /\ x.outcome = outcome
  BY <1>1 DEF FlowState, Steps
<1>3. flow' = [flow EXCEPT ![f] = x]
  BY DEF End
<1> HIDE DEF x
<1> QED
  BY <1>2, <1>3, SetFlow DEF Same, SameCookies

\* GetUserByDiscordID and CreateUser go on with a user.
LEMMA UserForm ==
  ASSUME FormOK, NEW f \in Flows, flow[f].step \in Steps,
         NEW to \in Steps, NEW user \in SignIns,
         flow' = [flow EXCEPT ![f].step = to, ![f].user = user]
  PROVE  /\ Typed /\ Others(f) /\ Same(f) /\ SameCookies(f)
         /\ flow'[f].step = to /\ flow'[f].user = user
         /\ flow'[f].outcome = flow[f].outcome /\ flow'[f].attempt = flow[f].attempt
<1>1. flow[f] \in FlowState
  BY FlowForm
<1> DEFINE x == [flow[f] EXCEPT !.step = to, !.user = user]
<1>2. /\ x \in FlowState /\ x.step = to /\ x.browser = flow[f].browser
      /\ x.discord = flow[f].discord /\ x.name = flow[f].name
      /\ x.previous = flow[f].previous /\ x.stale = flow[f].stale
      /\ x.outcome = flow[f].outcome /\ x.attempt = flow[f].attempt /\ x.user = user
  BY <1>1 DEF FlowState
<1>3. flow' = [flow EXCEPT ![f] = x]
  BY DEF FormOK
<1> HIDE DEF x
<1> QED
  BY <1>2, <1>3, SetFlow DEF Same, SameCookies

LEMMA RetryForm ==
  ASSUME FormOK, NEW f \in Flows, flow[f].step \in Steps, Retry(f)
  PROVE  /\ Typed /\ Others(f) /\ Same(f) /\ SameCookies(f)
         /\ \/ /\ flow'[f].step = "finding" /\ flow'[f].attempt = flow[f].attempt + 1
               /\ flow'[f].outcome = flow[f].outcome
            \/ /\ flow'[f].step = "answering" /\ flow'[f].outcome = "exhausted"
               /\ flow[f].attempt = MaxAttempts
<1>1. flow[f] \in FlowState
  BY FlowForm
<1>2. CASE flow[f].attempt < MaxAttempts
  <2>1. PICK n \in 1..MaxAttempts : n = flow[f].attempt + 1
    <3>1. flow[f].attempt \in 1..MaxAttempts
      BY <1>1 DEF FlowState
    <3> QED
      BY <1>2, <3>1, MaxAttemptsAssumption
  <2> DEFINE x == [flow[f] EXCEPT !.step = "finding", !.attempt = n]
  <2>2. /\ x \in FlowState /\ x.step = "finding" /\ x.browser = flow[f].browser
        /\ x.discord = flow[f].discord /\ x.name = flow[f].name
        /\ x.previous = flow[f].previous /\ x.stale = flow[f].stale
        /\ x.outcome = flow[f].outcome /\ x.attempt = n
    BY <1>1 DEF FlowState, Steps
  <2>3. flow' = [flow EXCEPT ![f] = x]
    BY <1>2, <2>1 DEF Retry, FormOK
  <2> HIDE DEF x
  <2> QED
    BY <2>1, <2>2, <2>3, SetFlow DEF Same, SameCookies
<1>3. CASE ~(flow[f].attempt < MaxAttempts)
  <2>1. flow[f].attempt = MaxAttempts
    BY <1>1, <1>3, MaxAttemptsAssumption DEF FlowState
  <2>2. End(f, "exhausted")
    BY <1>3 DEF Retry
  <2> QED
    BY <2>1, <2>2, EndForm DEF Outcomes
<1> QED
  BY <1>2, <1>3
-----------------------------------------------------------------------------
(* The steps of a sign-in                                                  *)

LEMMA StartMoves ==
  ASSUME FormOK, NEW f \in Flows, NEW b \in Browsers, NEW d \in Discord, NEW name \in Names,
         StartDiscord(f, b, d, name)
  PROVE  /\ Typed /\ Others(f) /\ flow[f] = Idle
         /\ flow'[f].step = "away" /\ flow'[f].outcome = "none"
         /\ flow'[f].previous = NoFlow /\ flow'[f].attempt = 1 /\ ~flow'[f].stale
<1> DEFINE x == [step |-> "away", outcome |-> "none", browser |-> b, discord |-> d, name |-> name,
                 previous |-> NoFlow, stale |-> FALSE, attempt |-> 1, user |-> NoFlow]
<1>1. x \in FlowState
  BY MaxAttemptsAssumption DEF FlowState, Steps, Outcomes, Tokens
<1>2. /\ x.step = "away" /\ x.outcome = "none" /\ x.previous = NoFlow /\ x.attempt = 1
      /\ ~x.stale
      /\ flow' = [flow EXCEPT ![f] = x] /\ flow[f] = Idle
  BY DEF StartDiscord
<1> HIDE DEF x
<1> QED
  BY <1>1, <1>2, SetFlow

LEMMA CallbackMoves ==
  ASSUME FormOK, NEW f \in Flows, DiscordCallback(f)
  PROVE  /\ Typed /\ Others(f) /\ Same(f) /\ flow[f].step = "away"
         /\ flow[f].browser \in Browsers
         /\ flow'[f].previous = cookie[flow[f].browser]
         /\ flow'[f].stale => /\ cookie[flow[f].browser] # NoFlow
                             /\ ~Accepted(cookie[flow[f].browser])
         /\ flow'[f].attempt = flow[f].attempt
         /\ \/ flow'[f].step = "finding" /\ flow'[f].outcome = flow[f].outcome
            \/ flow'[f].step = "answering" /\ flow'[f].outcome = "refused"
<1>1. flow[f] \in FlowState /\ flow[f].step = "away" /\ flow[f].browser \in Browsers
  BY FlowForm DEF DiscordCallback, Steps, FlowState
<1> DEFINE b == flow[f].browser
           stale == cookie[b] # NoFlow /\ ~Accepted(cookie[b])
           arrived == [flow[f] EXCEPT !.previous = cookie[b], !.stale = stale]
           go == [arrived EXCEPT !.step = "finding"]
           no == [arrived EXCEPT !.step = "answering", !.outcome = "refused"]
<1>2. cookie[b] \in Tokens /\ stale \in BOOLEAN
  BY <1>1 DEF FormOK
<1>3. flow' = [flow EXCEPT ![f] = go] \/ flow' = [flow EXCEPT ![f] = no]
  BY DEF DiscordCallback
<1> HIDE DEF stale
<1>4. /\ arrived \in FlowState /\ arrived.browser = b /\ arrived.discord = flow[f].discord
      /\ arrived.name = flow[f].name /\ arrived.previous = cookie[b]
      /\ arrived.attempt = flow[f].attempt /\ arrived.outcome = flow[f].outcome
      /\ arrived.stale = stale
  BY <1>1, <1>2 DEF FlowState
<1> HIDE DEF arrived
<1>5. /\ go \in FlowState /\ go.browser = b /\ go.discord = flow[f].discord
      /\ go.name = flow[f].name /\ go.previous = cookie[b]
      /\ go.attempt = flow[f].attempt /\ go.outcome = flow[f].outcome /\ go.step = "finding"
      /\ go.stale = stale
  BY <1>4 DEF FlowState, Steps
<1>6. /\ no \in FlowState /\ no.browser = b /\ no.discord = flow[f].discord
      /\ no.name = flow[f].name /\ no.previous = cookie[b]
      /\ no.attempt = flow[f].attempt /\ no.outcome = "refused" /\ no.step = "answering"
      /\ no.stale = stale
  BY <1>4 DEF FlowState, Steps, Outcomes
<1> HIDE DEF go, no
<1>7. CASE flow' = [flow EXCEPT ![f] = go]
  BY <1>1, <1>5, <1>7, SetFlow DEF Same, stale
<1>8. CASE flow' = [flow EXCEPT ![f] = no]
  BY <1>1, <1>6, <1>8, SetFlow DEF Same, stale
<1> QED
  BY <1>3, <1>7, <1>8

LEMMA FindMoves ==
  ASSUME FormOK, NEW f \in Flows, GetUserByDiscordID(f)
  PROVE  /\ Typed /\ Others(f) /\ Same(f) /\ SameCookies(f) /\ flow[f].step = "finding"
         /\ \/ /\ flow'[f].step = "inserting" /\ Account(flow[f].discord) = {}
               /\ flow'[f].outcome = flow[f].outcome /\ flow'[f].attempt = flow[f].attempt
            \/ flow'[f].step = "answering" /\ flow'[f].outcome = "disabled"
            \/ /\ flow'[f].step = "updating"
               /\ flow'[f].outcome = flow[f].outcome /\ flow'[f].attempt = flow[f].attempt
               /\ \E u \in Account(flow[f].discord) : flow'[f].user = u.id
<1>1. flow[f].step = "finding" /\ flow[f].step \in Steps
  BY DEF GetUserByDiscordID, Steps
<1>2. CASE Account(flow[f].discord) = {}
  <2>1. Step(f, "finding", "inserting")
    BY <1>2 DEF GetUserByDiscordID
  <2> QED
    BY <1>2, <2>1, StepForm DEF Steps
<1>3. ASSUME NEW u \in Account(flow[f].discord), u.disabled, End(f, "disabled")
      PROVE  Typed /\ Others(f) /\ Same(f) /\ SameCookies(f)
             /\ flow'[f].step = "answering" /\ flow'[f].outcome = "disabled"
  BY <1>1, <1>3, EndForm DEF Outcomes
<1>4. ASSUME NEW u \in Account(flow[f].discord),
             flow' = [flow EXCEPT ![f].step = "updating", ![f].user = u.id]
      PROVE  /\ Typed /\ Others(f) /\ Same(f) /\ SameCookies(f)
             /\ flow'[f].step = "updating" /\ flow'[f].user = u.id
             /\ flow'[f].outcome = flow[f].outcome /\ flow'[f].attempt = flow[f].attempt
  <2>1. u.id \in SignIns
    BY DEF Account, FormOK, UserRow
  <2> QED
    BY <1>1, <1>4, <2>1, UserForm DEF Steps
<1>5. CASE Account(flow[f].discord) # {}
  <2>1. PICK u \in Account(flow[f].discord) :
          \/ u.disabled /\ End(f, "disabled")
          \/ flow' = [flow EXCEPT ![f].step = "updating", ![f].user = u.id]
    BY <1>5 DEF GetUserByDiscordID
  <2> QED
    BY <1>1, <1>3, <1>4, <2>1
<1> QED
  BY <1>2, <1>5

LEMMA CreateMoves ==
  ASSUME FormOK, NEW f \in Flows, CreateUser(f)
  PROVE  /\ Typed /\ Others(f) /\ Same(f) /\ SameCookies(f) /\ flow[f].step = "inserting"
         /\ \/ /\ InsertConflicts(f)
               /\ flow'[f].step = "finding" /\ flow'[f].attempt = flow[f].attempt + 1
               /\ flow'[f].outcome = flow[f].outcome
            \/ /\ InsertConflicts(f)
               /\ flow'[f].step = "answering" /\ flow'[f].outcome = "exhausted"
               /\ flow[f].attempt = MaxAttempts
            \/ /\ ~InsertConflicts(f) /\ ~InsertBlocked(f)
               /\ flow'[f].step = "rotating" /\ flow'[f].user = f
               /\ flow'[f].outcome = flow[f].outcome /\ flow'[f].attempt = flow[f].attempt
<1>1. flow[f].step = "inserting" /\ flow[f].step \in Steps
  BY DEF CreateUser, Steps
<1>2. CASE InsertConflicts(f)
  <2>1. Retry(f)
    BY <1>2 DEF CreateUser
  <2> QED
    BY <1>1, <1>2, <2>1, RetryForm
<1>3. CASE ~InsertConflicts(f)
  <2>1. flow' = [flow EXCEPT ![f].step = "rotating", ![f].user = f] /\ ~InsertBlocked(f)
    BY <1>3 DEF CreateUser
  <2> QED
    BY <1>1, <1>3, <2>1, UserForm DEF Steps, SignIns
<1> QED
  BY <1>2, <1>3

LEMMA CommitMoves ==
  ASSUME FormOK, NEW f \in Flows, Commit(f)
  PROVE  /\ Typed /\ Others(f) /\ Same(f) /\ SameCookies(f)
         /\ flow[f] \in FlowState /\ flow[f].step = "committing"
         /\ flow'[f].step = "answering" /\ flow'[f].outcome \in {"signed in", "failed"}
<1>1. flow[f].step = "committing" /\ flow[f].step \in Steps
  BY DEF Commit, Steps
<1>2. End(f, "signed in") \/ End(f, "failed")
  BY DEF Commit
<1> QED
  BY <1>1, <1>2, FlowForm, EndForm DEF Outcomes

LEMMA AbortMoves ==
  ASSUME FormOK, NEW f \in Flows, Abort(f)
  PROVE  /\ Typed /\ Others(f) /\ Same(f) /\ SameCookies(f)
         /\ flow[f].step \in {"finding", "updating", "inserting", "rotating", "committing"}
         /\ flow'[f].step = "answering" /\ flow'[f].outcome = "failed"
<1>1. /\ flow[f].step \in {"finding", "updating", "inserting", "rotating", "committing"}
      /\ flow[f].step \in Steps /\ End(f, "failed")
  BY DEF Abort, Steps
<1> QED
  BY <1>1, EndForm DEF Outcomes

-----------------------------------------------------------------------------
LEMMA CommittedForm ==
  ASSUME FormOK, NEW f \in Flows, Commit(f)
  PROVE  LET row == [id |-> f, discord |-> flow[f].discord, handle |-> Handle(f), disabled |-> FALSE]
             session == [token |-> f, user |-> flow[f].user]
         IN  /\ row \in UserRow
             /\ users' = IF flow[f].user = f THEN users \cup {row} ELSE users
             /\ sessions' = {s \in sessions : s.token # flow[f].previous} \cup {session}
             /\ flow[f].user \in SignIns => session \in Session
<1> DEFINE row == [id |-> f, discord |-> flow[f].discord, handle |-> Handle(f), disabled |-> FALSE]
           session == [token |-> f, user |-> flow[f].user]
<1>1. flow[f] \in FlowState
  BY CommitMoves
<1>2. flow[f].discord \in Discord /\ f \in SignIns
  BY <1>1 DEF FlowState, SignIns
<1>3. Handle(f) \in SomeHandles
  <2>1. flow[f].name \in Names /\ flow[f].attempt \in 1..MaxAttempts
    BY <1>1 DEF FlowState
  <2> QED
    BY <2>1 DEF Handle, SomeHandles
<1>4. row \in UserRow
  BY <1>2, <1>3 DEF UserRow
<1>5. flow[f].user \in SignIns => session \in Session
  BY DEF Session
<1>6. /\ users' = users \cup IF flow[f].user = f THEN {row} ELSE {}
      /\ sessions' = {s \in sessions : s.token # flow[f].previous} \cup {session}
  BY DEF Commit
<1> HIDE DEF row, session
<1>7. users' = IF flow[f].user = f THEN users \cup {row} ELSE users
  BY <1>6
<1> QED
  BY <1>4, <1>5, <1>6, <1>7 DEF row, session
-----------------------------------------------------------------------------
(* One account                                                             *)

Ended(f) == flow[f].step \in {"answering", "over"}
Writes(f) == flow[f].step \in {"rotating", "committing"}

\* The sign-in has inserted a row that shows with its commit.
Owns(f) == Writes(f) /\ flow[f].user = f

\* The sign-in goes on with the account it has found.
Found(f) == flow[f].step = "updating" \/ (Writes(f) /\ flow[f].user # f)

IsAccountOf(u, f) == u.id = flow[f].user /\ u.discord = flow[f].discord

OwnInv ==
  /\ \A f \in Flows : flow[f].step = "updating" => flow[f].user # f
  /\ \A f \in Flows : Owns(f) => \A u \in users :
       u.id # f /\ u.discord # flow[f].discord /\ u.handle # Handle(f)
  /\ \A f, g \in Flows : Owns(f) /\ Owns(g) /\ f # g =>
       flow[f].discord # flow[g].discord /\ Handle(f) # Handle(g)
  /\ \A f \in Flows : Found(f) => \E u \in users : IsAccountOf(u, f)
  /\ \A u \in users : u.id \in Flows => Ended(u.id)
  /\ \A s \in sessions : Ended(s.token)

\* What a step that adds no row may do to a sign-in.
Quiet(g) ==
  /\ Ended(g) => Ended(g)' /\ flow'[g].discord = flow[g].discord
  /\ Owns(g)' => Owns(g) /\ flow'[g].discord = flow[g].discord /\ Handle(g)' = Handle(g)
  /\ Found(g)' => \E u \in users : IsAccountOf(u, g)'
  /\ flow'[g].step = "updating" => flow'[g].user # g

LEMMA OthersAreQuiet ==
  ASSUME OwnInv, NEW g \in Flows, flow'[g] = flow[g]
  PROVE  Quiet(g)
<1>1. Ended(g)' = Ended(g) /\ Owns(g)' = Owns(g) /\ Found(g)' = Found(g)
      /\ Handle(g)' = Handle(g)
  BY DEF Ended, Owns, Found, Writes, Handle
<1>2. Found(g) => \E u \in users : IsAccountOf(u, g)'
  BY DEF OwnInv, IsAccountOf
<1>3. flow'[g].step = "updating" => flow'[g].user # g
  BY DEF OwnInv
<1> QED
  BY <1>1, <1>2, <1>3 DEF Quiet

LEMMA QuietStep ==
  ASSUME FormOK, OwnInv, OneAccount, users' = users, sessions' \subseteq sessions,
         \A g \in Flows : Quiet(g)
  PROVE  OwnInv' /\ OneAccount'
<1>1. \A f \in Flows : flow'[f].step = "updating" => flow'[f].user # f
  BY DEF Quiet
<1>2. \A f \in Flows : Owns(f)' => \A u \in users' :
        u.id # f /\ u.discord # flow'[f].discord /\ u.handle # Handle(f)'
  BY DEF Quiet, OwnInv
<1>3. \A f, g \in Flows : Owns(f)' /\ Owns(g)' /\ f # g =>
        flow'[f].discord # flow'[g].discord /\ Handle(f)' # Handle(g)'
  BY DEF Quiet, OwnInv
<1>4. \A f \in Flows : Found(f)' => \E u \in users' : IsAccountOf(u, f)'
  BY DEF Quiet
<1>5. \A u \in users' : u.id \in Flows => Ended(u.id)'
  BY DEF Quiet, OwnInv
<1>6. \A s \in sessions : s.token \in Flows /\ Ended(s.token)
  BY DEF OwnInv, FormOK, Session
<1>7. \A s \in sessions' : Ended(s.token)'
  BY <1>6 DEF Quiet
<1>8. OwnInv'
  BY <1>1, <1>2, <1>3, <1>4, <1>5, <1>7 DEF OwnInv
<1>9. \A s \in sessions' : flow'[s.token].discord = flow[s.token].discord
  BY <1>6 DEF Quiet
<1>10. OneAccount'
  BY <1>9 DEF OneAccount
<1> QED
  BY <1>8, <1>10

\* The row of CreateUser conflicts with no row, committed or not.
LEMMA CreateKeepsOne ==
  ASSUME FormOK, OwnInv, OneAccount, NEW f \in Flows, CreateUser(f)
  PROVE  OwnInv' /\ OneAccount'
<1>0. Others(f) /\ Same(f) /\ flow[f].step = "inserting" /\ UNCHANGED <<users, sessions>>
  BY CreateMoves DEF CreateUser, dbVars
<1>1. CASE flow'[f].step \in {"finding", "answering"}
  <2>1. Quiet(f)
    BY <1>0, <1>1 DEF Quiet, Ended, Owns, Found, Writes
  <2>2. \A g \in Flows : Quiet(g)
    BY <1>0, <2>1, OthersAreQuiet DEF Others
  <2> QED
    BY <1>0, <2>2, QuietStep
<1>2. CASE /\ ~InsertConflicts(f) /\ ~InsertBlocked(f)
           /\ flow'[f].step = "rotating" /\ flow'[f].user = f
           /\ flow'[f].attempt = flow[f].attempt
  <2>1. /\ Owns(f)' /\ ~Found(f)' /\ flow'[f].step # "updating"
        /\ ~Ended(f) /\ flow'[f].discord = flow[f].discord /\ Handle(f)' = Handle(f)
    BY <1>0, <1>2 DEF Owns, Found, Writes, Ended, Same, Handle
  <2>2. \A g \in Flows \ {f} : Quiet(g)
    BY <1>0, OthersAreQuiet DEF Others
  <2>3. \A u \in users : u.id # f /\ u.discord # flow[f].discord /\ u.handle # Handle(f)
    BY <1>2, <2>1 DEF InsertConflicts, OwnInv
  <2>4. \A g \in Flows \ {f} : Owns(g) =>
          flow[g].discord # flow[f].discord /\ Handle(g) # Handle(f)
    BY <1>2 DEF InsertBlocked, Owns, Writes, Writing
  <2>5. \A g \in Flows : Owns(g)' => \A u \in users' :
          u.id # g /\ u.discord # flow'[g].discord /\ u.handle # Handle(g)'
    BY <1>0, <2>1, <2>2, <2>3 DEF Quiet, OwnInv
  <2>6. \A g, h \in Flows : Owns(g)' /\ Owns(h)' /\ g # h =>
          flow'[g].discord # flow'[h].discord /\ Handle(g)' # Handle(h)'
    BY <2>1, <2>2, <2>4 DEF Quiet, OwnInv
  <2>7. \A g \in Flows : Found(g)' => \E u \in users' : IsAccountOf(u, g)'
    BY <1>0, <2>1, <2>2 DEF Quiet
  <2>8. \A u \in users' : u.id \in Flows => Ended(u.id)'
    BY <1>0, <2>1, <2>2 DEF Quiet, OwnInv
  <2>9. \A s \in sessions : s.token \in Flows \ {f} /\ Ended(s.token)
    BY <2>1 DEF OwnInv, FormOK, Session
  <2>10. \A g \in Flows : flow'[g].step = "updating" => flow'[g].user # g
    BY <2>1, <2>2 DEF Quiet
  <2>11. OwnInv'
    BY <1>0, <2>2, <2>5, <2>6, <2>7, <2>8, <2>9, <2>10 DEF Quiet, OwnInv
  <2>12. OneAccount'
    BY <1>0, <2>2, <2>9 DEF OneAccount, Quiet
  <2> QED
    BY <2>11, <2>12
<1> QED
  BY <1>1, <1>2, CreateMoves

\* The commit shows the row that nothing conflicts with, or stores a session
\* of the account it found.
LEMMA CommitKeepsOne ==
  ASSUME FormOK, OwnInv, OneAccount, NEW f \in Flows, Commit(f)
  PROVE  OwnInv' /\ OneAccount' /\ flow[f].user \in SignIns
<1> DEFINE row == [id |-> f, discord |-> flow[f].discord, handle |-> Handle(f), disabled |-> FALSE]
           session == [token |-> f, user |-> flow[f].user]
<1>0. /\ users' = IF flow[f].user = f THEN users \cup {row} ELSE users
      /\ sessions' = {s \in sessions : s.token # flow[f].previous} \cup {session}
      /\ row.id = f /\ row.discord = flow[f].discord /\ row.handle = Handle(f)
      /\ session.token = f /\ session.user = flow[f].user
  BY CommittedForm
<1> HIDE DEF row, session
<1>1. /\ Others(f) /\ flow'[f].discord = flow[f].discord
      /\ flow[f].step = "committing" /\ flow'[f].step = "answering"
  BY CommitMoves DEF Same
<1>2. /\ ~Owns(f)' /\ ~Found(f)' /\ Ended(f)' /\ ~Ended(f) /\ flow'[f].step # "updating"
      /\ Owns(f) <=> flow[f].user = f
      /\ Found(f) <=> flow[f].user # f
  BY <1>1 DEF Owns, Found, Ended, Writes
<1>3. \A g \in Flows \ {f} : Quiet(g)
  BY <1>1, OthersAreQuiet DEF Others
<1>4. \A g \in Flows \ {f} : Owns(g)' => \A u \in users' :
        u.id # g /\ u.discord # flow'[g].discord /\ u.handle # Handle(g)'
  BY <1>0, <1>2, <1>3 DEF Quiet, OwnInv
<1>5. \A g, h \in Flows : Owns(g)' /\ Owns(h)' /\ g # h =>
        flow'[g].discord # flow'[h].discord /\ Handle(g)' # Handle(h)'
  BY <1>2, <1>3 DEF Quiet, OwnInv
<1>6. \A g \in Flows : Found(g)' => \E u \in users' : IsAccountOf(u, g)'
  BY <1>0, <1>2, <1>3 DEF Quiet
<1>7. \A u \in users' : u.id \in Flows => Ended(u.id)'
  BY <1>0, <1>2, <1>3 DEF Quiet, OwnInv
<1>8. \A s \in sessions : s.token \in Flows \ {f} /\ Ended(s.token)
  BY <1>2 DEF OwnInv, FormOK, Session
<1>9. \A s \in sessions' : Ended(s.token)'
  BY <1>0, <1>2, <1>3, <1>8 DEF Quiet
<1>10. \A g \in Flows : flow'[g].step = "updating" => flow'[g].user # g
  BY <1>2, <1>3 DEF Quiet
<1>11. OwnInv'
  BY <1>2, <1>4, <1>5, <1>6, <1>7, <1>9, <1>10 DEF OwnInv
<1>12. \A u, v \in users' : (u.id = v.id \/ u.discord = v.discord \/ u.handle = v.handle) => u = v
  BY <1>0, <1>2 DEF OneAccount, OwnInv
<1>13. \E u \in users' : u.id = session.user /\ u.discord = flow'[session.token].discord
  BY <1>0, <1>1, <1>2 DEF OwnInv, IsAccountOf
<1>14. \A s \in sessions : flow'[s.token].discord = flow[s.token].discord
  BY <1>3, <1>8 DEF Quiet
<1>15. \A s \in sessions' : \E u \in users' : u.id = s.user /\ u.discord = flow'[s.token].discord
  BY <1>0, <1>13, <1>14 DEF OneAccount
<1>16. flow[f].user \in SignIns
  BY <1>2 DEF OwnInv, IsAccountOf, FormOK, UserRow, SignIns
<1> QED
  BY <1>11, <1>12, <1>15, <1>16 DEF OneAccount

\* An account that is disabled keeps its identity.
LEMMA DisableKeepsOne ==
  ASSUME FormOK, OwnInv, OneAccount, NEW u \in users, Disable(u)
  PROVE  OwnInv' /\ OneAccount' /\ users' \subseteq UserRow
<1> DEFINE v == [u EXCEPT !.disabled = TRUE]
<1>1. /\ v \in UserRow /\ v.id = u.id /\ v.discord = u.discord /\ v.handle = u.handle
      /\ users' = (users \ {u}) \cup {v} /\ UNCHANGED <<sessions, flow>>
  <2>1. u \in UserRow
    BY DEF FormOK
  <2> QED
    BY <2>1 DEF UserRow, Disable
<1> HIDE DEF v
<1>2. \A w \in users' : \E x \in users : x.id = w.id /\ x.discord = w.discord /\ x.handle = w.handle
  BY <1>1
<1>3. \A x \in users : \E w \in users' : x.id = w.id /\ x.discord = w.discord
  BY <1>1
<1>4. \A g \in Flows : /\ Owns(g)' = Owns(g) /\ Found(g)' = Found(g) /\ Ended(g)' = Ended(g)
                       /\ Handle(g)' = Handle(g) /\ flow'[g] = flow[g]
  BY <1>1 DEF Owns, Found, Ended, Writes, Handle
<1>5. \A s \in sessions : s.token \in Flows
  BY DEF FormOK, Session
<1>6. \A g \in Flows : Found(g)' => \E w \in users' : IsAccountOf(w, g)'
  BY <1>3, <1>4 DEF OwnInv, IsAccountOf
<1>7. OwnInv'
  BY <1>1, <1>2, <1>4, <1>5, <1>6 DEF OwnInv
<1>8. \A w, x \in users' : (w.id = x.id \/ w.discord = x.discord \/ w.handle = x.handle) => w = x
  BY <1>1 DEF OneAccount
<1>9. OneAccount'
  BY <1>1, <1>3, <1>8 DEF OneAccount
<1> QED
  BY <1>1, <1>7, <1>9 DEF FormOK

-----------------------------------------------------------------------------
LEMMA AccountsStep ==
  ASSUME FormOK, OwnInv, OneAccount, [SessionsNext]_sessionVars
  PROVE  OwnInv' /\ OneAccount'
<1>1. ASSUME NEW f \in Flows, Others(f), UNCHANGED <<users, sessions>>, Quiet(f)
      PROVE  OwnInv' /\ OneAccount'
  <2>1. \A g \in Flows : Quiet(g)
    BY <1>1, OthersAreQuiet DEF Others
  <2> QED
    BY <1>1, <2>1, QuietStep
<1>2. ASSUME UNCHANGED <<users, flow>>, sessions' \subseteq sessions
      PROVE  OwnInv' /\ OneAccount'
  <2>1. \A g \in Flows : Quiet(g)
    BY <1>2, OthersAreQuiet
  <2> QED
    BY <1>2, <2>1, QuietStep
<1>3. ASSUME NEW f \in Flows, SignIn(f)
      PROVE  OwnInv' /\ OneAccount'
  <2>1. ASSUME NEW b \in Browsers, NEW d \in Discord, NEW name \in Names,
               StartDiscord(f, b, d, name)
        PROVE  OwnInv' /\ OneAccount'
    <3>1. Others(f) /\ flow[f] = Idle /\ flow'[f].step = "away"
      BY <2>1, StartMoves
    <3>2. Quiet(f)
      BY <3>1 DEF Quiet, Ended, Owns, Found, Writes, Idle
    <3> QED
      BY <1>1, <2>1, <3>1, <3>2 DEF StartDiscord, dbVars
  <2>2. CASE DiscordCallback(f)
    <3>1. /\ Others(f) /\ flow[f].step = "away" /\ flow'[f].step \in {"finding", "answering"}
      BY <2>2, CallbackMoves
    <3>2. Quiet(f)
      BY <3>1 DEF Quiet, Ended, Owns, Found, Writes
    <3> QED
      BY <1>1, <2>2, <3>1, <3>2 DEF DiscordCallback, dbVars
  <2>3. CASE GetUserByDiscordID(f)
    <3>1. /\ Others(f) /\ Same(f) /\ flow[f].step = "finding"
          /\ \/ flow'[f].step \in {"inserting", "answering"}
             \/ /\ flow'[f].step = "updating"
                /\ \E u \in Account(flow[f].discord) : flow'[f].user = u.id
      BY <2>3, FindMoves
    <3>2. ASSUME flow'[f].step \in {"inserting", "answering"}
          PROVE  Quiet(f)
      BY <3>1, <3>2 DEF Quiet, Ended, Owns, Found, Writes
    <3>3. ASSUME flow'[f].step = "updating"
          PROVE  Quiet(f)
      <4>1. PICK u \in users : u.discord = flow[f].discord /\ flow'[f].user = u.id
        BY <3>1, <3>3 DEF Account
      <4>2. u.id # f
        BY <3>1 DEF OwnInv, Ended
      <4>3. IsAccountOf(u, f)'
        BY <3>1, <4>1 DEF IsAccountOf, Same
      <4> QED
        BY <3>1, <3>3, <4>1, <4>2, <4>3 DEF Quiet, Ended, Owns, Writes
    <3> QED
      BY <1>1, <2>3, <3>1, <3>2, <3>3 DEF GetUserByDiscordID, dbVars
  <2>4. CASE UpdateDiscordIdentity(f)
    <3>1. /\ Others(f) /\ Same(f) /\ flow[f].step = "updating" /\ flow'[f].step = "rotating"
          /\ flow'[f].user = flow[f].user
      BY <2>4, StepForm DEF UpdateDiscordIdentity, Steps
    <3>2. flow[f].user # f /\ \E u \in users : IsAccountOf(u, f)
      BY <3>1 DEF OwnInv, Found
    <3>3. Quiet(f)
      BY <3>1, <3>2 DEF Quiet, Ended, Owns, Found, Writes, IsAccountOf, Same
    <3> QED
      BY <1>1, <2>4, <3>1, <3>3 DEF UpdateDiscordIdentity, dbVars
  <2>5. CASE ReplaceSession(f)
    <3>1. /\ Others(f) /\ Same(f) /\ flow[f].step = "rotating" /\ flow'[f].step = "committing"
          /\ flow'[f].user = flow[f].user /\ flow'[f].attempt = flow[f].attempt
      BY <2>5, StepForm DEF ReplaceSession, Steps
    <3>2. Found(f) => \E u \in users : IsAccountOf(u, f)
      BY DEF OwnInv
    <3>3. Quiet(f)
      BY <3>1, <3>2 DEF Quiet, Ended, Owns, Found, Writes, IsAccountOf, Same, Handle
    <3> QED
      BY <1>1, <2>5, <3>1, <3>3 DEF ReplaceSession, dbVars
  <2>6. CASE Abort(f)
    <3>1. /\ Others(f) /\ Same(f) /\ flow'[f].step = "answering"
      BY <2>6, AbortMoves
    <3>2. Quiet(f)
      BY <3>1 DEF Quiet, Ended, Owns, Found, Writes, Same
    <3> QED
      BY <1>1, <2>6, <3>1, <3>2 DEF Abort, dbVars
  <2>7. CASE CallbackAnswered(f)
    <3>1. /\ Others(f) /\ Same(f) /\ flow'[f].step = "over"
      BY <2>7, StepForm DEF CallbackAnswered, Steps
    <3>2. Quiet(f)
      BY <3>1 DEF Quiet, Ended, Owns, Found, Writes, Same
    <3> QED
      BY <1>1, <2>7, <3>1, <3>2 DEF CallbackAnswered, dbVars
  <2> QED
    BY <1>3, <2>1, <2>2, <2>3, <2>4, <2>5, <2>6, <2>7, CreateKeepsOne, CommitKeepsOne DEF SignIn
<1>4. ASSUME NEW c \in Calls, \/ \E b \in Browsers, logout \in BOOLEAN : Request(c, b, logout)
                              \/ Authenticate(c) \/ Logout(c) \/ CallAnswered(c)
      PROVE  OwnInv' /\ OneAccount'
  BY <1>2, <1>4 DEF Request, Authenticate, Logout, CallAnswered, dbVars
<1>5. CASE Outside
  BY <1>2, <1>5, DisableKeepsOne DEF Outside, Expire
<1>6. CASE UNCHANGED sessionVars
  BY <1>2, <1>6 DEF sessionVars, dbVars
<1> QED
  BY <1>3, <1>4, <1>5, <1>6 DEF SessionsNext
-----------------------------------------------------------------------------
(* Other requests                                                          *)

LEMMA CallForm ==
  ASSUME FormOK, NEW c \in Calls
  PROVE  /\ call[c] = Idle \/ call[c] \in CallState
         /\ call[c].step \in {"sent", "served", "refused", "over"} => call[c] \in CallState
BY DEF FormOK, Idle, CallState

OtherCalls(c) == \A d \in Calls \ {c} : call'[d] = call[d]
CallTyped == call' \in [Calls -> {Idle} \cup CallState]
SameCall(c) ==
  /\ call'[c].logout = call[c].logout /\ call'[c].token = call[c].token
  /\ call'[c].browser = call[c].browser

LEMMA SetCall ==
  ASSUME FormOK, NEW c \in Calls, NEW x \in CallState, call' = [call EXCEPT ![c] = x]
  PROVE  call'[c] = x /\ OtherCalls(c) /\ CallTyped
BY DEF FormOK, OtherCalls, CallTyped

LEMMA RequestMoves ==
  ASSUME FormOK, NEW c \in Calls, NEW b \in Browsers, NEW logout \in BOOLEAN,
         Request(c, b, logout)
  PROVE  /\ CallTyped /\ OtherCalls(c) /\ call'[c] \in CallState
         /\ call'[c].step = "sent" /\ call'[c].token = cookie[b]
         /\ cookie[b] \in Flows
<1> DEFINE x == [step |-> "sent", logout |-> logout, browser |-> b, token |-> cookie[b],
                 user |-> NoFlow]
<1>1. cookie[b] \in Flows
  BY DEF Request, FormOK, Tokens
<1>2. x \in CallState /\ x.step = "sent" /\ x.token = cookie[b]
  BY <1>1 DEF CallState
<1>3. call' = [call EXCEPT ![c] = x]
  BY DEF Request
<1> HIDE DEF x
<1> QED
  BY <1>1, <1>2, <1>3, SetCall

\* Every later step of a request sets its step, and Authenticate its user.
LEMMA CallMoves ==
  ASSUME FormOK, NEW c \in Calls, Authenticate(c) \/ Logout(c) \/ CallAnswered(c)
  PROVE  /\ CallTyped /\ OtherCalls(c) /\ SameCall(c) /\ call[c] \in CallState
         /\ Authenticate(c) => ~call[c].logout
         /\ Logout(c) => call[c].logout /\ call[c].step = "sent" /\ call'[c].step = "refused"
         /\ CallAnswered(c) => call[c].step \in {"served", "refused"} /\ call'[c].step = "over"
<1>1. call[c] \in CallState
  BY CallForm DEF Authenticate, Logout, CallAnswered
<1>2. ASSUME NEW to \in {"sent", "served", "refused", "over"},
             call' = [call EXCEPT ![c].step = to]
      PROVE  CallTyped /\ OtherCalls(c) /\ SameCall(c) /\ call'[c].step = to
  <2> DEFINE x == [call[c] EXCEPT !.step = to]
  <2>1. /\ x \in CallState /\ x.step = to /\ x.logout = call[c].logout
        /\ x.token = call[c].token /\ x.browser = call[c].browser
    BY <1>1 DEF CallState
  <2>2. call' = [call EXCEPT ![c] = x]
    BY <1>2
  <2> HIDE DEF x
  <2> QED
    BY <2>1, <2>2, SetCall DEF SameCall
<1>3. ASSUME NEW s \in sessions, call' = [call EXCEPT ![c].step = "served", ![c].user = s.user]
      PROVE  CallTyped /\ OtherCalls(c) /\ SameCall(c)
  <2> DEFINE x == [call[c] EXCEPT !.step = "served", !.user = s.user]
  <2>1. s.user \in SignIns
    BY DEF FormOK, Session
  <2>2. /\ x \in CallState /\ x.logout = call[c].logout
        /\ x.token = call[c].token /\ x.browser = call[c].browser
    BY <1>1, <2>1 DEF CallState
  <2>3. call' = [call EXCEPT ![c] = x]
    BY <1>3 DEF FormOK
  <2> HIDE DEF x
  <2> QED
    BY <2>2, <2>3, SetCall DEF SameCall
<1>4. CASE Authenticate(c)
  <2>1. /\ ~call[c].logout /\ call[c].step = "sent"
        /\ \/ call' = [call EXCEPT ![c].step = "refused"]
           \/ \E s \in sessions : call' = [call EXCEPT ![c].step = "served", ![c].user = s.user]
    BY <1>4 DEF Authenticate
  <2>2. ~Logout(c) /\ ~CallAnswered(c)
    BY <2>1 DEF Logout, CallAnswered
  <2> QED
    BY <1>1, <1>2, <1>3, <2>1, <2>2
<1>5. CASE Logout(c)
  <2>1. /\ call[c].logout /\ call[c].step = "sent" /\ call' = [call EXCEPT ![c].step = "refused"]
    BY <1>5 DEF Logout
  <2>2. ~Authenticate(c) /\ ~CallAnswered(c)
    BY <2>1 DEF Authenticate, CallAnswered
  <2> QED
    BY <1>1, <1>2, <2>1, <2>2
<1>6. CASE CallAnswered(c)
  <2>1. /\ call[c].step \in {"served", "refused"} /\ call' = [call EXCEPT ![c].step = "over"]
    BY <1>6 DEF CallAnswered
  <2>2. ~Authenticate(c) /\ ~Logout(c)
    BY <2>1 DEF Authenticate, Logout
  <2> QED
    BY <1>1, <1>2, <2>1, <2>2
<1> QED
  BY <1>4, <1>5, <1>6

-----------------------------------------------------------------------------
LEMMA FormStep ==
  ASSUME FormOK, OwnInv, OneAccount, [SessionsNext]_sessionVars
  PROVE  FormOK'
<1>1. ASSUME NEW f \in Flows, SignIn(f), ~Commit(f)
      PROVE  FormOK'
  <2>1. Typed /\ UNCHANGED <<users, sessions, call>>
    <3>1. Typed
      BY <1>1, StartMoves, CallbackMoves, FindMoves, CreateMoves, AbortMoves, StepForm
         DEF SignIn, UpdateDiscordIdentity, ReplaceSession, CallbackAnswered, Steps
    <3>2. UNCHANGED <<users, sessions, call>>
      BY <1>1 DEF SignIn, StartDiscord, DiscordCallback, GetUserByDiscordID, CreateUser, Abort,
                  UpdateDiscordIdentity, ReplaceSession, CallbackAnswered, dbVars
    <3> QED
      BY <3>1, <3>2
  <2>2. cookie' \in [Browsers -> Tokens]
    <3>1. CASE CallbackAnswered(f)
      <4>1. f \in Tokens /\ NoFlow \in Tokens
        BY DEF Tokens
      <4> DEFINE b == flow[f].browser
      <4>2. \/ cookie' = cookie
            \/ \E t \in {f, NoFlow, cookie[b]} : cookie' = [cookie EXCEPT ![b] = t]
        BY <3>1 DEF CallbackAnswered
      <4> HIDE DEF b
      <4> QED
        BY <4>1, <4>2 DEF FormOK
    <3>2. CASE ~CallbackAnswered(f)
      BY <1>1, <3>2 DEF FormOK, SignIn, StartDiscord, DiscordCallback, GetUserByDiscordID,
                        CreateUser, Abort, UpdateDiscordIdentity, ReplaceSession
    <3> QED
      BY <3>1, <3>2
  <2> QED
    BY <2>1, <2>2 DEF FormOK, Typed
<1>2. ASSUME NEW f \in Flows, Commit(f)
      PROVE  FormOK'
  <2>1. users' \subseteq UserRow /\ sessions' \subseteq Session
    <3> DEFINE row == [id |-> f, discord |-> flow[f].discord, handle |-> Handle(f),
                       disabled |-> FALSE]
               session == [token |-> f, user |-> flow[f].user]
    <3>1. /\ row \in UserRow
          /\ users' = IF flow[f].user = f THEN users \cup {row} ELSE users
          /\ sessions' = {s \in sessions : s.token # flow[f].previous} \cup {session}
          /\ flow[f].user \in SignIns => session \in Session
      BY <1>2, CommittedForm
    <3>2. flow[f].user \in SignIns
      BY <1>2, CommitKeepsOne
    <3> HIDE DEF row, session
    <3> QED
      BY <3>1, <3>2 DEF FormOK
  <2>2. Typed /\ call' = call /\ cookie' = cookie
    BY <1>2, CommitMoves DEF Commit
  <2> QED
    BY <2>1, <2>2 DEF FormOK, Typed
<1>3. ASSUME NEW c \in Calls, NEW b \in Browsers, NEW logout \in BOOLEAN, Request(c, b, logout)
      PROVE  FormOK'
  BY <1>3, RequestMoves DEF Request, dbVars, FormOK, CallTyped
<1>4. ASSUME NEW c \in Calls, Authenticate(c) \/ Logout(c) \/ CallAnswered(c)
      PROVE  FormOK'
  <2>1. CallTyped /\ UNCHANGED <<users, flow>> /\ sessions' \subseteq sessions
    BY <1>4, CallMoves DEF Authenticate, Logout, CallAnswered, dbVars
  <2>2. cookie' \in [Browsers -> Tokens]
    BY <1>4 DEF Authenticate, Logout, CallAnswered, FormOK, Tokens
  <2> QED
    BY <2>1, <2>2 DEF FormOK, CallTyped
<1>5. CASE Outside
  <2>1. UNCHANGED <<sessions, flow, call, cookie>>
    BY <1>5 DEF Outside, Expire, Disable
  <2>2. users' \subseteq UserRow
    <3>1. CASE users' = users
      BY <3>1 DEF FormOK
    <3>2. ASSUME NEW u \in users, Disable(u)
          PROVE  users' \subseteq UserRow
      BY <3>2, DisableKeepsOne
    <3> QED
      BY <1>5, <3>1, <3>2 DEF Outside, Expire
  <2> QED
    BY <2>1, <2>2 DEF FormOK
<1>6. CASE UNCHANGED sessionVars
  BY <1>6 DEF sessionVars, dbVars, FormOK
<1> QED
  BY <1>1, <1>2, <1>3, <1>4, <1>5, <1>6 DEF SessionsNext

LEMMA AccountsInit == SessionsInit => FormOK /\ OwnInv /\ OneAccount
<1> SUFFICES ASSUME SessionsInit
             PROVE  FormOK /\ OwnInv /\ OneAccount
  OBVIOUS
<1> DEFINE row(e) == [id |-> e, discord |-> Registered[e].discord,
                      handle |-> Registered[e].handle, disabled |-> FALSE]
<1>1. /\ users = {row(e) : e \in Earlier} /\ sessions = {}
      /\ flow = [f \in Flows |-> Idle] /\ call = [c \in Calls |-> Idle]
      /\ cookie = [b \in Browsers |-> NoFlow]
  BY DEF SessionsInit
<1>2. \A e \in Earlier : Registered[e].discord \in Discord /\ e \in SignIns
                         /\ Registered[e].handle \in SomeHandles
  BY EarlierAssumption DEF SignIns, SomeHandles
<1>3. \A e \in Earlier : row(e) \in UserRow
  BY <1>2 DEF UserRow
<1>4. \A e \in Earlier : /\ row(e).id = e /\ row(e).discord = Registered[e].discord
                         /\ row(e).handle = Registered[e].handle
  OBVIOUS
<1> HIDE DEF row
<1>5. FormOK
  BY <1>1, <1>3 DEF FormOK, Tokens
<1>6. OwnInv
  BY <1>1, <1>4, EarlierAssumption DEF OwnInv, Owns, Found, Writes, Idle
<1>7. OneAccount
  BY <1>1, <1>4, EarlierAssumption DEF OneAccount
<1> QED
  BY <1>5, <1>6, <1>7

AccountsInv == FormOK /\ OwnInv /\ OneAccount

LEMMA AccountsInductive == SessionsSafety => []AccountsInv
<1>1. SessionsInit => AccountsInv
  BY AccountsInit DEF AccountsInv
<1>2. AccountsInv /\ [SessionsNext]_sessionVars => AccountsInv'
  BY AccountsStep, FormStep DEF AccountsInv
<1> QED
  BY <1>1, <1>2, PTL DEF SessionsSafety

\* Overlapping first sign-ins of a Discord account make one user, overlapping
\* sign-ins make no handle twice, and every session is of the account of the
\* person who signed in.
THEOREM OneAccountEach == SessionsSafety => []OneAccount
<1>1. AccountsInv => OneAccount
  BY DEF AccountsInv
<1> QED
  BY <1>1, AccountsInductive, PTL
-----------------------------------------------------------------------------
(* What a step does to rows                                                *)

\* Whoever has identity and handle keeps them.
LEMMA UsersStay ==
  ASSUME FormOK, [SessionsNext]_sessionVars, NEW u \in users
  PROVE  \E w \in users' : w.id = u.id /\ w.discord = u.discord /\ w.handle = u.handle
<1>1. CASE users' = users
  BY <1>1
<1>2. ASSUME NEW f \in Flows, Commit(f)
      PROVE  \E w \in users' : w.id = u.id /\ w.discord = u.discord /\ w.handle = u.handle
  <2>1. users \subseteq users'
    BY <1>2 DEF Commit
  <2> QED
    BY <2>1
<1>3. ASSUME NEW x \in users, Disable(x)
      PROVE  \E w \in users' : w.id = u.id /\ w.discord = u.discord /\ w.handle = u.handle
  <2> DEFINE v == [x EXCEPT !.disabled = TRUE]
  <2>1. v.id = x.id /\ v.discord = x.discord /\ v.handle = x.handle
    BY DEF FormOK, UserRow
  <2>2. users' = (users \ {x}) \cup {v}
    BY <1>3 DEF Disable
  <2> HIDE DEF v
  <2> QED
    BY <2>1, <2>2
<1>4. ASSUME NEW f \in Flows, SignIn(f), ~Commit(f)
      PROVE  users' = users
  BY <1>4 DEF SignIn, StartDiscord, DiscordCallback, GetUserByDiscordID, CreateUser, Abort,
              UpdateDiscordIdentity, ReplaceSession, CallbackAnswered, dbVars
<1>5. ASSUME NEW c \in Calls, \/ \E b \in Browsers, logout \in BOOLEAN : Request(c, b, logout)
                              \/ Authenticate(c) \/ Logout(c) \/ CallAnswered(c)
      PROVE  users' = users
  BY <1>5 DEF Request, Authenticate, Logout, CallAnswered, dbVars
<1>6. ASSUME \E t \in Flows : Expire(t)
      PROVE  users' = users
  BY <1>6 DEF Expire
<1>7. ASSUME UNCHANGED sessionVars
      PROVE  users' = users
  BY <1>7 DEF sessionVars, dbVars
<1> QED
  BY <1>1, <1>2, <1>3, <1>4, <1>5, <1>6, <1>7 DEF SessionsNext, Outside

\* Sessions change only by the commit of a sign-in and by a logout.
LEMMA SessionsStay ==
  ASSUME [SessionsNext]_sessionVars, \A f \in Flows : ~Commit(f), \A c \in Calls : ~Logout(c)
  PROVE  sessions' = sessions
<1>1. ASSUME NEW f \in Flows, SignIn(f)
      PROVE  sessions' = sessions
  BY <1>1 DEF SignIn, StartDiscord, DiscordCallback, GetUserByDiscordID, CreateUser, Abort,
              UpdateDiscordIdentity, ReplaceSession, CallbackAnswered, dbVars
<1>2. ASSUME NEW c \in Calls, \/ \E b \in Browsers, logout \in BOOLEAN : Request(c, b, logout)
                              \/ Authenticate(c) \/ CallAnswered(c)
      PROVE  sessions' = sessions
  BY <1>2 DEF Request, Authenticate, CallAnswered, dbVars
<1>3. ASSUME Outside
      PROVE  sessions' = sessions
  BY <1>3 DEF Outside, Expire, Disable
<1>4. ASSUME UNCHANGED sessionVars
      PROVE  sessions' = sessions
  BY <1>4 DEF sessionVars, dbVars
<1> QED
  BY <1>1, <1>2, <1>3, <1>4 DEF SessionsNext

\* The commit of a sign-in adds its session, and takes away the one it replaces.
LEMMA CommitRotates ==
  ASSUME FormOK, OwnInv, NEW f \in Flows, Commit(f)
  PROVE  \E session \in sessions' \ sessions :
           /\ session.token = f /\ session = [token |-> f, user |-> flow[f].user]
           /\ \A s \in sessions' : s = session \/ (s \in sessions /\ s.token # flow[f].previous)
           /\ \A s \in sessions \ sessions' : s.token = flow[f].previous
<1> DEFINE session == [token |-> f, user |-> flow[f].user]
<1>1. /\ sessions' = {s \in sessions : s.token # flow[f].previous} \cup {session}
      /\ session.token = f
  BY DEF Commit
<1>2. \A s \in sessions : s.token # f
  <2>1. ~Ended(f)
    BY CommitMoves DEF Ended
  <2> QED
    BY <2>1 DEF OwnInv
<1>3. session = [token |-> f, user |-> flow[f].user]
  OBVIOUS
<1> HIDE DEF session
<1>4. session \in sessions' \ sessions
  BY <1>1, <1>2
<1>5. \A s \in sessions' : s = session \/ (s \in sessions /\ s.token # flow[f].previous)
  BY <1>1
<1>6. \A s \in sessions \ sessions' : s.token = flow[f].previous
  BY <1>1
<1> QED
  BY <1>1, <1>3, <1>4, <1>5, <1>6

-----------------------------------------------------------------------------
\* A first sign-in that aborts, fails or never ends leaves no account behind:
\* the row and its first session are of one transaction.
THEOREM AccountsComeWithASession == SessionsSafety => AccountsComeWithSessions
<1> DEFINE New(u) == [token |-> u.id, user |-> u.id] \in sessions' \ sessions
           Step1 == \A u \in users' : (\A v \in users : v.id # u.id) => New(u)
<1>1. ASSUME AccountsInv, [SessionsNext]_sessionVars
      PROVE  Step1
  <2>0. FormOK /\ OwnInv
    BY <1>1 DEF AccountsInv
  <2>1. ASSUME NEW f \in Flows, Commit(f)
        PROVE  Step1
    <3> DEFINE row == [id |-> f, discord |-> flow[f].discord, handle |-> Handle(f),
                       disabled |-> FALSE]
    <3>1. users' = IF flow[f].user = f THEN users \cup {row} ELSE users
      BY <2>0, <2>1, CommittedForm
    <3>2. row.id = f
      OBVIOUS
    <3> HIDE DEF row
    <3>3. [token |-> f, user |-> flow[f].user] \in sessions' \ sessions
      BY <2>0, <2>1, CommitRotates
    <3> QED
      BY <3>1, <3>2, <3>3
  <2>2. ASSUME NEW x \in users, Disable(x)
        PROVE  Step1
    <3> DEFINE v == [x EXCEPT !.disabled = TRUE]
    <3>1. v.id = x.id
      BY <2>0 DEF FormOK, UserRow
    <3>2. users' = (users \ {x}) \cup {v}
      BY <2>2 DEF Disable
    <3> HIDE DEF v
    <3> QED
      BY <3>1, <3>2
  <2>3. CASE users' = users
    BY <2>3
  <2>4. ASSUME NEW f \in Flows, SignIn(f), ~Commit(f)
        PROVE  users' = users
    BY <2>4 DEF SignIn, StartDiscord, DiscordCallback, GetUserByDiscordID, CreateUser, Abort,
                UpdateDiscordIdentity, ReplaceSession, CallbackAnswered, dbVars
  <2>5. ASSUME NEW c \in Calls, \/ \E b \in Browsers, logout \in BOOLEAN : Request(c, b, logout)
                                \/ Authenticate(c) \/ Logout(c) \/ CallAnswered(c)
        PROVE  users' = users
    BY <2>5 DEF Request, Authenticate, Logout, CallAnswered, dbVars
  <2>6. ASSUME \/ \E t \in Flows : Expire(t)
               \/ UNCHANGED sessionVars
        PROVE  users' = users
    BY <2>6 DEF Expire, sessionVars, dbVars
  <2> HIDE DEF Step1
  <2> QED
    BY <1>1, <2>1, <2>2, <2>3, <2>4, <2>5, <2>6 DEF SessionsNext, Outside
<1>2. AccountsInv /\ [SessionsNext]_sessionVars => [Step1]_sessionVars
  BY <1>1
<1> QED
  BY <1>2, AccountsInductive, PTL DEF SessionsSafety, AccountsComeWithSessions

\* A sign-in that fails leaves the browser's earlier session alone: a session
\* disappears by a logout, or in the step that stores the one replacing it.
THEOREM SessionsRotateWhole == SessionsSafety => RotationIsWhole
<1> DEFINE Step1 ==
      \A s \in sessions \ sessions' :
       \/ \E c \in Calls :
            /\ call[c].step = "sent" /\ call'[c].step = "refused"
            /\ call[c].logout /\ call[c].token = s.token
       \/ \E f \in Flows :
            /\ flow[f] # Idle /\ flow[f].previous = s.token
            /\ \E new \in sessions' \ sessions : new.token = f
<1>1. ASSUME AccountsInv, [SessionsNext]_sessionVars
      PROVE  Step1
  <2>0. FormOK /\ OwnInv
    BY <1>1 DEF AccountsInv
  <2>1. ASSUME NEW f \in Flows, Commit(f)
        PROVE  Step1
    <3>1. flow[f] # Idle
      BY <2>0, <2>1, CommitMoves, FlowForm DEF Idle, FlowState
    <3> QED
      BY <2>0, <2>1, <3>1, CommitRotates
  <2>2. ASSUME NEW c \in Calls, Logout(c)
        PROVE  Step1
    <3>1. /\ call[c].step = "sent" /\ call'[c].step = "refused" /\ call[c].logout
      BY <2>0, <2>2, CallMoves
    <3>2. \A s \in sessions \ sessions' : s.token = call[c].token
      BY <2>2 DEF Logout
    <3> QED
      BY <3>1, <3>2
  <2>3. CASE sessions' = sessions
    BY <2>3
  <2> QED
    BY <1>1, <2>1, <2>2, <2>3, SessionsStay
<1>2. AccountsInv /\ [SessionsNext]_sessionVars => [Step1]_sessionVars
  BY <1>1
<1> QED
  BY <1>2, AccountsInductive, PTL DEF SessionsSafety, RotationIsWhole
-----------------------------------------------------------------------------
(* Old tokens                                                              *)

SignedIn(f) == flow[f] # Idle /\ flow[f].outcome = "signed in"

\* Every token in use is of a sign-in that is done: none is stored again.
TokenInv ==
  /\ \A b \in Browsers : cookie[b] \in Flows => Ended(cookie[b])
  /\ \A c \in Calls : call[c] # Idle => Ended(call[c].token)
  /\ \A c \in Calls : call[c] # Idle /\ call[c].logout => call[c].step # "served"
  /\ \A f \in Flows : flow[f] # Idle /\ flow[f].previous \in Flows => Ended(flow[f].previous)
  /\ \A f \in Flows : SignedIn(f) => Ended(f)

\* What a step of a sign-in other than its commit does to the tokens in use.
LEMMA SignInTokens ==
  ASSUME FormOK, TokenInv, NEW f \in Flows, SignIn(f), ~Commit(f)
  PROVE  /\ Others(f) /\ call' = call /\ sessions' = sessions /\ expired' = expired
         /\ Ended(f) => Ended(f)'
         /\ \/ flow'[f].previous = NoFlow
            \/ flow'[f].previous = flow[f].previous /\ flow[f] # Idle
            \/ \E b \in Browsers : flow'[f].previous = cookie[b]
         /\ flow'[f].outcome = "signed in" =>
              SignedIn(f) /\ flow'[f].previous = flow[f].previous
         /\ \A b \in Browsers : cookie'[b] \in Flows =>
              cookie'[b] = cookie[b] \/ (cookie'[b] = f /\ Ended(f)')
<1>1. call' = call /\ sessions' = sessions /\ expired' = expired
  BY DEF SignIn, StartDiscord, DiscordCallback, GetUserByDiscordID, CreateUser, Abort,
         UpdateDiscordIdentity, ReplaceSession, CallbackAnswered, dbVars
<1>2. ASSUME NEW b \in Browsers, NEW d \in Discord, NEW name \in Names, StartDiscord(f, b, d, name)
      PROVE  /\ Others(f) /\ cookie' = cookie /\ ~Ended(f)
             /\ flow'[f].previous = NoFlow /\ flow'[f].outcome = "none"
  <2>1. ~Ended(f)
    BY <1>2, StartMoves DEF Ended, Idle
  <2> QED
    BY <1>2, <2>1, StartMoves DEF StartDiscord
<1>3. ASSUME DiscordCallback(f)
      PROVE  /\ Others(f) /\ cookie' = cookie /\ ~Ended(f)
             /\ \E b \in Browsers : flow'[f].previous = cookie[b]
             /\ flow'[f].outcome # "signed in"
  <2>1. ~Ended(f) /\ flow[f] # Idle
    BY <1>3, CallbackMoves, FlowForm DEF Ended, Steps
  <2>2. flow[f].outcome # "signed in"
    BY <2>1 DEF TokenInv, SignedIn
  <2> QED
    BY <1>3, <2>1, <2>2, CallbackMoves DEF DiscordCallback
<1>4. ASSUME \/ GetUserByDiscordID(f) \/ CreateUser(f) \/ Abort(f)
             \/ UpdateDiscordIdentity(f) \/ ReplaceSession(f)
      PROVE  /\ Others(f) /\ cookie' = cookie /\ ~Ended(f) /\ flow[f] # Idle
             /\ flow'[f].previous = flow[f].previous
             /\ flow'[f].outcome # "signed in"
  <2>1. /\ Others(f) /\ SameCookies(f)
        /\ flow[f].step \in {"finding", "updating", "inserting", "rotating", "committing"}
        /\ \/ flow'[f].outcome = flow[f].outcome
           \/ flow'[f].outcome \in {"failed", "disabled", "exhausted"}
    BY <1>4, FindMoves, CreateMoves, AbortMoves, StepForm
       DEF UpdateDiscordIdentity, ReplaceSession, Steps
  <2>2. ~Ended(f) /\ flow[f] # Idle
    BY <2>1, FlowForm DEF Ended, Steps
  <2>3. flow[f].outcome # "signed in"
    BY <2>2 DEF TokenInv, SignedIn
  <2>4. cookie' = cookie
    BY <1>4 DEF GetUserByDiscordID, CreateUser, Abort, UpdateDiscordIdentity, ReplaceSession
  <2> QED
    BY <2>1, <2>2, <2>3, <2>4 DEF SameCookies
<1>5. ASSUME CallbackAnswered(f)
      PROVE  /\ Others(f) /\ Ended(f)' /\ flow[f] # Idle
             /\ flow'[f].previous = flow[f].previous /\ flow'[f].outcome = flow[f].outcome
             /\ \A b \in Browsers : cookie'[b] \in Flows => cookie'[b] = cookie[b] \/ cookie'[b] = f
  <2>1. /\ Others(f) /\ SameCookies(f) /\ flow[f].step \in Steps
        /\ flow'[f].step = "over" /\ flow'[f].outcome = flow[f].outcome
    BY <1>5, StepForm DEF CallbackAnswered, Steps
  <2>2. \/ cookie' = cookie
        \/ \E t \in {f, NoFlow, cookie[flow[f].browser]} :
             cookie' = [cookie EXCEPT ![flow[f].browser] = t]
    BY <1>5 DEF CallbackAnswered
  <2>3. NoFlow \notin Flows
    BY NoFlowAssumption
  <2>4. \A b \in Browsers : cookie'[b] \in Flows => cookie'[b] = cookie[b] \/ cookie'[b] = f
    BY <2>2, <2>3 DEF FormOK
  <2> QED
    BY <2>1, <2>4, FlowForm DEF SameCookies, Ended
<1>6. \/ \E b \in Browsers, d \in Discord, name \in Names : StartDiscord(f, b, d, name)
      \/ DiscordCallback(f) \/ CallbackAnswered(f)
      \/ \/ GetUserByDiscordID(f) \/ CreateUser(f) \/ Abort(f)
         \/ UpdateDiscordIdentity(f) \/ ReplaceSession(f)
  BY DEF SignIn
<1> QED
  BY <1>1, <1>2, <1>3, <1>4, <1>5, <1>6 DEF SignedIn

\* A sign-in that is done stays done, and stores no session any more.
LEMMA DoneStays ==
  ASSUME FormOK, OwnInv, TokenInv, [SessionsNext]_sessionVars, NEW t \in Flows, Ended(t)
  PROVE  Ended(t)' /\ (Live(t)' => Live(t))
<1>1. ASSUME NEW f \in Flows, SignIn(f), ~Commit(f)
      PROVE  Ended(t)' /\ (Live(t)' => Live(t))
  <2>1. Ended(t)'
    BY <1>1, SignInTokens DEF Others, Ended
  <2> QED
    BY <1>1, <2>1, SignInTokens DEF Live
<1>2. ASSUME NEW f \in Flows, Commit(f)
      PROVE  Ended(t)' /\ (Live(t)' => Live(t))
  <2>1. Others(f) /\ flow[f].step = "committing" /\ expired' = expired
    BY <1>2, CommitMoves DEF Commit
  <2>2. t # f
    BY <2>1 DEF Ended
  <2>3. Ended(t)'
    BY <2>1, <2>2 DEF Others, Ended
  <2>4. \A s \in sessions' : s.token = f \/ s \in sessions
    BY <1>2, CommitRotates
  <2> QED
    BY <2>1, <2>2, <2>3, <2>4 DEF Live
<1>3. ASSUME NEW c \in Calls, \/ \E b \in Browsers, logout \in BOOLEAN : Request(c, b, logout)
                              \/ Authenticate(c) \/ Logout(c) \/ CallAnswered(c)
      PROVE  flow' = flow /\ expired' = expired /\ sessions' \subseteq sessions
  BY <1>3 DEF Request, Authenticate, Logout, CallAnswered, dbVars
<1>4. ASSUME Outside \/ UNCHANGED sessionVars
      PROVE  flow' = flow /\ expired \subseteq expired' /\ sessions' \subseteq sessions
  BY <1>4 DEF Outside, Expire, Disable, sessionVars, dbVars
<1>5. ASSUME flow' = flow, expired \subseteq expired', sessions' \subseteq sessions
      PROVE  Ended(t)' /\ (Live(t)' => Live(t))
  BY <1>5 DEF Ended, Live
<1> QED
  BY <1>1, <1>2, <1>3, <1>4, <1>5 DEF SessionsNext

\* The tokens in use after a step are tokens in use before it, or the new
\* cookie of a sign-in that is done.
LEMMA TokenStep ==
  ASSUME FormOK, OwnInv, OneAccount, TokenInv, [SessionsNext]_sessionVars
  PROVE  TokenInv'
<1> DEFINE InUse(t) == \/ \E b \in Browsers : cookie[b] = t
                       \/ \E c \in Calls : call[c] # Idle /\ call[c].token = t
                       \/ \E f \in Flows : flow[f] # Idle /\ flow[f].previous = t
           Answered(f) == SignedIn(f) => Ended(f)
           Served(c) == call[c] # Idle /\ call[c].logout => call[c].step # "served"
           Good == /\ \A t \in Flows : InUse(t)' => InUse(t) \/ Ended(t)'
                   /\ \A f \in Flows : Answered(f)'
                   /\ \A c \in Calls : Served(c)'
<1>1. \A t \in Flows : InUse(t) => Ended(t)
  BY DEF TokenInv
<1>2. \A f \in Flows : Answered(f)
  BY DEF TokenInv
<1>3. \A c \in Calls : Served(c)
  BY DEF TokenInv
<1>4. NoFlow \notin Flows
  BY NoFlowAssumption
<1>5. ASSUME NEW f \in Flows, SignIn(f), ~Commit(f)
      PROVE  Good
  <2>1. /\ Others(f) /\ call' = call
        /\ Ended(f) => Ended(f)'
        /\ \/ flow'[f].previous = NoFlow
           \/ flow'[f].previous = flow[f].previous /\ flow[f] # Idle
           \/ \E b \in Browsers : flow'[f].previous = cookie[b]
        /\ flow'[f].outcome = "signed in" => SignedIn(f)
        /\ \A b \in Browsers : cookie'[b] \in Flows =>
             cookie'[b] = cookie[b] \/ (cookie'[b] = f /\ Ended(f)')
    BY <1>5, SignInTokens
  <2>2. \A t \in Flows : InUse(t)' => InUse(t) \/ Ended(t)'
    BY <1>4, <2>1 DEF Others
  <2>3. \A g \in Flows : Answered(g)'
    BY <1>2, <2>1 DEF Others, SignedIn, Ended
  <2>4. \A c \in Calls : Served(c)'
    BY <1>3, <2>1
  <2> QED
    BY <2>2, <2>3, <2>4
<1>6. ASSUME NEW f \in Flows, Commit(f)
      PROVE  Good
  <2>1. /\ Others(f) /\ SameCookies(f) /\ flow[f] # Idle /\ Ended(f)'
        /\ call' = call /\ cookie' = cookie
    BY <1>6, CommitMoves, FlowForm DEF Commit, Steps, Ended
  <2>2. \A t \in Flows : InUse(t)' => InUse(t)
    BY <2>1 DEF Others, SameCookies
  <2>3. \A g \in Flows : Answered(g)'
    BY <1>2, <2>1 DEF Others, SignedIn, Ended
  <2>4. \A c \in Calls : Served(c)'
    BY <1>3, <2>1
  <2> QED
    BY <2>2, <2>3, <2>4
<1>7. ASSUME NEW c \in Calls, NEW b \in Browsers, NEW logout \in BOOLEAN, Request(c, b, logout)
      PROVE  Good
  <2>1. /\ OtherCalls(c) /\ call'[c].step = "sent" /\ call'[c].token = cookie[b]
        /\ flow' = flow /\ cookie' = cookie
    BY <1>7, RequestMoves DEF Request
  <2>2. \A t \in Flows : InUse(t)' => InUse(t)
    BY <2>1 DEF OtherCalls
  <2>3. \A g \in Flows : Answered(g)'
    BY <1>2, <2>1 DEF SignedIn, Ended
  <2>4. \A d \in Calls : Served(d)'
    BY <1>3, <2>1 DEF OtherCalls
  <2> QED
    BY <2>2, <2>3, <2>4
<1>8. ASSUME NEW c \in Calls, Authenticate(c) \/ Logout(c) \/ CallAnswered(c)
      PROVE  Good
  <2>1. /\ OtherCalls(c) /\ SameCall(c) /\ call[c] # Idle /\ flow' = flow
        /\ call[c].logout => call'[c].step # "served"
    BY <1>8, CallMoves, CallForm DEF Authenticate, Logout, CallAnswered, Idle, CallState
  <2>2. \A b \in Browsers : cookie'[b] \in Flows => cookie'[b] = cookie[b]
    BY <1>4, <1>8 DEF Authenticate, Logout, CallAnswered, FormOK
  <2>3. \A t \in Flows : InUse(t)' => InUse(t)
    BY <2>1, <2>2 DEF OtherCalls, SameCall
  <2>4. \A g \in Flows : Answered(g)'
    BY <1>2, <2>1 DEF SignedIn, Ended
  <2>5. \A d \in Calls : Served(d)'
    BY <1>3, <2>1 DEF OtherCalls, SameCall
  <2> QED
    BY <2>3, <2>4, <2>5
<1>9. ASSUME Outside \/ UNCHANGED sessionVars
      PROVE  Good
  <2>1. UNCHANGED <<flow, call, cookie>>
    BY <1>9 DEF Outside, Expire, Disable, sessionVars
  <2> QED
    BY <1>2, <1>3, <2>1 DEF SignedIn, Ended
<1>10. Good
  BY <1>5, <1>6, <1>7, <1>8, <1>9 DEF SessionsNext
<1>11. \A t \in Flows : Ended(t) => Ended(t)'
  BY DoneStays
<1>12. \A t \in Flows : InUse(t)' => Ended(t)'
  BY <1>1, <1>10, <1>11
<1>13. \A c \in Calls : call'[c] # Idle => call'[c].token \in Flows
  <2>1. FormOK'
    BY FormStep
  <2> QED
    BY <2>1, CallForm DEF FormOK, CallState
<1> QED
  BY <1>10, <1>12, <1>13 DEF TokenInv, SignedIn, Ended

\* The tokens that are to open nothing any more.
LoggedOut(t) ==
  \E c \in Calls : /\ call[c] # Idle /\ call[c].logout
                   /\ call[c].step \in {"refused", "over"} /\ call[c].token = t
Replaced(t) == \E f \in Flows : SignedIn(f) /\ flow[f].previous = t

LEMMA RetiredAreDead ==
  ASSUME FormOK
  PROVE  OldTokensAreDead <=> \A t \in Flows : LoggedOut(t) \/ Replaced(t) => ~Live(t)
<1>1. \A c \in Calls : call[c] # Idle => call[c].token \in Flows
  BY CallForm DEF CallState
<1>2. \A f \in Flows : flow[f] # Idle /\ flow[f].previous # NoFlow => flow[f].previous \in Flows
  BY FlowForm DEF FlowState, Tokens
<1>3. NoFlow \notin Flows
  BY NoFlowAssumption
<1> QED
  BY <1>1, <1>2, <1>3 DEF OldTokensAreDead, LoggedOut, Replaced, SignedIn

\* A token is retired in the very step that deletes its session.
LEMMA RetiredStep ==
  ASSUME FormOK, OwnInv, TokenInv, [SessionsNext]_sessionVars, NEW t \in Flows,
         (LoggedOut(t) \/ Replaced(t))'
  PROVE  LoggedOut(t) \/ Replaced(t) \/ ~Live(t)'
<1>1. ASSUME NEW f \in Flows, SignIn(f), ~Commit(f)
      PROVE  LoggedOut(t) \/ Replaced(t)
  <2>1. /\ Others(f) /\ call' = call
        /\ flow'[f].outcome = "signed in" => SignedIn(f) /\ flow'[f].previous = flow[f].previous
    BY <1>1, SignInTokens
  <2> QED
    BY <2>1 DEF LoggedOut, Replaced, SignedIn, Others
<1>2. ASSUME NEW f \in Flows, Commit(f)
      PROVE  LoggedOut(t) \/ Replaced(t) \/ ~Live(t)'
  <2>1. /\ Others(f) /\ SameCookies(f) /\ flow[f] # Idle /\ call' = call
        /\ flow[f].step = "committing"
    BY <1>2, CommitMoves, FlowForm DEF Commit, Steps
  <2>2. LoggedOut(t) \/ Replaced(t) \/ flow[f].previous = t
    BY <2>1 DEF LoggedOut, Replaced, SignedIn, Others, SameCookies
  <2>3. CASE flow[f].previous = t
    <3>1. Ended(t)
      BY <2>1, <2>3 DEF TokenInv
    <3>2. t # f
      BY <2>1, <3>1 DEF Ended
    <3>3. \A s \in sessions' : s.token = f \/ s.token # t
      BY <1>2, <2>3, CommitRotates
    <3> QED
      BY <3>2, <3>3 DEF Live
  <2> QED
    BY <2>2, <2>3
<1>3. ASSUME NEW c \in Calls, NEW b \in Browsers, NEW logout \in BOOLEAN, Request(c, b, logout)
      PROVE  LoggedOut(t) \/ Replaced(t)
  <2>1. OtherCalls(c) /\ call'[c].step = "sent" /\ flow' = flow
    BY <1>3, RequestMoves DEF Request
  <2> QED
    BY <2>1 DEF LoggedOut, Replaced, SignedIn, OtherCalls
<1>4. ASSUME NEW c \in Calls, Authenticate(c) \/ CallAnswered(c)
      PROVE  LoggedOut(t) \/ Replaced(t)
  <2>1. /\ OtherCalls(c) /\ SameCall(c) /\ call[c] # Idle /\ flow' = flow
        /\ call[c].logout => call[c].step = "refused"
    <3>1. /\ OtherCalls(c) /\ SameCall(c) /\ call[c] # Idle
          /\ Authenticate(c) => ~call[c].logout
          /\ CallAnswered(c) => call[c].step \in {"served", "refused"}
      BY <1>4, CallMoves DEF Idle, CallState
    <3>2. call[c].logout => call[c].step # "served"
      BY <3>1 DEF TokenInv
    <3> QED
      BY <1>4, <3>1, <3>2 DEF Authenticate, CallAnswered
  <2> QED
    BY <2>1 DEF LoggedOut, Replaced, SignedIn, OtherCalls, SameCall
<1>5. ASSUME NEW c \in Calls, Logout(c)
      PROVE  LoggedOut(t) \/ Replaced(t) \/ ~Live(t)'
  <2>1. OtherCalls(c) /\ SameCall(c) /\ flow' = flow
    BY <1>5, CallMoves DEF Logout
  <2>2. LoggedOut(t) \/ Replaced(t) \/ call[c].token = t
    BY <2>1 DEF LoggedOut, Replaced, SignedIn, OtherCalls, SameCall
  <2>3. \A s \in sessions' : s.token # call[c].token
    BY <1>5 DEF Logout
  <2> QED
    BY <2>2, <2>3 DEF Live
<1>6. ASSUME Outside \/ UNCHANGED sessionVars
      PROVE  LoggedOut(t) \/ Replaced(t)
  <2>1. UNCHANGED <<flow, call>>
    BY <1>6 DEF Outside, Expire, Disable, sessionVars
  <2> QED
    BY <2>1 DEF LoggedOut, Replaced, SignedIn
<1> QED
  BY <1>1, <1>2, <1>3, <1>4, <1>5, <1>6 DEF SessionsNext

\* What a browser logged out of, and what its sign-in replaced, opens nothing
\* any more, whatever other requests carry the old token meanwhile.
THEOREM OldTokensStayDead == SessionsSafety => []OldTokensAreDead
<1> DEFINE IInv == TokenInv /\ OldTokensAreDead
<1>1. SessionsInit => IInv
  BY NoFlowAssumption DEF SessionsInit, TokenInv, SignedIn, OldTokensAreDead
<1>2. AccountsInv /\ IInv /\ [SessionsNext]_sessionVars => IInv'
  <2> SUFFICES ASSUME AccountsInv, IInv, [SessionsNext]_sessionVars
               PROVE  IInv'
    OBVIOUS
  <2>1. FormOK /\ OwnInv /\ OneAccount /\ TokenInv /\ OldTokensAreDead
    BY DEF AccountsInv
  <2>2. TokenInv'
    BY <2>1, TokenStep
  <2>3. \A t \in Flows : LoggedOut(t) \/ Replaced(t) => ~Live(t) /\ Ended(t)
    <3>1. \A t \in Flows : LoggedOut(t) \/ Replaced(t) => Ended(t)
      BY <2>1 DEF TokenInv, LoggedOut, Replaced, SignedIn
    <3> QED
      BY <2>1, <3>1, RetiredAreDead
  <2>4. \A t \in Flows : (LoggedOut(t) \/ Replaced(t))' => ~Live(t)'
    BY <2>1, <2>3, RetiredStep, DoneStays
  <2>5. FormOK'
    BY <2>1, FormStep
  <2>6. \A c \in Calls : call'[c] # Idle => call'[c].token \in Flows
    BY <2>5 DEF FormOK, CallState
  <2>7. \A f \in Flows : flow'[f] # Idle /\ flow'[f].previous # NoFlow => flow'[f].previous \in Flows
    BY <2>5 DEF FormOK, FlowState, Tokens
  <2>8. OldTokensAreDead'
    BY <2>4, <2>6, <2>7 DEF OldTokensAreDead, LoggedOut, Replaced, SignedIn
  <2> QED
    BY <2>2, <2>8
<1>3. IInv => OldTokensAreDead
  OBVIOUS
<1> QED
  BY <1>1, <1>2, <1>3, AccountsInductive, PTL DEF SessionsSafety

-----------------------------------------------------------------------------
(* Giving up                                                               *)

TakenBefore(f, n) ==
  \E u \in users : u.handle = Candidate[flow[f].name][n] /\ u.discord # flow[f].discord
HasAccount(f) == \E u \in users : u.discord = flow[f].discord
TriedAreTaken(f) == \A n \in 1..MaxAttempts : n < flow[f].attempt => TakenBefore(f, n)
Justified(f) ==
  \A n \in 1..MaxAttempts : TakenBefore(f, n) \/ (n = MaxAttempts /\ HasAccount(f))

\* A sign-in that lost the race for its own account finds it before it tries
\* to insert again: an attempt to insert has had only handles of others before.
Tries(f) ==
  /\ flow[f].step = "away" => flow[f].attempt = 1
  /\ flow[f].step = "finding" => HasAccount(f) \/ TriedAreTaken(f)
  /\ flow[f].step = "inserting" => TriedAreTaken(f)
  /\ flow[f] # Idle /\ flow[f].outcome = "exhausted" => Ended(f) /\ Justified(f)

\* No account loses its handle, and none disappears.
LEMMA TakenStays ==
  ASSUME FormOK, [SessionsNext]_sessionVars, NEW f \in Flows,
         flow'[f].name = flow[f].name, flow'[f].discord = flow[f].discord
  PROVE  /\ \A n \in 1..MaxAttempts : TakenBefore(f, n) => TakenBefore(f, n)'
         /\ HasAccount(f) => HasAccount(f)'
         /\ Justified(f) => Justified(f)'
<1>1. \A u \in users : \E w \in users' : w.discord = u.discord /\ w.handle = u.handle
  BY UsersStay
<1>2. \A n \in 1..MaxAttempts : TakenBefore(f, n) => TakenBefore(f, n)'
  BY <1>1 DEF TakenBefore
<1>3. HasAccount(f) => HasAccount(f)'
  BY <1>1 DEF HasAccount
<1> QED
  BY <1>2, <1>3 DEF Justified

LEMMA OthersTry ==
  ASSUME FormOK, [SessionsNext]_sessionVars, NEW f \in Flows, Tries(f), flow'[f] = flow[f]
  PROVE  Tries(f)'
<1>1. TriedAreTaken(f) => TriedAreTaken(f)'
  BY TakenStays DEF TriedAreTaken
<1> QED
  BY <1>1, TakenStays DEF Tries, Ended

LEMMA TriesStep ==
  ASSUME FormOK, [SessionsNext]_sessionVars, NEW f \in Flows, SignIn(f), Tries(f)
  PROVE  Tries(f)' /\ Others(f)
<1>1. ASSUME NEW b \in Browsers, NEW d \in Discord, NEW name \in Names, StartDiscord(f, b, d, name)
      PROVE  Tries(f)' /\ Others(f)
  BY <1>1, StartMoves DEF Tries
<1>2. ASSUME DiscordCallback(f)
      PROVE  Tries(f)' /\ Others(f)
  <2>1. /\ Others(f) /\ flow[f].step = "away" /\ flow[f] # Idle
        /\ flow'[f].attempt = flow[f].attempt
        /\ \/ flow'[f].step = "finding" /\ flow'[f].outcome = flow[f].outcome
           \/ flow'[f].step = "answering" /\ flow'[f].outcome = "refused"
    BY <1>2, CallbackMoves, FlowForm DEF Steps
  <2>2. flow'[f].attempt = 1 /\ flow[f].outcome # "exhausted"
    BY <2>1 DEF Tries, Ended
  <2>3. TriedAreTaken(f)'
    BY <2>2 DEF TriedAreTaken
  <2> QED
    BY <2>1, <2>2, <2>3 DEF Tries
<1>3. ASSUME Others(f), Same(f), flow[f] # Idle, ~Ended(f),
             flow'[f].step \in {"updating", "rotating", "committing", "answering"},
             \/ flow'[f].outcome = flow[f].outcome
             \/ flow'[f].outcome \in {"disabled", "failed", "signed in"}
      PROVE  Tries(f)' /\ Others(f)
  <2>1. flow[f].outcome # "exhausted"
    BY <1>3 DEF Tries
  <2> QED
    BY <1>3, <2>1 DEF Tries
<1>4. ASSUME GetUserByDiscordID(f)
      PROVE  Tries(f)' /\ Others(f)
  <2>1. /\ Others(f) /\ Same(f) /\ flow[f].step = "finding" /\ flow[f] # Idle /\ ~Ended(f)
    BY <1>4, FindMoves, FlowForm DEF Steps, Ended
  <2>2. CASE /\ flow'[f].step = "inserting" /\ Account(flow[f].discord) = {}
             /\ flow'[f].outcome = flow[f].outcome /\ flow'[f].attempt = flow[f].attempt
    <3>1. ~HasAccount(f)
      BY <2>2 DEF HasAccount, Account
    <3>2. TriedAreTaken(f) /\ flow[f].outcome # "exhausted"
      BY <2>1, <3>1 DEF Tries
    <3>3. TriedAreTaken(f)'
      BY <2>1, <2>2, <3>2, TakenStays DEF TriedAreTaken, Same
    <3> QED
      BY <2>1, <2>2, <3>2, <3>3 DEF Tries
  <2> QED
    BY <1>3, <1>4, <2>1, <2>2, FindMoves
<1>5. ASSUME CreateUser(f)
      PROVE  Tries(f)' /\ Others(f)
  <2>1. /\ Others(f) /\ Same(f) /\ flow[f].step = "inserting" /\ flow[f] # Idle /\ ~Ended(f)
        /\ flow[f].attempt \in 1..MaxAttempts
    BY <1>5, CreateMoves, FlowForm DEF Steps, Ended, FlowState
  <2>2. TriedAreTaken(f) /\ flow[f].outcome # "exhausted"
    BY <2>1 DEF Tries
  <2>3. InsertConflicts(f) => HasAccount(f) \/ TakenBefore(f, flow[f].attempt)
    BY DEF InsertConflicts, HasAccount, TakenBefore, Handle
  <2>4. /\ \A n \in 1..MaxAttempts : TakenBefore(f, n) => TakenBefore(f, n)'
        /\ HasAccount(f) => HasAccount(f)'
    BY <2>1, TakenStays DEF Same
  <2>5. CASE /\ InsertConflicts(f)
             /\ flow'[f].step = "finding" /\ flow'[f].attempt = flow[f].attempt + 1
             /\ flow'[f].outcome = flow[f].outcome
    <3>1. \A n \in 1..MaxAttempts : n < flow'[f].attempt => n < flow[f].attempt \/ n = flow[f].attempt
      BY <2>1, <2>5
    <3>2. TakenBefore(f, flow[f].attempt) => TriedAreTaken(f)'
      BY <2>2, <2>4, <3>1 DEF TriedAreTaken
    <3>3. HasAccount(f) \/ TakenBefore(f, flow[f].attempt)
      BY <2>3, <2>5
    <3>4. HasAccount(f) => HasAccount(f)'
      BY <2>4
    <3>5. HasAccount(f)' \/ TriedAreTaken(f)'
      BY <3>2, <3>3, <3>4
    <3> QED
      BY <2>1, <2>2, <2>5, <3>5 DEF Tries
  <2>6. CASE /\ InsertConflicts(f) /\ flow[f].attempt = MaxAttempts
             /\ flow'[f].step = "answering" /\ flow'[f].outcome = "exhausted"
    <3>1. \A n \in 1..MaxAttempts : n < flow[f].attempt \/ n = MaxAttempts
      BY <2>6, MaxAttemptsAssumption
    <3>2. Justified(f)
      BY <2>2, <2>3, <2>6, <3>1 DEF Justified, TriedAreTaken
    <3>3. Justified(f)'
      BY <2>1, <3>2, TakenStays DEF Same
    <3> QED
      BY <2>1, <2>6, <3>3 DEF Tries, Ended
  <2>7. CASE flow'[f].step = "rotating" /\ flow'[f].outcome = flow[f].outcome
    BY <1>3, <2>1, <2>7
  <2> QED
    BY <1>5, <2>5, <2>6, <2>7, CreateMoves
<1>6. ASSUME UpdateDiscordIdentity(f) \/ ReplaceSession(f) \/ Abort(f) \/ Commit(f)
      PROVE  Tries(f)' /\ Others(f)
  <2>1. /\ Others(f) /\ Same(f)
        /\ flow[f].step \in {"finding", "updating", "inserting", "rotating", "committing"}
        /\ flow'[f].step \in {"rotating", "committing", "answering"}
        /\ \/ flow'[f].outcome = flow[f].outcome
           \/ flow'[f].outcome \in {"failed", "signed in"}
    BY <1>6, CommitMoves, AbortMoves, StepForm
       DEF UpdateDiscordIdentity, ReplaceSession, Steps
  <2>2. flow[f] # Idle /\ ~Ended(f)
    BY <2>1, FlowForm DEF Ended, Steps
  <2> QED
    BY <1>3, <2>1, <2>2
<1>7. ASSUME CallbackAnswered(f)
      PROVE  Tries(f)' /\ Others(f)
  <2>1. /\ Others(f) /\ Same(f) /\ flow[f].step = "answering" /\ flow[f] # Idle
        /\ flow'[f].step = "over" /\ flow'[f].outcome = flow[f].outcome
    BY <1>7, StepForm, FlowForm DEF CallbackAnswered, Steps
  <2>2. Justified(f) => Justified(f)'
    BY <2>1, TakenStays DEF Same
  <2> QED
    BY <2>1, <2>2 DEF Tries, Ended
<1> QED
  BY <1>1, <1>2, <1>4, <1>5, <1>6, <1>7 DEF SignIn

\* A sign-in that gives up for want of a handle has found every candidate with
\* another account; for the last it may have met its own, made meanwhile.
THEOREM GivesUpForCause == SessionsSafety => []GivesUpOnlyWhenTaken
<1> DEFINE IInv == \A f \in Flows : Tries(f)
<1>1. SessionsInit => IInv
  BY DEF SessionsInit, Tries, Idle
<1>2. AccountsInv /\ IInv /\ [SessionsNext]_sessionVars => IInv'
  <2> SUFFICES ASSUME AccountsInv, IInv, [SessionsNext]_sessionVars
               PROVE  IInv'
    OBVIOUS
  <2>1. FormOK
    BY DEF AccountsInv
  <2>2. ASSUME NEW f \in Flows, SignIn(f)
        PROVE  IInv'
    <3>1. Tries(f)' /\ Others(f)
      BY <2>1, <2>2, TriesStep
    <3>2. \A g \in Flows \ {f} : Tries(g)'
      BY <2>1, <3>1, OthersTry DEF Others
    <3> QED
      BY <3>1, <3>2
  <2>3. CASE flow' = flow
    BY <2>1, <2>3, OthersTry
  <2>4. ASSUME \A f \in Flows : ~SignIn(f)
        PROVE  flow' = flow
    BY <2>4 DEF SessionsNext, Request, Authenticate, Logout, CallAnswered, Outside, Expire,
                Disable, sessionVars
  <2> QED
    BY <2>2, <2>3, <2>4
<1>3. IInv => GivesUpOnlyWhenTaken
  BY DEF Tries, Justified, TakenBefore, HasAccount, GivesUpOnlyWhenTaken
<1> QED
  BY <1>1, <1>2, <1>3, AccountsInductive, PTL DEF SessionsSafety

-----------------------------------------------------------------------------
(* Cookies                                                                 *)

\* Whoever is told to clear a cookie was right to be told so, and still is.
RefusedInv ==
  /\ \A c \in Calls : call[c] # Idle /\ call[c].step = "refused" => ~Accepted(call[c].token)
  /\ \A f \in Flows : flow[f] # Idle /\ flow[f].stale =>
       flow[f].previous # NoFlow /\ ~Accepted(flow[f].previous)

\* Nobody becomes enabled again, and no row gets the id of another.
LEMMA RowsReturnNot ==
  ASSUME FormOK, OwnInv, OneAccount, [SessionsNext]_sessionVars,
         NEW v \in users, NEW u \in users', u.id = v.id, ~u.disabled
  PROVE  u \in users
<1>1. ASSUME NEW f \in Flows, Commit(f)
      PROVE  u \in users
  <2> DEFINE row == [id |-> f, discord |-> flow[f].discord, handle |-> Handle(f),
                     disabled |-> FALSE]
  <2>1. users' = IF flow[f].user = f THEN users \cup {row} ELSE users
    BY <1>1, CommittedForm
  <2>2. row.id = f
    OBVIOUS
  <2> HIDE DEF row
  <2>3. flow[f].user = f => v.id # f
    BY <1>1, CommitMoves DEF OwnInv, Owns, Writes
  <2> QED
    BY <2>1, <2>2, <2>3
<1>2. ASSUME NEW x \in users, Disable(x)
      PROVE  u \in users
  <2> DEFINE y == [x EXCEPT !.disabled = TRUE]
  <2>1. y.disabled
    BY DEF FormOK, UserRow
  <2>2. users' = (users \ {x}) \cup {y}
    BY <1>2 DEF Disable
  <2> HIDE DEF y
  <2> QED
    BY <2>1, <2>2
<1>3. ASSUME NEW f \in Flows, SignIn(f), ~Commit(f)
      PROVE  users' = users
  BY <1>3 DEF SignIn, StartDiscord, DiscordCallback, GetUserByDiscordID, CreateUser, Abort,
              UpdateDiscordIdentity, ReplaceSession, CallbackAnswered, dbVars
<1>4. ASSUME NEW c \in Calls, \/ \E b \in Browsers, logout \in BOOLEAN : Request(c, b, logout)
                              \/ Authenticate(c) \/ Logout(c) \/ CallAnswered(c)
      PROVE  users' = users
  BY <1>4 DEF Request, Authenticate, Logout, CallAnswered, dbVars
<1>5. ASSUME \/ \E t \in Flows : Expire(t)
             \/ UNCHANGED sessionVars
      PROVE  users' = users
  BY <1>5 DEF Expire, sessionVars, dbVars
<1> QED
  BY <1>1, <1>2, <1>3, <1>4, <1>5 DEF SessionsNext, Outside

LEMMA OldSessionsOnly ==
  ASSUME FormOK, OwnInv, [SessionsNext]_sessionVars, NEW t \in Flows, Ended(t)
  PROVE  expired \subseteq expired' /\ \A s \in sessions' : s.token = t => s \in sessions
<1>1. ASSUME NEW f \in Flows, Commit(f)
      PROVE  expired' = expired /\ \A s \in sessions' : s.token = t => s \in sessions
  <2>1. t # f
    BY <1>1, CommitMoves DEF Ended
  <2>2. \A s \in sessions' : s.token = f \/ s \in sessions
    BY <1>1, CommitRotates
  <2> QED
    BY <1>1, <2>1, <2>2 DEF Commit
<1>2. ASSUME NEW c \in Calls, Logout(c)
      PROVE  sessions' \subseteq sessions
  BY <1>2 DEF Logout
<1>3. \A f \in Flows : SignIn(f) => expired' = expired
  BY DEF SignIn, StartDiscord, DiscordCallback, GetUserByDiscordID, CreateUser, Abort,
         UpdateDiscordIdentity, ReplaceSession, CallbackAnswered, Commit, dbVars
<1>4. expired \subseteq expired'
  BY <1>3 DEF SessionsNext, Request, Authenticate, Logout, CallAnswered, Outside, Expire,
              Disable, sessionVars, dbVars
<1> QED
  BY <1>1, <1>2, <1>4, SessionsStay

LEMMA RefusedStays ==
  ASSUME FormOK, OwnInv, OneAccount, [SessionsNext]_sessionVars, NEW t \in Flows, Ended(t),
         ~Accepted(t)
  PROVE  ~Accepted(t)'
<1> SUFFICES ASSUME Accepted(t)'
             PROVE  FALSE
  OBVIOUS
<1>1. PICK s \in sessions', u \in users' :
        t \notin expired' /\ s.token = t /\ u.id = s.user /\ ~u.disabled
  BY DEF Accepted
<1>2. t \notin expired /\ s \in sessions
  BY <1>1, OldSessionsOnly
<1>3. PICK v \in users : v.id = s.user
  BY <1>2 DEF OneAccount
<1>4. u \in users
  BY <1>1, <1>3, RowsReturnNot
<1> QED
  BY <1>1, <1>2, <1>4 DEF Accepted

\* What a step does to the note that a callback is to clear the cookie.
LEMMA StaleMoves ==
  ASSUME FormOK, NEW f \in Flows, SignIn(f)
  PROVE  /\ Others(f) /\ call' = call
         /\ flow'[f].stale =>
              \/ flow[f] # Idle /\ flow[f].stale /\ flow'[f].previous = flow[f].previous
              \/ \E b \in Browsers : /\ cookie[b] # NoFlow /\ ~Accepted(cookie[b])
                                     /\ flow'[f].previous = cookie[b]
<1>1. call' = call
  BY DEF SignIn, StartDiscord, DiscordCallback, GetUserByDiscordID, CreateUser, Abort, Commit,
         UpdateDiscordIdentity, ReplaceSession, CallbackAnswered, dbVars
<1>2. ASSUME NEW b \in Browsers, NEW d \in Discord, NEW name \in Names, StartDiscord(f, b, d, name)
      PROVE  Others(f) /\ ~flow'[f].stale
  BY <1>2, StartMoves
<1>3. ASSUME \/ GetUserByDiscordID(f) \/ CreateUser(f) \/ Abort(f) \/ Commit(f)
             \/ UpdateDiscordIdentity(f) \/ ReplaceSession(f) \/ CallbackAnswered(f)
      PROVE  Others(f) /\ SameCookies(f) /\ flow[f] # Idle
  <2>1. Others(f) /\ SameCookies(f) /\ flow[f].step \in Steps
    BY <1>3, FindMoves, CreateMoves, AbortMoves, CommitMoves, StepForm
       DEF UpdateDiscordIdentity, ReplaceSession, CallbackAnswered, Steps
  <2> QED
    BY <2>1, FlowForm
<1> QED
  BY <1>1, <1>2, <1>3, CallbackMoves DEF SignIn, SameCookies

LEMMA RefusedStep ==
  ASSUME FormOK, OwnInv, OneAccount, TokenInv, RefusedInv, [SessionsNext]_sessionVars
  PROVE  RefusedInv'
<1> DEFINE Old(t) == t \in Flows /\ Ended(t) /\ ~Accepted(t)
           CallsToo == \A c \in Calls, t \in Flows :
                         call'[c] # Idle /\ call'[c].step = "refused" /\ call'[c].token = t =>
                           Old(t) \/ ~Accepted(t)'
           FlowsToo == \A f \in Flows : flow'[f] # Idle /\ flow'[f].stale => Old(flow'[f].previous)
<1>1. \A t : Old(t) => ~Accepted(t)'
  BY RefusedStays
<1>2. \A c \in Calls : call[c] # Idle => call[c].token \in Flows /\ Ended(call[c].token)
  BY CallForm DEF CallState, TokenInv
<1>3. \A c \in Calls : call[c] # Idle /\ call[c].step = "refused" => Old(call[c].token)
  BY <1>2 DEF RefusedInv
<1>4. \A f \in Flows : flow[f] # Idle /\ flow[f].stale => Old(flow[f].previous)
  <2>1. \A f \in Flows : flow[f] # Idle => flow[f].previous \in Tokens
    BY FlowForm DEF FlowState
  <2> QED
    BY <2>1 DEF RefusedInv, TokenInv, Tokens
<1>5. \A b \in Browsers : cookie[b] # NoFlow /\ ~Accepted(cookie[b]) => Old(cookie[b])
  BY DEF FormOK, Tokens, TokenInv
<1> HIDE DEF Old
<1>6. ASSUME NEW f \in Flows, SignIn(f)
      PROVE  CallsToo /\ FlowsToo
  <2>1. CallsToo
    BY <1>3, <1>6, StaleMoves
  <2>2. Old(flow'[f].previous) \/ ~flow'[f].stale
    BY <1>4, <1>5, <1>6, StaleMoves
  <2>3. FlowsToo
    BY <1>4, <1>6, <2>2, StaleMoves DEF Others
  <2> QED
    BY <2>1, <2>3
<1>7. ASSUME NEW c \in Calls, NEW b \in Browsers, NEW logout \in BOOLEAN, Request(c, b, logout)
      PROVE  CallsToo /\ FlowsToo
  <2>1. OtherCalls(c) /\ call'[c].step = "sent" /\ flow' = flow
    BY <1>7, RequestMoves DEF Request
  <2> QED
    BY <1>3, <1>4, <2>1 DEF OtherCalls
<1>8. ASSUME NEW c \in Calls, CallAnswered(c)
      PROVE  CallsToo /\ FlowsToo
  <2>1. OtherCalls(c) /\ call'[c].step = "over" /\ flow' = flow
    BY <1>8, CallMoves DEF CallAnswered
  <2> QED
    BY <1>3, <1>4, <2>1 DEF OtherCalls
<1>9. ASSUME NEW c \in Calls, Authenticate(c)
      PROVE  CallsToo /\ FlowsToo
  <2>1. /\ OtherCalls(c) /\ SameCall(c) /\ call[c] # Idle
        /\ flow' = flow
    BY <1>9, CallMoves DEF Authenticate, Idle, CallState
  <2>2. call'[c].step = "refused" => ~Accepted(call[c].token)
    <3>1. CASE Accepted(call[c].token)
      <4>1. PICK s \in sessions : call' = [call EXCEPT ![c].step = "served", ![c].user = s.user]
        BY <1>9, <3>1 DEF Authenticate
      <4>2. call[c] \in CallState
        BY <1>9, CallMoves
      <4>3. call'[c] = [call[c] EXCEPT !.step = "served", !.user = s.user]
        BY <4>1 DEF FormOK
      <4>4. call'[c].step = "served"
        BY <4>2, <4>3 DEF CallState
      <4> QED
        BY <4>4
    <3> QED
      BY <3>1
  <2>3. call'[c].step = "refused" => Old(call'[c].token)
    BY <1>2, <2>1, <2>2 DEF SameCall, Old
  <2> QED
    BY <1>3, <1>4, <2>1, <2>3 DEF OtherCalls
<1>10. ASSUME NEW c \in Calls, Logout(c)
       PROVE  CallsToo /\ FlowsToo
  <2>1. OtherCalls(c) /\ SameCall(c) /\ flow' = flow
    BY <1>10, CallMoves DEF Logout
  <2>2. \A s \in sessions' : s.token # call[c].token
    BY <1>10 DEF Logout
  <2>3. \A t \in Flows : call'[c].token = t => ~Accepted(t)'
    BY <2>1, <2>2 DEF SameCall, Accepted
  <2> QED
    BY <1>3, <1>4, <2>1, <2>3 DEF OtherCalls
<1>11. ASSUME Outside \/ UNCHANGED sessionVars
       PROVE  CallsToo /\ FlowsToo
  <2>1. UNCHANGED <<flow, call>>
    BY <1>11 DEF Outside, Expire, Disable, sessionVars
  <2> QED
    BY <1>3, <1>4, <2>1
<1>12. CallsToo /\ FlowsToo
  BY <1>6, <1>7, <1>8, <1>9, <1>10, <1>11 DEF SessionsNext
<1>13. \A c \in Calls : call'[c] # Idle => call'[c].token \in Flows
  <2>1. FormOK'
    BY FormStep
  <2> QED
    BY <2>1 DEF FormOK, CallState
<1>14. \A c \in Calls, t \in Flows :
         call'[c] # Idle /\ call'[c].step = "refused" /\ call'[c].token = t => ~Accepted(t)'
  BY <1>1, <1>12
<1>15. \A f \in Flows : \A t :
         flow'[f] # Idle /\ flow'[f].stale /\ flow'[f].previous = t => t \in Flows /\ ~Accepted(t)'
  <2>1. \A t : Old(t) => t \in Flows
    BY DEF Old
  <2> QED
    BY <1>1, <1>12, <2>1
<1> QED
  BY <1>13, <1>14, <1>15, NoFlowAssumption DEF RefusedInv, Accepted

\* A browser never loses the cookie of a session that would be accepted but to
\* an answer that is about an older cookie, however its requests overlap and
\* their answers arrive.
THEOREM CookiesAreLostLate == SessionsSafety => CookieLostOnlyToLateAnswer
<1> DEFINE Late ==
      \A b \in Browsers :
       (cookie[b] # NoFlow /\ Live(cookie[b]) /\ cookie'[b] = NoFlow) =>
         \/ \E c \in Calls :
              /\ call[c] # Idle /\ call[c].step = "refused" /\ call'[c].step = "over"
              /\ call[c].browser = b
              /\ call[c].token # cookie[b] \/ ~Accepted(cookie[b])
         \/ \E f \in Flows :
              /\ flow[f] # Idle /\ flow[f].browser = b /\ flow[f].stale
              /\ flow[f].step = "answering" /\ flow'[f].step = "over"
              /\ flow[f].previous # cookie[b] \/ ~Accepted(cookie[b])
           IInv == TokenInv /\ RefusedInv
<1>1. SessionsInit => IInv
  BY NoFlowAssumption DEF SessionsInit, TokenInv, SignedIn, RefusedInv
<1>2. AccountsInv /\ IInv /\ [SessionsNext]_sessionVars => IInv'
  BY TokenStep, RefusedStep DEF AccountsInv
<1>3. ASSUME AccountsInv, IInv, [SessionsNext]_sessionVars
      PROVE  Late
  <2>0. FormOK /\ RefusedInv
    BY <1>3 DEF AccountsInv
  <2>1. ASSUME NEW c \in Calls, CallAnswered(c)
        PROVE  Late
    <3>1. call[c] # Idle /\ call'[c].step = "over"
      BY <2>0, <2>1, CallMoves DEF Idle, CallState
    <3>2. \A b \in Browsers : cookie'[b] # cookie[b] =>
            call[c].step = "refused" /\ call[c].browser = b
      BY <2>0, <2>1 DEF CallAnswered, FormOK
    <3>3. call[c].step = "refused" => ~Accepted(call[c].token)
      BY <2>0, <3>1 DEF RefusedInv
    <3> QED
      BY <3>1, <3>2, <3>3
  <2>2. ASSUME NEW f \in Flows, CallbackAnswered(f)
        PROVE  Late
    <3>1. flow[f] # Idle /\ flow[f].step = "answering" /\ flow'[f].step = "over"
      BY <2>0, <2>2, StepForm, FlowForm DEF CallbackAnswered, Steps
    <3>2. \A b \in Browsers : cookie'[b] # cookie[b] /\ cookie'[b] = NoFlow =>
            flow[f].browser = b /\ flow[f].stale
      BY <2>0, <2>2, NoFlowAssumption DEF CallbackAnswered, FormOK
    <3>3. flow[f].stale => ~Accepted(flow[f].previous)
      BY <2>0, <3>1 DEF RefusedInv
    <3> QED
      BY <3>1, <3>2, <3>3
  <2>3. CASE cookie' = cookie
    BY <2>3
  <2>4. ASSUME \A c \in Calls : ~CallAnswered(c), \A f \in Flows : ~CallbackAnswered(f)
        PROVE  cookie' = cookie
    BY <1>3, <2>4
       DEF SessionsNext, SignIn, StartDiscord, DiscordCallback, GetUserByDiscordID, CreateUser,
           Abort, UpdateDiscordIdentity, ReplaceSession, Commit, Request, Authenticate, Logout,
           Outside, Expire, Disable, sessionVars
  <2> QED
    BY <2>1, <2>2, <2>3, <2>4
<1>4. AccountsInv /\ IInv /\ [SessionsNext]_sessionVars => [Late]_sessionVars
  BY <1>3
<1> QED
  BY <1>1, <1>2, <1>4, AccountsInductive, PTL DEF SessionsSafety, CookieLostOnlyToLateAnswer
-----------------------------------------------------------------------------
(* Handles                                                                 *)

\* What a handle is made of.
Character == HandleCharacters \cup {"-"}

\* Of a set of naturals that is not empty there is a least.
LEMMA LeastNatural ==
  ASSUME NEW S \in SUBSET Nat, S # {}
  PROVE  \E n \in S : \A m \in S : n <= m
<1>1. PICK n \in S : \A m \in S : <<m, n>> \notin OpToRel(<, Nat)
  BY NatLessThanWellFounded, WFMin
<1>2. \A m \in S : ~(m < n)
  BY <1>1 DEF OpToRel
<1> QED
  BY <1>2

\* The loop of NormalizeHandle has a result for every username.
LEMMA SpelledExists ==
  ASSUME NEW username \in Seq(STRING)
  PROVE  Spelled(username) = [i \in 0..Len(username) |->
           IF i = 0 THEN <<>> ELSE Normalized(Spelled(username)[i - 1], username[i])]
<1> DEFINE Upto(n) == \E out : out = [i \in 0..n |->
             IF i = 0 THEN <<>> ELSE Normalized(out[i - 1], username[i])]
           Missing == {n \in Nat : ~Upto(n)}
<1>1. Missing = {}
  <2> SUFFICES ASSUME Missing # {}
               PROVE  FALSE
    OBVIOUS
  <2>1. PICK n \in Missing : \A m \in Missing : n <= m
    <3>1. Missing \in SUBSET Nat
      OBVIOUS
    <3> HIDE DEF Missing
    <3> QED
      BY <3>1, LeastNatural
  <2>2. Upto(0)
    <3> DEFINE first == [i \in 0..0 |-> <<>>]
    <3>1. first = [i \in 0..0 |-> IF i = 0 THEN <<>> ELSE Normalized(first[i - 1], username[i])]
      OBVIOUS
    <3> QED
      BY <3>1
  <2>3. n # 0 /\ n \in Nat /\ n - 1 \in Nat /\ Upto(n - 1)
    <3>1. n \in Nat /\ ~Upto(n)
      BY <2>1
    <3>2. n # 0
      BY <2>2, <3>1
    <3>3. n - 1 \in Nat /\ ~(n <= n - 1)
      BY <3>1, <3>2
    <3> HIDE DEF Upto
    <3> QED
      BY <2>1, <3>1, <3>2, <3>3
  <2>4. PICK out : out = [i \in 0..(n - 1) |->
             IF i = 0 THEN <<>> ELSE Normalized(out[i - 1], username[i])]
    BY <2>3
  <2> DEFINE next == [i \in 0..n |->
               IF i = n THEN Normalized(out[n - 1], username[n]) ELSE out[i]]
  <2>5. \A i \in 0..n : i # 0 => next[i - 1] = out[i - 1]
    BY <2>3
  <2>6. \A i \in 0..n : next[i] =
          IF i = 0 THEN <<>> ELSE Normalized(next[i - 1], username[i])
    BY <2>3, <2>4, <2>5
  <2>7. next = [i \in 0..n |->
             IF i = 0 THEN <<>> ELSE Normalized(next[i - 1], username[i])]
    BY <2>6
  <2> QED
    BY <2>1, <2>7
<1>2. Upto(Len(username))
  BY <1>1
<1> QED
  BY <1>2 DEF Spelled

\* Of a bounded one there is a greatest, which is its Max.
LEMMA GreatestNatural ==
  ASSUME NEW n \in Nat, NEW S \in SUBSET (0..n), S # {}
  PROVE  Max(S) \in S /\ \A m \in S : m <= Max(S)
<1> DEFINE T == {k \in Nat : n - k \in S}
<1>1. T # {}
  <2>1. PICK m \in S : m \in 0..n
    OBVIOUS
  <2>2. n - m \in Nat /\ n - (n - m) = m
    BY <2>1
  <2> QED
    BY <2>1, <2>2
<1>2. T \in SUBSET Nat
  OBVIOUS
<1> HIDE DEF T
<1>3. PICK k \in T : \A j \in T : k <= j
  BY <1>1, <1>2, LeastNatural
<1>4. n - k \in S /\ k \in Nat
  BY <1>3 DEF T
<1>5. ASSUME NEW m \in S
      PROVE  m <= n - k
  <2>1. m \in Nat /\ n - m \in Nat /\ n - (n - m) = m
    OBVIOUS
  <2>2. n - m \in T
    BY <2>1 DEF T
  <2> QED
    BY <1>3, <1>4, <2>1, <2>2
<1>6. \E x \in S : \A y \in S : x >= y
  BY <1>4, <1>5
<1>7. Max(S) \in S /\ \A y \in S : Max(S) >= y
  BY <1>6 DEF Max
<1> QED
  BY <1>7

-----------------------------------------------------------------------------
\* No two hyphens in a row, and, for Tidy, none at the beginning.
Single(s) == \A i \in 1..Len(s) : i < Len(s) /\ s[i] = "-" => s[i + 1] # "-"
Tidy(s) == s \in Seq(Character) /\ Single(s) /\ (Len(s) > 0 => s[1] # "-")

LEMMA HyphenIsNoLetter == "-" \notin HandleCharacters
<1>1. \A i \in DOMAIN Numerals : Numerals[i] # "-"
  BY DEF Numerals
<1> QED
  BY <1>1, LettersAssumption DEF HandleCharacters, ToSet

LEMMA AppendTidy ==
  ASSUME NEW s, Tidy(s), NEW c \in Character,
         c = "-" => s # <<>> /\ s[Len(s)] # "-"
  PROVE  Tidy(Append(s, c))
<1>1. s \in Seq(Character) /\ Append(s, c) \in Seq(Character) /\ Len(Append(s, c)) = Len(s) + 1
  BY DEF Tidy
<1>2. /\ \A i \in 1..Len(s) : Append(s, c)[i] = s[i]
      /\ Append(s, c)[Len(s) + 1] = c
  BY <1>1
<1>3. Append(s, c)[1] # "-"
  BY <1>1, <1>2 DEF Tidy
<1>4. ASSUME NEW i \in 1..Len(Append(s, c)), i < Len(Append(s, c)), Append(s, c)[i] = "-"
      PROVE  Append(s, c)[i + 1] # "-"
  BY <1>1, <1>2, <1>4 DEF Tidy, Single
<1> QED
  BY <1>1, <1>3, <1>4 DEF Tidy, Single

\* One turn of the loop keeps what is written tidy.
LEMMA NormalizedTidy ==
  ASSUME NEW out, Tidy(out), NEW character
  PROVE  Tidy(Normalized(out, character))
<1> DEFINE c == IF character \in DOMAIN Lower THEN Lower[character] ELSE character
<1>1. \/ c \in HandleCharacters /\ Normalized(out, character) = Append(out, c)
      \/ Normalized(out, character) = out
      \/ /\ out # <<>> /\ out[Len(out)] # "-"
         /\ Normalized(out, character) = Append(out, "-")
  BY DEF Normalized
<1> HIDE DEF c
<1> QED
  BY <1>1, AppendTidy, HyphenIsNoLetter DEF Character

\* So the whole loop does.
LEMMA SpelledTidy ==
  ASSUME NEW username \in Seq(STRING)
  PROVE  Tidy(Spelled(username)[Len(username)])
<1> DEFINE out == Spelled(username)
           Untidy == {i \in Nat : i <= Len(username) /\ ~Tidy(out[i])}
<1>1. out = [i \in 0..Len(username) |->
               IF i = 0 THEN <<>> ELSE Normalized(out[i - 1], username[i])]
  BY SpelledExists
<1> HIDE DEF out
<1>2. Untidy = {}
  <2> SUFFICES ASSUME Untidy # {}
               PROVE  FALSE
    OBVIOUS
  <2>1. PICK n \in Untidy : \A m \in Untidy : n <= m
    <3>1. Untidy \in SUBSET Nat
      OBVIOUS
    <3> HIDE DEF Untidy
    <3> QED
      BY <3>1, LeastNatural
  <2>2. n \in 0..Len(username) /\ ~Tidy(out[n])
    BY <2>1
  <2>3. out[0] = <<>> /\ Tidy(<<>>)
    BY <1>1 DEF Tidy, Single
  <2>4. n - 1 \in Nat /\ n - 1 <= Len(username) /\ ~(n <= n - 1) /\ n # 0
    BY <2>2, <2>3
  <2>5. Tidy(out[n - 1])
    BY <2>1, <2>4
  <2>6. out[n] = Normalized(out[n - 1], username[n])
    BY <1>1, <2>2, <2>4
  <2> QED
    BY <2>2, <2>5, <2>6, NormalizedTidy
<1> QED
  BY <1>2 DEF out

\* TrimRight takes one hyphen at most, since there are never two in a row.
LEMMA TrimTidy ==
  ASSUME NEW s, Tidy(s)
  PROVE  /\ Tidy(TrimHyphens(s))
         /\ Len(TrimHyphens(s)) \in {Len(s), Len(s) - 1}
         /\ Len(s) > 0 => Len(TrimHyphens(s)) > 0
         /\ Len(TrimHyphens(s)) > 0 => TrimHyphens(s)[Len(TrimHyphens(s))] # "-"
         /\ Len(s) > 0 /\ s[Len(s)] # "-" => Len(TrimHyphens(s)) = Len(s)
<1> DEFINE S == {0} \cup {i \in DOMAIN s : s[i] # "-"}
<1>1. PICK n \in Nat : n = Len(s) /\ DOMAIN s = 1..n
  BY DEF Tidy
<1>2. S \in SUBSET (0..n) /\ S # {}
  BY <1>1
<1>3. PICK last : last = Max(S)
  OBVIOUS
<1>4. last \in S /\ \A m \in S : m <= last
  BY <1>2, <1>3, GreatestNatural
<1>5. TrimHyphens(s) = SubSeq(s, 1, last)
  BY <1>3 DEF TrimHyphens
<1>6. last \in 0..n /\ (last > 0 => s[last] # "-")
  BY <1>1, <1>4
<1>7. \A i \in 1..n : i > last => s[i] = "-"
  BY <1>1, <1>4
<1> HIDE DEF S
<1>8. n > 0 => last > 0
  BY <1>1, <1>4, <1>6, <1>7 DEF Tidy
<1>9. last \in {n, n - 1}
  <2>1. CASE last < n - 1
    <3>1. /\ last + 1 \in 1..Len(s) /\ last + 1 < Len(s)
          /\ s[last + 1] = "-" /\ s[last + 2] = "-" /\ (last + 1) + 1 = last + 2
      BY <1>1, <1>6, <1>7, <2>1
    <3> QED
      BY <3>1 DEF Tidy, Single
  <2> QED
    BY <1>1, <1>6, <2>1
<1>10. /\ SubSeq(s, 1, last) \in Seq(Character) /\ Len(SubSeq(s, 1, last)) = last
       /\ \A i \in 1..last : SubSeq(s, 1, last)[i] = s[i]
  BY <1>1, <1>6 DEF Tidy
<1>11. Tidy(SubSeq(s, 1, last))
  BY <1>1, <1>6, <1>10 DEF Tidy, Single
<1> QED
  BY <1>1, <1>5, <1>6, <1>7, <1>8, <1>9, <1>10, <1>11

\* Ends with a letter or a digit.
EndsWell(s) == Len(s) > 0 /\ s[Len(s)] # "-"

\* A cut of a tidy name ends with a letter or a digit and loses one character at most.
LEMMA CutForm ==
  ASSUME NEW s, Tidy(s), Len(s) > 0, NEW n \in Nat, n >= 1
  PROVE  /\ Tidy(Cut(s, n)) /\ EndsWell(Cut(s, n)) /\ Len(Cut(s, n)) <= n
         /\ Len(s) <= n /\ EndsWell(s) => Len(Cut(s, n)) = Len(s)
         /\ n <= Len(s) => Len(Cut(s, n)) >= n - 1
<1> DEFINE k == IF Len(s) < n THEN Len(s) ELSE n
           t == SubSeq(s, 1, k)
<1>1. s \in Seq(Character) /\ Len(s) \in Nat
  BY DEF Tidy
<1>2. k \in 1..Len(s) /\ k <= n
  BY <1>1
<1> HIDE DEF k
<1>3. t \in Seq(Character) /\ Len(t) = k /\ \A i \in 1..k : t[i] = s[i]
  BY <1>1, <1>2
<1> HIDE DEF t
<1>4. Tidy(t)
  BY <1>1, <1>2, <1>3 DEF Tidy, Single
<1>5. Cut(s, n) = TrimHyphens(t)
  BY DEF Cut, t, k
<1>6. Len(TrimHyphens(t)) \in Nat
  BY <1>4, TrimTidy DEF Tidy
<1>7. /\ Tidy(Cut(s, n)) /\ EndsWell(Cut(s, n)) /\ Len(Cut(s, n)) \in {k, k - 1}
      /\ t[k] # "-" => Len(Cut(s, n)) = k
  BY <1>2, <1>3, <1>4, <1>5, <1>6, TrimTidy DEF EndsWell
<1>8. Len(s) <= n /\ EndsWell(s) => k = Len(s) /\ t[k] # "-"
  BY <1>1, <1>2, <1>3 DEF EndsWell, k
<1>9. n <= Len(s) => k = n
  BY <1>1 DEF k
<1> QED
  BY <1>1, <1>2, <1>7, <1>8, <1>9

\* Two parts of a handle, unless there is a hyphen on both sides.
LEMMA ConcatTidy ==
  ASSUME NEW s, Tidy(s), Len(s) > 0,
         NEW u \in Seq(Character), Single(u), Len(u) > 0, s[Len(s)] = "-" => u[1] # "-"
  PROVE  /\ Tidy(s \o u) /\ Len(s \o u) = Len(s) + Len(u)
         /\ EndsWell(u) => EndsWell(s \o u)
<1>1. s \in Seq(Character) /\ Len(s) \in Nat /\ Len(u) \in Nat
  BY DEF Tidy
<1>2. /\ s \o u \in Seq(Character) /\ Len(s \o u) = Len(s) + Len(u)
      /\ \A i \in 1..Len(s) : (s \o u)[i] = s[i]
      /\ \A i \in 1..Len(u) : (s \o u)[Len(s) + i] = u[i]
  BY <1>1
<1>3. ASSUME NEW i \in 1..Len(s \o u), i < Len(s \o u), (s \o u)[i] = "-"
      PROVE  (s \o u)[i + 1] # "-"
  <2>1. CASE i < Len(s)
    BY <1>1, <1>2, <1>3, <2>1 DEF Tidy, Single
  <2>2. CASE i = Len(s)
    BY <1>1, <1>2, <1>3, <2>2
  <2>3. CASE i > Len(s)
    <3>1. PICK j \in 1..Len(u) : i = Len(s) + j
      BY <1>1, <1>2, <1>3, <2>3
    <3>2. j < Len(u) /\ u[j] = "-"
      BY <1>1, <1>2, <1>3, <3>1
    <3>3. u[j + 1] # "-" /\ j + 1 \in 1..Len(u) /\ Len(s) + (j + 1) = i + 1
      BY <1>1, <3>1, <3>2 DEF Single
    <3> QED
      BY <1>2, <3>3
  <2> QED
    BY <1>1, <1>3, <2>1, <2>2, <2>3
<1> QED
  BY <1>1, <1>2, <1>3 DEF Tidy, Single, EndsWell

LEMMA Users ==
  /\ Tidy(<<"u", "s", "e", "r">>) /\ Len(<<"u", "s", "e", "r">>) = 4
  /\ EndsWell(<<"u", "s", "e", "r">>)
<1> DEFINE user == <<"u", "s", "e", "r">>
<1>1. /\ user \in Seq(Character) /\ Len(user) = 4
      /\ user[1] = "u" /\ user[2] = "s" /\ user[3] = "e" /\ user[4] = "r"
  BY LettersAssumption DEF Character, HandleCharacters
<1>2. \A i \in 1..4 : user[i] # "-"
  BY <1>1
<1> HIDE DEF user
<1>3. Tidy(user) /\ EndsWell(user)
  BY <1>1, <1>2 DEF Tidy, Single, EndsWell
<1> QED
  BY <1>1, <1>3 DEF user

\* A short name goes behind "user-".
LEMMA PrefixForm ==
  ASSUME NEW t, Tidy(t), EndsWell(t)
  PROVE  LET long == <<"u", "s", "e", "r">> \o <<"-">> \o t
         IN  Tidy(long) /\ EndsWell(long) /\ Len(long) >= 3
<1> DEFINE user == <<"u", "s", "e", "r">>
           hyphen == <<"-">>
           front == user \o hyphen
<1>1. Tidy(user) /\ Len(user) = 4 /\ EndsWell(user)
  BY Users
<1>2. hyphen \in Seq(Character) /\ Len(hyphen) = 1 /\ Single(hyphen)
  BY DEF Character, Single
<1> HIDE DEF user, hyphen
<1>3. user[Len(user)] # "-" /\ Len(user) > 0
  BY <1>1 DEF EndsWell
<1>4. Len(hyphen) > 0 /\ Len(user) + Len(hyphen) = 5
  BY <1>1, <1>2
<1>5. Tidy(front) /\ Len(front) = 5
  BY <1>1, <1>2, <1>3, <1>4, ConcatTidy, Zenon
<1> HIDE DEF front
<1>6. t \in Seq(Character) /\ Len(t) \in Nat /\ Len(t) > 0 /\ Single(t) /\ t[1] # "-"
  BY DEF Tidy, EndsWell
<1>7. Len(front) > 0
  BY <1>5
<1>8. Tidy(front \o t) /\ EndsWell(front \o t) /\ Len(front \o t) = Len(front) + Len(t)
  BY <1>5, <1>6, <1>7, ConcatTidy, Zenon
<1>9. Len(front \o t) >= 3
  BY <1>5, <1>6, <1>8
<1> QED
  BY <1>8, <1>9 DEF front, user, hyphen

\* NormalizeHandle gives every username a handle the column accepts.
LEMMA NormalizeForm ==
  ASSUME NEW username \in Seq(STRING)
  PROVE  /\ Tidy(NormalizeHandle(username)) /\ EndsWell(NormalizeHandle(username))
         /\ Len(NormalizeHandle(username)) \in 3..MaxHandle
<1> DEFINE trimmed == TrimHyphens(Spelled(username)[Len(username)])
           user == <<"u", "s", "e", "r">>
           long == user \o <<"-">> \o trimmed
           base == IF trimmed = <<>> THEN user ELSE IF Len(trimmed) < 3 THEN long ELSE trimmed
<1>1. NormalizeHandle(username) = Cut(base, MaxHandle)
  BY DEF NormalizeHandle
<1>2. Tidy(trimmed) /\ (Len(trimmed) > 0 => EndsWell(trimmed))
  BY SpelledTidy, TrimTidy DEF EndsWell
<1> HIDE DEF trimmed
<1>3. Len(trimmed) \in Nat /\ (trimmed # <<>> => Len(trimmed) > 0)
  BY <1>2 DEF Tidy
<1>4. Tidy(user) /\ EndsWell(user) /\ Len(user) >= 3
  BY Users
<1>5. trimmed # <<>> => Tidy(long) /\ EndsWell(long) /\ Len(long) >= 3
  BY <1>2, <1>3, PrefixForm
<1> HIDE DEF user, long
<1>6. Tidy(base) /\ EndsWell(base) /\ Len(base) >= 3
  BY <1>2, <1>3, <1>4, <1>5
<1> HIDE DEF base
<1>7. Len(base) \in Nat /\ MaxHandle \in Nat /\ MaxHandle >= 6
  BY <1>6, MaxHandleAssumption DEF Tidy
<1>8. /\ Tidy(Cut(base, MaxHandle)) /\ EndsWell(Cut(base, MaxHandle))
      /\ Len(Cut(base, MaxHandle)) <= MaxHandle
      /\ Len(base) <= MaxHandle => Len(Cut(base, MaxHandle)) = Len(base)
      /\ MaxHandle <= Len(base) => Len(Cut(base, MaxHandle)) >= MaxHandle - 1
  BY <1>6, <1>7, CutForm
<1>9. Len(Cut(base, MaxHandle)) \in Nat
  BY <1>8 DEF Tidy
<1>10. Len(Cut(base, MaxHandle)) \in 3..MaxHandle
  BY <1>6, <1>7, <1>8, <1>9
<1> QED
  BY <1>1, <1>8, <1>10
-----------------------------------------------------------------------------
(* Decimal                                                                 *)

\* Decimal up to a number.
IsDecimal(f, n) ==
  f = [i \in 0..n |-> IF i < 10 THEN <<Numerals[i + 1]>>
                      ELSE Append(f[i \div 10], Numerals[(i % 10) + 1])]

LEMMA DecimalAt ==
  ASSUME NEW n \in Nat, NEW f, IsDecimal(f, n), NEW i \in 0..n
  PROVE  f[i] = IF i < 10 THEN <<Numerals[i + 1]>>
                ELSE Append(f[i \div 10], Numerals[(i % 10) + 1])
<1> DEFINE g == [j \in 0..n |-> IF j < 10 THEN <<Numerals[j + 1]>>
                                ELSE Append(f[j \div 10], Numerals[(j % 10) + 1])]
<1>1. f = g
  BY DEF IsDecimal
<1>2. g[i] = IF i < 10 THEN <<Numerals[i + 1]>>
             ELSE Append(f[i \div 10], Numerals[(i % 10) + 1])
  OBVIOUS
<1> HIDE DEF g
<1>3. f[i] = g[i]
  BY <1>1
<1> QED
  BY <1>2, <1>3

\* There is one up to every number.
LEMMA DecimalUpto == \A n \in Nat : \E f : IsDecimal(f, n)
<1> DEFINE Missing == {n \in Nat : ~ \E f : IsDecimal(f, n)}
<1> SUFFICES ASSUME Missing # {}
             PROVE  FALSE
  OBVIOUS
<1>1. PICK n \in Missing : \A m \in Missing : n <= m
  <2>1. Missing \in SUBSET Nat
    OBVIOUS
  <2> HIDE DEF Missing
  <2> QED
    BY <2>1, LeastNatural
<1>2. n \in Nat /\ ~ \E f : IsDecimal(f, n)
  BY <1>1
<1>3. \E f : IsDecimal(f, 0)
  <2> DEFINE first == [i \in 0..0 |-> <<Numerals[i + 1]>>]
  <2>1. IsDecimal(first, 0)
    BY DEF IsDecimal
  <2> QED
    BY <2>1
<1>4. n # 0 /\ n - 1 \in Nat /\ ~(n <= n - 1)
  BY <1>2, <1>3
<1>5. PICK f : IsDecimal(f, n - 1)
  BY <1>1, <1>4
<1> DEFINE digits(g, i) == IF i < 10 THEN <<Numerals[i + 1]>>
                           ELSE Append(g[i \div 10], Numerals[(i % 10) + 1])
           next == [i \in 0..n |-> IF i = n THEN digits(f, n) ELSE f[i]]
<1>6. \A i \in 0..n : i >= 10 => i \div 10 \in 0..(n - 1) /\ next[i \div 10] = f[i \div 10]
  BY <1>2, <1>4
<1>7. \A i \in 0..(n - 1) : f[i] = digits(f, i)
  BY <1>5 DEF IsDecimal
<1>8. \A i \in 0..n : digits(next, i) = digits(f, i)
  BY <1>6
<1>9. \A i \in 0..n : next[i] = digits(next, i)
  <2> SUFFICES ASSUME NEW i \in 0..n
               PROVE  next[i] = digits(f, i)
    BY <1>8
  <2>1. i = n \/ i \in 0..(n - 1)
    BY <1>2
  <2> HIDE DEF digits
  <2> QED
    BY <1>7, <2>1
<1>10. next = [i \in 0..n |-> next[i]]
  OBVIOUS
<1>11. IsDecimal(next, n)
  <2> HIDE DEF next
  <2> QED
    BY <1>9, <1>10 DEF IsDecimal
<1> QED
  BY <1>2, <1>11

\* Two such functions agree where both are defined.
LEMMA DecimalAgrees ==
  ASSUME NEW m \in Nat, NEW n \in Nat, NEW f, NEW g, IsDecimal(f, m), IsDecimal(g, n)
  PROVE  \A i \in Nat : i <= m /\ i <= n => f[i] = g[i]
<1> DEFINE Different == {i \in Nat : i <= m /\ i <= n /\ f[i] # g[i]}
<1> SUFFICES ASSUME Different # {}
             PROVE  FALSE
  OBVIOUS
<1>1. PICK i \in Different : \A j \in Different : i <= j
  <2>1. Different \in SUBSET Nat
    OBVIOUS
  <2> HIDE DEF Different
  <2> QED
    BY <2>1, LeastNatural
<1>2. i \in Nat /\ i <= m /\ i <= n /\ f[i] # g[i]
  BY <1>1
<1>3. /\ f[i] = IF i < 10 THEN <<Numerals[i + 1]>>
                ELSE Append(f[i \div 10], Numerals[(i % 10) + 1])
      /\ g[i] = IF i < 10 THEN <<Numerals[i + 1]>>
                ELSE Append(g[i \div 10], Numerals[(i % 10) + 1])
  <2>1. i \in 0..m /\ i \in 0..n
    BY <1>2
  <2> QED
    BY <2>1, DecimalAt
<1>4. i >= 10
  BY <1>2, <1>3
<1>5. i \div 10 \in Nat /\ i \div 10 < i
  BY <1>2, <1>4
<1>6. f[i \div 10] = g[i \div 10]
  <2> PICK k : k = i \div 10
    OBVIOUS
  <2>1. k \in Nat /\ k <= m /\ k <= n /\ ~(i <= k)
    BY <1>2, <1>5
  <2> QED
    BY <1>1, <2>1
<1> QED
  BY <1>2, <1>3, <1>4, <1>6

\* %d is defined for every number by its recursion.
LEMMA DecimalExists ==
  \A n \in Nat : Decimal[n] = IF n < 10 THEN <<Numerals[n + 1]>>
                              ELSE Append(Decimal[n \div 10], Numerals[(n % 10) + 1])
<1> DEFINE upto(n) == CHOOSE f : IsDecimal(f, n)
           whole == [n \in Nat |-> upto(n)[n]]
<1>1. \A n \in Nat : IsDecimal(upto(n), n)
  BY DecimalUpto
<1> HIDE DEF upto
<1>2. ASSUME NEW n \in Nat
      PROVE  whole[n] = IF n < 10 THEN <<Numerals[n + 1]>>
                        ELSE Append(whole[n \div 10], Numerals[(n % 10) + 1])
  <2>1. upto(n)[n] = IF n < 10 THEN <<Numerals[n + 1]>>
                     ELSE Append(upto(n)[n \div 10], Numerals[(n % 10) + 1])
    <3>1. n \in 0..n
      OBVIOUS
    <3> QED
      BY <1>1, <3>1, DecimalAt
  <2>2. n \div 10 \in Nat /\ n \div 10 <= n
    OBVIOUS
  <2>3. upto(n)[n \div 10] = whole[n \div 10]
    <3> PICK k : k = n \div 10
      OBVIOUS
    <3>1. k \in Nat /\ k <= n /\ k <= k
      BY <2>2
    <3>2. upto(n)[k] = upto(k)[k]
      BY <1>1, <3>1, DecimalAgrees
    <3> QED
      BY <3>1, <3>2
  <2> QED
    BY <2>1, <2>3
<1>3. whole = [n \in Nat |-> IF n < 10 THEN <<Numerals[n + 1]>>
                             ELSE Append(whole[n \div 10], Numerals[(n % 10) + 1])]
  BY <1>2
<1> HIDE DEF whole
<1>4. Decimal = [n \in Nat |-> IF n < 10 THEN <<Numerals[n + 1]>>
                               ELSE Append(Decimal[n \div 10], Numerals[(n % 10) + 1])]
  BY <1>3 DEF Decimal
<1> QED
  BY <1>4

Digits == ToSet(Numerals)

LEMMA NumeralForm ==
  /\ \A i \in 0..9 : Numerals[i + 1] \in Digits
  /\ "-" \notin Digits /\ Digits \subseteq Character
<1>1. DOMAIN Numerals = 1..10
  BY DEF Numerals
<1>2. \A i \in 0..9 : Numerals[i + 1] \in Digits
  BY <1>1 DEF Digits, ToSet
<1>3. Digits \subseteq HandleCharacters
  BY DEF Digits, HandleCharacters
<1> QED
  BY <1>2, <1>3, HyphenIsNoLetter DEF Character

\* The division of %d.
LEMMA Tenth ==
  ASSUME NEW n \in Nat, NEW k \in Nat, n < 10 * k
  PROVE  n \div 10 \in Nat /\ n \div 10 < k
OBVIOUS

\* %d of a number has as many digits as it has.
LEMMA OneDigit ==
  ASSUME NEW n \in Nat, n < 10
  PROVE  Decimal[n] \in Seq(Digits) /\ Len(Decimal[n]) = 1
<1>1. Decimal[n] = <<Numerals[n + 1]>>
  BY DecimalExists, Zenon
<1>2. n \in 0..9
  OBVIOUS
<1>3. PICK c \in Digits : c = Numerals[n + 1]
  BY <1>2, NumeralForm
<1>4. <<c>> \in Seq(Digits) /\ Len(<<c>>) = 1
  OBVIOUS
<1> QED
  BY <1>1, <1>3, <1>4

\* The digit of the rest of the division comes last.
LEMMA OneDigitMore ==
  ASSUME NEW n \in Nat, ~(n < 10), NEW k \in Nat,
         Decimal[n \div 10] \in Seq(Digits), Len(Decimal[n \div 10]) <= k
  PROVE  Decimal[n] \in Seq(Digits) /\ Len(Decimal[n]) <= k + 1
<1>1. Decimal[n] = Append(Decimal[n \div 10], Numerals[(n % 10) + 1])
  BY DecimalExists, Zenon
<1>2. n % 10 \in 0..9
  OBVIOUS
<1>3. PICK c \in Digits : c = Numerals[(n % 10) + 1]
  BY <1>2, NumeralForm
<1>4. PICK d \in Seq(Digits) : d = Decimal[n \div 10]
  OBVIOUS
<1>5. Append(d, c) \in Seq(Digits) /\ Len(Append(d, c)) = Len(d) + 1 /\ Len(d) \in Nat
  OBVIOUS
<1>6. Len(d) <= k
  BY <1>4
<1>7. Decimal[n] = Append(d, c)
  BY <1>1, <1>3, <1>4
<1> QED
  BY <1>5, <1>6, <1>7

\* One digit more for ten times as many numbers.
LEMMA DigitsGrow ==
  ASSUME NEW most \in Nat, NEW k \in Nat \ {0},
         \A m \in Nat : m < most => Decimal[m] \in Seq(Digits) /\ Len(Decimal[m]) <= k
  PROVE  \A n \in Nat : n < 10 * most => Decimal[n] \in Seq(Digits) /\ Len(Decimal[n]) <= k + 1
<1> SUFFICES ASSUME NEW n \in Nat, n < 10 * most
             PROVE  Decimal[n] \in Seq(Digits) /\ Len(Decimal[n]) <= k + 1
  OBVIOUS
<1>1. CASE n < 10
  BY <1>1, OneDigit
<1>2. CASE ~(n < 10)
  <2>1. n \div 10 \in Nat /\ n \div 10 < most
    BY Tenth
  <2>2. Decimal[n \div 10] \in Seq(Digits) /\ Len(Decimal[n \div 10]) <= k
    BY <2>1, Zenon
  <2> QED
    BY <1>2, <2>2, OneDigitMore
<1> QED
  BY <1>1, <1>2

\* The numbers of at most four digits.
Short == {n \in Nat : n < 10 * (10 * (10 * 10))}

LEMMA FourDigits == \A n \in Short : Decimal[n] \in Seq(Digits) /\ Len(Decimal[n]) <= 4
<1> DEFINE Fits(most, k) ==
             \A m \in Nat : m < most => Decimal[m] \in Seq(Digits) /\ Len(Decimal[m]) <= k
<1>1. Fits(10, 1)
  <2> SUFFICES ASSUME NEW m \in Nat, m < 10
               PROVE  Decimal[m] \in Seq(Digits) /\ Len(Decimal[m]) <= 1
    OBVIOUS
  <2>1. Decimal[m] \in Seq(Digits) /\ Len(Decimal[m]) = 1
    BY OneDigit
  <2> QED
    BY <2>1
<1>2. ASSUME NEW most \in Nat, NEW k \in Nat \ {0}, Fits(most, k)
      PROVE  Fits(10 * most, k + 1)
  BY <1>2, DigitsGrow
<1> HIDE DEF Fits
<1>3. Fits(10 * 10, 1 + 1)
  BY <1>1, <1>2
<1>4. Fits(10 * (10 * 10), (1 + 1) + 1)
  BY <1>2, <1>3
<1>5. Fits(10 * (10 * (10 * 10)), ((1 + 1) + 1) + 1)
  BY <1>2, <1>4
<1> QED
  BY <1>5 DEF Fits, Short

LEMMA DecimalForm ==
  ASSUME NEW n \in Short
  PROVE  Decimal[n] \in Seq(Digits) /\ Len(Decimal[n]) \in 1..4
<1>0. n \in Nat
  BY DEF Short
<1>1. Decimal[n] \in Seq(Digits) /\ Len(Decimal[n]) <= 4
  BY FourDigits
<1>2. Decimal[n] # <<>>
  <2>1. CASE n < 10
    BY <1>0, <2>1, OneDigit
  <2>2. CASE ~(n < 10)
    <3>1. Decimal[n] = Append(Decimal[n \div 10], Numerals[(n % 10) + 1])
      BY <1>0, <2>2, DecimalExists, Zenon
    <3>2. n \div 10 \in Short
      BY DEF Short
    <3>3. PICK d \in Seq(Digits) : d = Decimal[n \div 10]
      BY <3>2, FourDigits
    <3> QED
      BY <3>1, <3>3
  <2> QED
    BY <2>1, <2>2
<1>3. PICK d \in Seq(Digits) : d = Decimal[n]
  BY <1>1
<1>4. Len(d) \in Nat /\ Len(d) <= 4
  BY <1>1, <1>3
<1>5. Len(d) # 0
  BY <1>2, <1>3
<1>6. \A l \in Nat : l <= 4 /\ l # 0 => l \in 1..4
  OBVIOUS
<1>7. Len(d) \in 1..4
  BY <1>4, <1>5, <1>6, Zenon
<1> QED
  BY <1>3, <1>7

\* What a sequence is behind another one.
LEMMA Behind ==
  ASSUME NEW S, NEW s \in Seq(S), NEW t \in Seq(S)
  PROVE  /\ s \o t \in Seq(S) /\ Len(s \o t) = Len(s) + Len(t)
         /\ \A i \in 1..Len(t) : (s \o t)[Len(s) + i] = t[i]
OBVIOUS

\* The suffix of an attempt is a hyphen and digits.
LEMMA SuffixForm ==
  ASSUME NEW n \in Short
  PROVE  LET suffix == <<"-">> \o Decimal[n]
         IN  /\ suffix \in Seq(Character) /\ Single(suffix) /\ EndsWell(suffix)
             /\ Len(suffix) \in 2..5
<1>1. PICK d \in Seq(Digits) : d = Decimal[n] /\ Len(d) \in 1..4
  BY DecimalForm
<1>2. \A i \in 1..Len(d) : d[i] \in Character /\ d[i] # "-"
  BY NumeralForm
<1>3. PICK hyphen \in Seq(Character) : hyphen = <<"-">> /\ Len(hyphen) = 1
  <2>1. <<"-">> \in Seq(Character) /\ Len(<<"-">>) = 1
    BY DEF Character
  <2> QED
    BY <2>1, Zenon
<1>4. d \in Seq(Character)
  BY <1>2
<1>5. /\ hyphen \o d \in Seq(Character) /\ Len(hyphen \o d) = Len(hyphen) + Len(d)
      /\ \A i \in 1..Len(d) : (hyphen \o d)[Len(hyphen) + i] = d[i]
  BY <1>4, Behind, Zenon
<1>6. PICK suffixed \in Seq(Character) : suffixed = hyphen \o d
  BY <1>5
<1>7. Len(hyphen) = 1
  BY <1>3
<1>8. PICK l \in 1..4 : l = Len(d) /\ Len(suffixed) = 1 + l
  <2>1. Len(suffixed) = 1 + Len(d)
    BY <1>5, <1>6, <1>7, Zenon
  <2> QED
    BY <1>1, <2>1, Zenon
<1>9. \A i \in 2..(1 + l) : suffixed[i] # "-"
  <2> SUFFICES ASSUME NEW i \in 2..(1 + l)
               PROVE  suffixed[i] # "-"
    OBVIOUS
  <2>1. i - 1 \in 1..l /\ 1 + (i - 1) = i
    OBVIOUS
  <2>2. suffixed[1 + (i - 1)] = d[i - 1]
    BY <1>5, <1>6, <1>7, <1>8, <2>1, Zenon
  <2> QED
    BY <1>2, <1>8, <2>1, <2>2
<1>10. Single(suffixed) /\ EndsWell(suffixed) /\ Len(suffixed) \in 2..5
  <2>1. Len(suffixed) \in 2..5 /\ 1 + l \in 2..(1 + l) /\ Len(suffixed) = 1 + l
    <3>1. 1 + l \in 2..5 /\ 1 + l \in 2..(1 + l)
      OBVIOUS
    <3> QED
      BY <1>8, <3>1, Zenon
  <2>2. EndsWell(suffixed)
    <3>1. suffixed[Len(suffixed)] # "-"
      BY <1>8, <1>9, <2>1, Zenon
    <3> QED
      BY <2>1, <3>1 DEF EndsWell
  <2>3. Single(suffixed)
    <3>1. \A i \in 1..(1 + l) : i < 1 + l => i + 1 \in 2..(1 + l)
      OBVIOUS
    <3> QED
      BY <1>9, <2>1, <3>1, Zenon DEF Single
  <2> QED
    BY <2>1, <2>2, <2>3
<1>11. suffixed = <<"-">> \o Decimal[n]
  BY <1>1, <1>3, <1>6, Zenon
<1>12. suffixed \in Seq(Character) /\ Single(suffixed) /\ EndsWell(suffixed) /\ Len(suffixed) \in 2..5
  BY <1>10
<1> QED
  BY <1>11, <1>12, Zenon

LEMMA TidyIsCanonical ==
  ASSUME NEW handle, Tidy(handle), EndsWell(handle), Len(handle) \in 3..MaxHandle
  PROVE  IsCanonicalHandle(handle)
BY MaxHandleAssumption DEF Tidy, EndsWell, IsCanonicalHandle, Character

\* What AuthStore inserts: whatever the username, and for more attempts than
\* there may be, a handle that the CHECK of the column accepts.
LEMMA CandidatesAreCanonical ==
  ASSUME NEW username \in Seq(STRING), NEW n \in Short
  PROVE  IsCanonicalHandle(HandleCandidate(NormalizeHandle(username), n))
<1> DEFINE suffix == <<"-">> \o Decimal[n]
<1>1. PICK base : /\ base = NormalizeHandle(username) /\ Tidy(base) /\ EndsWell(base)
                  /\ Len(base) \in 3..MaxHandle
  BY NormalizeForm
<1>2. CASE n <= 1
  BY <1>1, <1>2, TidyIsCanonical DEF HandleCandidate
<1>3. CASE ~(n <= 1)
  <2>1. suffix \in Seq(Character) /\ Single(suffix) /\ EndsWell(suffix) /\ Len(suffix) \in 2..5
    BY SuffixForm
  <2>2. HandleCandidate(base, n) = Cut(base, MaxHandle - Len(suffix)) \o suffix
    BY <1>3 DEF HandleCandidate
  <2> HIDE DEF suffix
  <2>3. PICK k \in Nat : k = MaxHandle - Len(suffix) /\ k >= 1
    <3>1. PICK l \in 2..5 : l = Len(suffix)
      BY <2>1
    <3>2. MaxHandle - l \in Nat /\ MaxHandle - l >= 1
      BY MaxHandleAssumption
    <3> QED
      BY <3>1, <3>2
  <2>4. PICK front : front = Cut(base, k)
    OBVIOUS
  <2>5. Tidy(front) /\ EndsWell(front) /\ Len(front) <= k
    BY <1>1, <2>3, <2>4, CutForm, MaxHandleAssumption
  <2>6. Len(front) > 0 /\ front[Len(front)] # "-" /\ Len(front) \in Nat /\ Len(suffix) > 0
    BY <2>1, <2>5 DEF EndsWell, Tidy
  <2>7. /\ Tidy(front \o suffix) /\ EndsWell(front \o suffix)
        /\ Len(front \o suffix) = Len(front) + Len(suffix)
    BY <2>1, <2>5, <2>6, ConcatTidy, Zenon
  <2>8. Len(front \o suffix) \in 3..MaxHandle
    <3>1. PICK l \in 2..5 : l = Len(suffix)
      BY <2>1
    <3>2. PICK m \in Nat : m = Len(front)
      BY <2>6
    <3>3. m > 0 /\ m <= MaxHandle - l /\ MaxHandle \in Nat
      BY <2>3, <2>5, <2>6, <3>1, <3>2, MaxHandleAssumption
    <3>4. m + l \in 3..MaxHandle
      BY <3>3
    <3> QED
      BY <2>7, <3>1, <3>2, <3>4
  <2> QED
    BY <1>1, <2>2, <2>3, <2>4, <2>7, <2>8, TidyIsCanonical
<1> QED
  BY <1>2, <1>3

\* Whatever their Discord usernames are, everybody who signs in gets candidates
\* that the CHECK of users.handle accepts: no login fails for how a name is
\* spelt, cut or numbered.
THEOREM CandidatesFitTheColumn == SessionsSafety => []LoginsHaveCanonicalHandles
<1>1. Names \subseteq InsertableNames
  <2> SUFFICES ASSUME NEW name \in Names, NEW n \in {1, 2, 9, 10, 99, 100, 999, 1000}
               PROVE  IsCanonicalHandle(HandleCandidate(NormalizeHandle(name), n))
    BY DEF InsertableNames
  <2>1. n \in Short
    BY DEF Short
  <2> QED
    BY <2>1, NamesAssumption, CandidatesAreCanonical
<1>2. AccountsInv => LoginsHaveCanonicalHandles
  <2> SUFFICES ASSUME FormOK, NEW f \in Flows, flow[f] # Idle
               PROVE  flow[f].name \in Names
    BY <1>1 DEF AccountsInv, LoginsHaveCanonicalHandles
  <2> QED
    BY DEF FormOK, FlowState
<1> QED
  BY <1>2, AccountsInductive, PTL

\* So the column's CHECK is never what an INSERT fails on: with less than ten
\* thousand attempts every account has a handle that is canonical, if those had
\* that there were before.
THEOREM HandlesStayCanonical ==
  ASSUME MaxAttempts \in Short, \A e \in Earlier : IsCanonicalHandle(Registered[e].handle)
  PROVE  SessionsSafety => [](\A u \in users : IsCanonicalHandle(u.handle))
<1>1. \A name \in Names, n \in 1..MaxAttempts : IsCanonicalHandle(Candidate[name][n])
  <2> SUFFICES ASSUME NEW name \in Names, NEW n \in 1..MaxAttempts
               PROVE  IsCanonicalHandle(HandleCandidate(NormalizeHandle(name), n))
    BY DEF Candidate
  <2>1. n \in Short
    BY DEF Short
  <2> QED
    BY <2>1, NamesAssumption, CandidatesAreCanonical
<1>2. \A handle \in SomeHandles : IsCanonicalHandle(handle)
  BY <1>1 DEF SomeHandles
<1>3. AccountsInv => \A u \in users : IsCanonicalHandle(u.handle)
  BY <1>2 DEF AccountsInv, FormOK, UserRow
<1> QED
  BY <1>3, AccountsInductive, PTL

-----------------------------------------------------------------------------
(* Requests of signed-in users                                             *)

LEMMA RuleSteps == [Next]_vars => [SessionsNext]_sessionVars
<1>1. ASSUME (\/ \E f \in Flows : SignIn(f)
              \/ \E k \in Calls : Logout(k)
              \/ \E k \in Calls, b \in Browsers : Request(k, b, TRUE)
              \/ Outside)
      PROVE  SessionsNext
  BY <1>1 DEF SessionsNext
<1>2. ASSUME NEW k \in Calls, NEW b \in Browsers, NEW kind, NEW asked, Ask(k, b, kind, asked)
      PROVE  SessionsNext
  BY <1>2 DEF Ask, SessionsNext
<1>3. ASSUME NEW k \in Calls, AuthenticateUser(k) \/ Answer(k)
      PROVE  SessionsNext
  BY <1>3 DEF AuthenticateUser, Answer, SessionsNext
<1>4. ASSUME NEW k \in Calls, CreateContent(k) \/ SkipUpdate(k) \/ UpdateUserProfile(k)
      PROVE  UNCHANGED sessionVars
  BY <1>4 DEF CreateContent, SkipUpdate, UpdateUserProfile
<1>5. UNCHANGED vars => UNCHANGED sessionVars
  BY DEF vars
<1> QED
  BY <1>1, <1>2, <1>3, <1>4, <1>5 DEF Next

\* The services read the session's user and never write what the sign-ins and
\* sessions do: every behaviour of theirs is one of the sessions.
THEOREM ServicesUseSessions == Spec => SessionsSafety
<1>1. Init => SessionsInit
  BY DEF Init
<1> QED
  BY <1>1, RuleSteps, PTL DEF Spec, SessionsSafety

\* So the sessions' theorems hold with the services around them: an old token
\* stays dead, a session is replaced in one step, and a live cookie is lost to
\* a late answer only.
THEOREM SessionsHoldAmongServices ==
  Spec => []OldTokensAreDead /\ RotationIsWhole /\ CookieLostOnlyToLateAnswer
  BY ServicesUseSessions, OldTokensStayDead, SessionsRotateWhole, CookiesAreLostLate, PTL

\* A request that goes on has a user.
ServedUser(k) == call[k].step = "served" => call[k].user \in SignIns

\* The columns, the contents and the requests have their types.
RulesOK ==
  /\ profile \in [SignIns -> Profile]
  /\ content \subseteq [author : SignIns, by : Calls]
  /\ work \in [Calls -> Work]
  /\ \A k \in Calls : ServedUser(k)

LEMMA ServedStep ==
  ASSUME FormOK, \A k \in Calls : ServedUser(k), [SessionsNext]_sessionVars
  PROVE  \A k \in Calls : ServedUser(k)'
<1>1. ASSUME UNCHANGED call
      PROVE  \A k \in Calls : ServedUser(k)'
  BY <1>1 DEF ServedUser
<1>2. ASSUME NEW c \in Calls, OtherCalls(c), ServedUser(c)'
      PROVE  \A k \in Calls : ServedUser(k)'
  BY <1>2 DEF ServedUser, OtherCalls
<1>3. ASSUME NEW f \in Flows, SignIn(f)
      PROVE  UNCHANGED call
  BY <1>3 DEF SignIn, StartDiscord, DiscordCallback, GetUserByDiscordID, CreateUser, Commit,
              Abort, UpdateDiscordIdentity, ReplaceSession, CallbackAnswered
<1>4. ASSUME NEW c \in Calls, NEW b \in Browsers, NEW logout \in BOOLEAN, Request(c, b, logout)
      PROVE  OtherCalls(c) /\ ServedUser(c)'
  BY <1>4, RequestMoves DEF ServedUser
<1>5. ASSUME NEW c \in Calls, Authenticate(c)
      PROVE  OtherCalls(c) /\ ServedUser(c)'
  <2>1. OtherCalls(c) /\ call[c] \in CallState
    BY <1>5, CallMoves
  <2>2. CASE call' = [call EXCEPT ![c].step = "refused"]
    BY <2>1, <2>2 DEF ServedUser, FormOK, CallState
  <2>3. ASSUME NEW s \in sessions,
               call' = [call EXCEPT ![c].step = "served", ![c].user = s.user]
        PROVE  ServedUser(c)'
    <3> DEFINE x == [call[c] EXCEPT !.step = "served", !.user = s.user]
    <3>1. s.user \in SignIns
      BY DEF FormOK, Session
    <3>2. x \in CallState /\ x.user \in SignIns
      BY <2>1, <3>1 DEF CallState
    <3>3. call' = [call EXCEPT ![c] = x]
      BY <2>3 DEF FormOK
    <3> HIDE DEF x
    <3>4. call'[c] = x
      BY <3>2, <3>3, SetCall
    <3> QED
      BY <3>2, <3>4 DEF ServedUser, SignIns
  <2> QED
    BY <1>5, <2>1, <2>2, <2>3 DEF Authenticate
<1>6. ASSUME NEW c \in Calls, Logout(c) \/ CallAnswered(c)
      PROVE  OtherCalls(c) /\ ServedUser(c)'
  BY <1>6, CallMoves DEF ServedUser
<1>7. ASSUME Outside
      PROVE  UNCHANGED call
  BY <1>7 DEF Outside, Expire, Disable
<1>8. ASSUME UNCHANGED sessionVars
      PROVE  UNCHANGED call
  BY <1>8 DEF sessionVars
<1> QED
  BY <1>1, <1>2, <1>3, <1>4, <1>5, <1>6, <1>7, <1>8 DEF SessionsNext

-----------------------------------------------------------------------------
(* What the services do to one request's work                              *)

LEMMA SetWork ==
  ASSUME RulesOK, NEW k \in Calls, NEW x \in Work, work' = [work EXCEPT ![k] = x]
  PROVE  work' \in [Calls -> Work] /\ work'[k] = x
  BY DEF RulesOK

\* Done gives a request its result and leaves what it asked for.
LEMMA DoneForm ==
  ASSUME RulesOK, NEW k \in Calls, NEW result \in {"ok", "unchanged", "disabled"},
         Done(k, result)
  PROVE  work' \in [Calls -> Work] /\ work'[k].result = result
<1> DEFINE x == [work[k] EXCEPT !.result = result]
<1>1. work[k] \in Work
  BY DEF RulesOK
<1>2. x \in Work /\ x.result = result
  BY <1>1 DEF Work
<1>3. work' = [work EXCEPT ![k] = x]
  BY DEF Done
<1> HIDE DEF x
<1> QED
  BY <1>2, <1>3, SetWork

LEMMA AskForm ==
  ASSUME RulesOK, NEW k \in Calls, NEW kind \in {"create", "profile"},
         NEW asked \in Asked \cup {NoAsk}, NEW b, Ask(k, b, kind, asked)
  PROVE  work' \in [Calls -> Work]
<1> DEFINE x == [work[k] EXCEPT !.kind = kind, !.asked = asked]
<1>1. work[k] \in Work
  BY DEF RulesOK
<1>2. x \in Work
  BY <1>1 DEF Work
<1>3. work' = [work EXCEPT ![k] = x]
  BY DEF Ask, RulesOK
<1> HIDE DEF x
<1> QED
  BY <1>2, <1>3, SetWork

LEMMA SeenForm ==
  ASSUME RulesOK, NEW k \in Calls, ServedUser(k)', AuthenticateUser(k)
  PROVE  work' \in [Calls -> Work]
<1> DEFINE seen == IF call'[k].step = "served" THEN profile[call'[k].user] ELSE work[k].seen
           x == [work[k] EXCEPT !.seen = seen]
<1>1. work[k] \in Work
  BY DEF RulesOK
<1>2. seen \in Profile
  BY <1>1 DEF RulesOK, ServedUser, SignIns, Work
<1>3. work' = [work EXCEPT ![k] = x]
  BY DEF AuthenticateUser, RulesOK
<1> HIDE DEF seen
<1>4. x \in Work
  BY <1>1, <1>2 DEF Work
<1> HIDE DEF x
<1> QED
  BY <1>3, <1>4, SetWork

\* NewProfile is a profile: the columns asked for, and the others as they are.
LEMMA NewProfileForm ==
  ASSUME RulesOK, NEW k \in Calls, call[k].user \in SignIns
  PROVE  NewProfile(k) \in Profile
<1>1. work[k].asked \in Asked \cup {NoAsk}
  BY DEF RulesOK, Work
<1>2. PICK named \in SUBSET Columns : work[k].asked \in [named -> Values]
  BY <1>1 DEF Asked, NoAsk
<1>3. profile[call[k].user] \in Profile
  BY DEF RulesOK
<1> QED
  BY <1>2, <1>3 DEF NewProfile, Profile

\* The update writes the profile of the request's user, and of nobody else.
LEMMA UpdateForm ==
  ASSUME RulesOK, NEW k \in Calls, UpdateUserProfile(k), profile' # profile
  PROVE  /\ call[k].step = "served" /\ call[k].user \in SignIns /\ Active(call[k].user)
         /\ work[k].result = "none" /\ work'[k].result = "ok"
         /\ profile' = [profile EXCEPT ![call[k].user] = NewProfile(k)]
<1>1. call[k].step = "served" /\ work[k].result = "none"
  BY DEF UpdateUserProfile, Pending
<1>2. call[k].user \in SignIns
  BY <1>1 DEF RulesOK, ServedUser
<1>3. /\ Active(call[k].user) /\ Done(k, "ok")
      /\ profile' = [profile EXCEPT ![call[k].user] = NewProfile(k)]
  BY DEF UpdateUserProfile
<1> QED
  BY <1>1, <1>2, <1>3, DoneForm

-----------------------------------------------------------------------------
LEMMA RulesInit == Init => RulesOK
<1> SUFFICES ASSUME Init
             PROVE  RulesOK
  OBVIOUS
<1>1. Blank \in Values
  BY ValuesAssumption DEF Blank
<1>2. [c \in Columns |-> Blank] \in Profile
  BY <1>1 DEF Profile
<1>3. work \in [Calls -> Work]
  BY <1>2 DEF Init, Work
<1>4. \A k \in Calls : ServedUser(k)
  BY DEF Init, SessionsInit, ServedUser, Idle
<1> QED
  BY <1>2, <1>3, <1>4 DEF Init, RulesOK

LEMMA RulesStep ==
  ASSUME AccountsInv, RulesOK, [Next]_vars
  PROVE  RulesOK'
<1>1. \A k \in Calls : ServedUser(k)'
  BY RuleSteps, ServedStep DEF AccountsInv, RulesOK
<1>2. ASSUME UNCHANGED ruleVars
      PROVE  RulesOK'
  BY <1>1, <1>2 DEF ruleVars, RulesOK
<1>3. ASSUME UNCHANGED <<profile, content>>, work' \in [Calls -> Work]
      PROVE  RulesOK'
  BY <1>1, <1>3 DEF RulesOK
<1>4. ASSUME NEW k \in Calls, NEW b \in Browsers,
             \/ Ask(k, b, "create", NoAsk)
             \/ \E asked \in Asked : Ask(k, b, "profile", asked)
      PROVE  RulesOK'
  <2>1. UNCHANGED <<profile, content>>
    BY <1>4 DEF Ask
  <2>2. work' \in [Calls -> Work]
    BY <1>4, AskForm
  <2> QED
    BY <1>3, <2>1, <2>2
<1>5. ASSUME NEW k \in Calls, AuthenticateUser(k)
      PROVE  RulesOK'
  BY <1>1, <1>3, <1>5, SeenForm DEF AuthenticateUser
<1>6. ASSUME NEW k \in Calls, CreateContent(k)
      PROVE  RulesOK'
  <2>1. call[k].user \in SignIns
    BY <1>6 DEF CreateContent, Pending, RulesOK, ServedUser
  <2>2. content' \subseteq [author : SignIns, by : Calls]
    BY <1>6, <2>1 DEF CreateContent, RulesOK
  <2>3. work' \in [Calls -> Work] /\ profile' = profile
    BY <1>6, DoneForm DEF CreateContent
  <2> QED
    BY <1>1, <2>2, <2>3 DEF RulesOK
<1>7. ASSUME NEW k \in Calls, SkipUpdate(k)
      PROVE  RulesOK'
  BY <1>3, <1>7, DoneForm DEF SkipUpdate
<1>8. ASSUME NEW k \in Calls, UpdateUserProfile(k)
      PROVE  RulesOK'
  <2>1. work' \in [Calls -> Work] /\ content' = content
    BY <1>8, DoneForm DEF UpdateUserProfile
  <2>2. profile' \in [SignIns -> Profile]
    BY <1>8, UpdateForm, NewProfileForm DEF RulesOK
  <2> QED
    BY <1>1, <2>1, <2>2 DEF RulesOK
<1>9. ASSUME NEW k \in Calls, Answer(k)
      PROVE  RulesOK'
  BY <1>2, <1>9 DEF Answer
<1>10. UNCHANGED vars => UNCHANGED ruleVars
  BY DEF vars
<1> QED
  BY <1>2, <1>4, <1>5, <1>6, <1>7, <1>8, <1>9, <1>10 DEF Next

\* Rows and requests keep their types: content is by a user somebody signed in
\* as, and an update leaves every column of every profile a value.
THEOREM RulesHold == Spec => []RulesOK
<1>1. AccountsInv /\ RulesOK /\ [Next]_vars => RulesOK'
  BY RulesStep
<1> QED
  BY <1>1, RulesInit, ServicesUseSessions, AccountsInductive, PTL DEF Spec

\* A profile changes only by a request of its user, who is active at that very
\* step, and only in the columns the request names, whatever other requests of
\* the same user read and write between its session lookup and its UPDATE.
THEOREM ProfilesChangeAsAsked == Spec => ProfileChangesAsAsked
<1> DEFINE AsAsked == \A id \in SignIns : profile'[id] # profile[id] =>
       /\ Active(id)
       /\ \E k \in Calls :
            /\ call[k].step = "served" /\ call[k].user = id
            /\ work[k].result = "none" /\ work'[k].result = "ok"
            /\ \A c \in Columns :
                 profile'[id][c] = IF c \in DOMAIN work[k].asked THEN work[k].asked[c]
                                   ELSE profile[id][c]
<1>1. ASSUME RulesOK, [Next]_vars
      PROVE  [AsAsked]_vars
  <2>1. profile' = profile \/ \E k \in Calls : UpdateUserProfile(k)
    BY <1>1 DEF Next, Ask, AuthenticateUser, CreateContent, SkipUpdate, Answer, vars, ruleVars
  <2>2. ASSUME NEW k \in Calls, UpdateUserProfile(k), profile' # profile
        PROVE  AsAsked
    <3>1. profile \in [SignIns -> Profile]
      BY <1>1 DEF RulesOK
    <3>2. /\ call[k].step = "served" /\ Active(call[k].user)
          /\ work[k].result = "none" /\ work'[k].result = "ok"
          /\ profile' = [profile EXCEPT ![call[k].user] = NewProfile(k)]
      BY <1>1, <2>2, UpdateForm
    <3>3. ASSUME NEW id \in SignIns, profile'[id] # profile[id]
          PROVE  /\ call[k].user = id
                 /\ \A c \in Columns :
                      profile'[id][c] = IF c \in DOMAIN work[k].asked THEN work[k].asked[c]
                                        ELSE profile[id][c]
      <4>1. call[k].user = id /\ profile'[id] = NewProfile(k)
        BY <3>1, <3>2, <3>3
      <4> QED
        BY <4>1 DEF NewProfile
    <3> QED
      BY <3>2, <3>3
  <2> QED
    BY <2>1, <2>2
<1>2. RulesOK /\ [Next]_vars => [AsAsked]_vars
  BY <1>1
<1> QED
  BY <1>2, RulesHold, PTL DEF Spec, ProfileChangesAsAsked
=============================================================================
