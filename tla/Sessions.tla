------------------------------ MODULE Sessions ------------------------------
(***************************************************************************)
(* The sessions of one user on one device (lib/authSession.js,             *)
(* SessionController.js, middleware/auth.js) and the browser that uses     *)
(* them (client services/api.ts, utils/authSession.ts).  An access token   *)
(* and a refresh token are minted together and share a number.  The        *)
(* refresh token of a session changes with every use.                      *)
(***************************************************************************)
EXTENDS Integers, FiniteSets

CONSTANTS
  Tabs,          \* tabs of the browser
  Slots,         \* calls a tab has in flight at most
  SignIns,       \* calls that sign in
  Transport,     \* VITE_AUTH_TRANSPORT: "cookie" or "bearer"
  MaxSessions,   \* bound: sessions made
  MaxMinted,     \* bound: pairs of tokens
  MaxTroubles    \* bound: refresh calls lost, sessions expired, deleted, accounts disabled

ASSUME SessionsAssumption ==
  /\ IsFiniteSet(Tabs) /\ IsFiniteSet(Slots) /\ IsFiniteSet(SignIns)
  /\ Transport \in {"cookie", "bearer"}
  /\ Transport = "bearer" => Cardinality(Tabs) = 1   \* its tokens are a tab's own
  /\ {MaxSessions, MaxMinted, MaxTroubles} \subseteq Nat

VARIABLES
  session,    \* session documents, in the order they are made
  signing,    \* how far each call that signs in has come
  minted,     \* tokens minted so far
  lapsed,     \* access tokens up to this number are over their 15 minutes
  disabled,   \* the user's account
  client,     \* "out", "in", or "forced" out by handleInvalidSession
  jar,        \* the tokens the browser holds
  call,       \* the calls of the tabs
  refresh,    \* the refresh each call leads
  troubles

sessions == << session, signing, minted, lapsed, disabled, client, jar, call, refresh, troubles >>
browser == << client, jar, call, refresh, troubles >>
server == << session, minted, lapsed, disabled >>

Docs == 1 .. MaxSessions
Calls == Tabs \X Slots
ActiveSessions == {s \in Docs : session[s].state = "active"}

NoToken == [n |-> 0, doc |-> 0, login |-> 0]
NoSignIn == [step |-> "idle", doc |-> 0, login |-> 0, n |-> 0]
NoCall == [step |-> "idle", token |-> NoToken]
NoRefresh == [step |-> "none", n |-> 0, doc |-> 0, lost |-> FALSE]

\* login is the sign-in that last took the session.
InitSessions ==
  /\ session = [s \in Docs |-> [state |-> "none", secret |-> 0, lapsed |-> FALSE, login |-> 0]]
  /\ signing = [g \in SignIns |-> NoSignIn]
  /\ minted = 0 /\ lapsed = 0 /\ troubles = 0
  /\ disabled = FALSE
  /\ client = "out"
  /\ jar = NoToken
  /\ call = [c \in Calls |-> NoCall]
  /\ refresh = [c \in Calls |-> NoRefresh]

Ended(s) == session' = [session EXCEPT ![s].state = "ended"]
Trouble == troubles < MaxTroubles /\ troubles' = troubles + 1
Mint == minted < MaxMinted /\ minted' = minted + 1

-----------------------------------------------------------------------------
(* Signing in: createSessionWithTokens *)

\* An active session of the same device is taken over, else one is made.
FindSession(g, login) ==
  /\ \E s \in Docs :
       /\ IF ActiveSessions # {}
          THEN s \in ActiveSessions /\ UNCHANGED session
          ELSE /\ session[s].state = "none"
               /\ \A r \in 1 .. s - 1 : session[r].state # "none"
               /\ session' = [session EXCEPT ![s].state = "active"]
       /\ signing' = [signing EXCEPT ![g] = [step |-> "save", doc |-> s, login |-> login, n |-> 0]]
  /\ UNCHANGED << minted, lapsed, disabled, browser >>

\* Only the expiry and the refresh token are written: a session that ended in
\* between stays ended.  One that was deleted makes the save throw.
SaveSession(g) ==
  /\ signing[g].step = "save"
  /\ LET s == signing[g].doc IN
       IF session[s].state = "gone"
       THEN signing' = [signing EXCEPT ![g] = NoSignIn] /\ UNCHANGED << session, minted >>
       ELSE /\ Mint
            /\ session' = [session EXCEPT ![s] = [@ EXCEPT
                 !.secret = minted', !.lapsed = FALSE, !.login = signing[g].login]]
            /\ signing' = [signing EXCEPT ![g].step = "answer", ![g].n = minted']
  /\ UNCHANGED << lapsed, disabled, browser >>

\* The browser takes the answer; it waits for its own calls to be over.
SignedIn(g) ==
  /\ signing[g].step = "answer"
  /\ client # "in"
  /\ \A c \in Calls : call[c].step = "idle"
  /\ client' = "in"
  /\ jar' = [n |-> signing[g].n, doc |-> signing[g].doc, login |-> signing[g].login]
  /\ signing' = [signing EXCEPT ![g] = NoSignIn]
  /\ UNCHANGED << server, call, refresh, troubles >>

\* Nobody takes the answer: the browser has another one, or it is lost.
AnswerLost(g) ==
  /\ signing[g].step = "answer"
  /\ (client = "in" /\ UNCHANGED troubles) \/ Trouble
  /\ signing' = [signing EXCEPT ![g] = NoSignIn]
  /\ UNCHANGED << server, client, jar, call, refresh >>

-----------------------------------------------------------------------------
(* Calls of the browser *)

Tab(c) == c[1]
Leads(c) == call[c].step = "leading"

\* handleInvalidSession forgets the user and reloads the page.
ForceOut(t) ==
  /\ client' = IF client = "in" THEN "forced" ELSE client
  /\ call' = [c \in Calls |-> IF Tab(c) = t THEN NoCall ELSE call[c]]

Send(c) ==
  /\ client = "in"
  /\ call[c].step = "idle"
  /\ call' = [call EXCEPT ![c] = [step |-> "sent", token |-> jar]]
  /\ UNCHANGED << server, signing, client, jar, refresh, troubles >>

\* verifyToken: what makes it end the session, and what makes it accept the call.
TokenLapsed(t) == t.n <= lapsed
EndedByCheck(t) == /\ ~ TokenLapsed(t)
                   /\ session[t.doc].state = "active"
                   /\ session[t.doc].lapsed \/ disabled
Accepts(t) == ~ TokenLapsed(t) /\ session[t.doc].state = "active" /\ ~ EndedByCheck(t)

Checked(t) == IF EndedByCheck(t) THEN Ended(t.doc) ELSE UNCHANGED session

\* The first answer to a call: done, or a 401 that asks for a refresh.
Answered(c) ==
  /\ call[c].step = "sent"
  /\ call' = [call EXCEPT ![c] = IF Accepts(call[c].token) THEN NoCall ELSE [@ EXCEPT !.step = "denied"]]
  /\ Checked(call[c].token)
  /\ UNCHANGED << minted, lapsed, disabled, signing, client, jar, refresh, troubles >>

\* Mutant: every call refreshes on its own.
InFlightNever(t) == FALSE
\* tryRefreshSession: the first of a tab leads, the others wait for its answer.
InFlight(t) == \E d \in Calls : Tab(d) = t /\ Leads(d)
AskRefresh(c) ==
  /\ call[c].step = "denied"
  /\ IF InFlight(Tab(c))
     THEN call' = [call EXCEPT ![c].step = "joined"] /\ UNCHANGED refresh
     ELSE /\ refresh[c].step = "none"
          /\ call' = [call EXCEPT ![c].step = "leading"]
          /\ refresh' = [refresh EXCEPT ![c] = [NoRefresh EXCEPT !.step = "find", !.n = jar.n]]
  /\ UNCHANGED << server, signing, client, jar, troubles >>

Found(n) == {s \in ActiveSessions : session[s].secret = n}

\* refreshSession looks the session up by its token ...
RefreshReads(c) ==
  /\ refresh[c].step = "find"
  /\ \/ /\ Found(refresh[c].n) = {}
        /\ refresh' = [refresh EXCEPT ![c].step = "no"]
        /\ UNCHANGED session
     \/ \E s \in Found(refresh[c].n) :
          IF session[s].lapsed \/ disabled
          THEN Ended(s) /\ refresh' = [refresh EXCEPT ![c].step = "no"]
          ELSE /\ refresh' = [refresh EXCEPT ![c].step = "rotate", ![c].doc = s]
               /\ UNCHANGED session
  /\ UNCHANGED << minted, lapsed, disabled, signing, client, jar, call, troubles >>

\* ... and replaces the token if nobody else did.
Rotates(c) == refresh[c].doc \in Found(refresh[c].n)
RefreshRotates(c) ==
  /\ refresh[c].step = "rotate"
  /\ IF Rotates(c)
     THEN /\ Mint
          /\ session' = [session EXCEPT ![refresh[c].doc].secret = minted']
          /\ refresh' = [refresh EXCEPT ![c].step = "yes", ![c].n = minted']
     ELSE refresh' = [refresh EXCEPT ![c].step = "no"] /\ UNCHANGED << session, minted >>
  /\ UNCHANGED << lapsed, disabled, signing, client, jar, call, troubles >>

\* The next address is tried, or there is none left.
RefreshLost(c) ==
  /\ refresh[c].step # "none"
  /\ Leads(c)
  /\ Trouble
  /\ \E step \in {"find", "no"} :
       refresh' = [refresh EXCEPT ![c] = [NoRefresh EXCEPT !.step = step, !.n = jar.n, !.lost = TRUE]]
  /\ UNCHANGED << server, signing, client, jar, call >>

\* Cookies go with the second try; an Authorization header is the one built
\* before the first try.
RetryToken(c) == IF Transport = "bearer" THEN call[c].token ELSE jar'

RefreshAnswered(c) ==
  /\ refresh[c].step \in {"yes", "no"}
  /\ refresh' = [refresh EXCEPT ![c] = NoRefresh]
  /\ IF ~ Leads(c)
     THEN UNCHANGED << client, jar, call >>
     ELSE IF refresh[c].step = "yes"
     THEN /\ jar' = [jar EXCEPT !.n = refresh[c].n, !.doc = refresh[c].doc]
          /\ call' = [d \in Calls |->
               IF Tab(d) = Tab(c) /\ call[d].step \in {"leading", "joined"}
               THEN [step |-> "again", token |-> RetryToken(d)] ELSE call[d]]
          /\ UNCHANGED client
     ELSE ForceOut(Tab(c)) /\ UNCHANGED jar
  /\ UNCHANGED << server, signing, troubles >>

\* After a refresh, only a message about the token makes the session invalid.
AnsweredAgain(c) ==
  /\ call[c].step = "again"
  /\ Checked(call[c].token)
  /\ IF TokenLapsed(call[c].token)
     THEN ForceOut(Tab(c))
     ELSE call' = [call EXCEPT ![c] = NoCall] /\ UNCHANGED client
  /\ UNCHANGED << minted, lapsed, disabled, signing, jar, refresh, troubles >>

\* The browser forgets the user whatever becomes of the call it sends.
Logout ==
  /\ client = "in"
  /\ client' = "out"
  /\ \/ UNCHANGED session
     \/ jar.doc \in ActiveSessions /\ Ended(jar.doc)
  /\ UNCHANGED << minted, lapsed, disabled, signing, jar, call, refresh, troubles >>

-----------------------------------------------------------------------------
(* Time, and what other devices and the staff do *)

\* No call lives as long as the token it carries: a minute against fifteen.
Brief == /\ \A c \in Calls : call[c].step \in {"idle", "sent"} /\ refresh[c].step = "none"
         /\ \A g \in SignIns : signing[g].step = "idle"

LapseTokens ==
  /\ client = "in"
  /\ lapsed < minted
  /\ Brief
  /\ lapsed' = minted
  /\ UNCHANGED << session, minted, disabled, signing, browser >>

LapseSession(s) ==
  /\ s \in ActiveSessions
  /\ ~ session[s].lapsed
  /\ session' = [session EXCEPT ![s].lapsed = TRUE]
  /\ UNCHANGED << minted, lapsed, disabled, signing, client, jar, call, refresh >>
  /\ Trouble

\* Revoked from another device, or cleaned up after it ended.
DeleteSession(s) ==
  /\ session[s].state \in {"active", "ended"}
  /\ session' = [session EXCEPT ![s].state = "gone"]
  /\ UNCHANGED << minted, lapsed, disabled, signing, client, jar, call, refresh >>
  /\ Trouble

DisableUser ==
  /\ ~ disabled
  /\ disabled' = TRUE
  /\ UNCHANGED << session, minted, lapsed, signing, client, jar, call, refresh >>
  /\ Trouble

=============================================================================
