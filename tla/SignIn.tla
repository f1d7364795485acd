------------------------------- MODULE SignIn -------------------------------
(***************************************************************************)
(* A user signs in with a one-time code (AuthController.loginOtpVerify)    *)
(* and works in the browser until the session ends: the codes of           *)
(* OtpChallenges open the sessions of Sessions.                            *)
(***************************************************************************)
EXTENDS OtpChallenges, Sessions

ASSUME SignInAssumption == SignIns = Guesses

vars == << otp, sessions >>

Init == InitOtp /\ InitSessions

\* loginUser and loginOtpResend issue codes to active accounts, from the sign-in page.
Issue(i) == ~ disabled /\ client # "in" /\ StartIssue(i) /\ UNCHANGED sessions

Verify(g) == /\ client # "in"
             /\ signing[g].step = "idle"
             /\ \E k \in Challenges, right \in BOOLEAN : StartGuess(g, k, right)
             /\ UNCHANGED sessions

Code == \/ \E i \in Issues : ClearActive(i) \/ Create(i)
        \/ \E g \in Guesses : CountGuess(g) \/ Close(g) \/ ClaimCode(g)

\* Counted with the troubles of the sessions, to bound them together.
CodeLapses == /\ \E k \in Challenges : LapseCode(k)
              /\ Trouble
              /\ UNCHANGED << server, signing, client, jar, call, refresh >>

\* After the code is consumed the account is looked at again.
Refused(g) == /\ guess[g].step = "accepted"
              /\ disabled
              /\ EndGuess(g)
              /\ UNCHANGED << challenge, issue, accepted, sessions >>

Opened(g) == /\ guess[g].step = "accepted"
             /\ ~ disabled
             /\ FindSession(g, guess[g].code)
             /\ EndGuess(g)
             /\ UNCHANGED << challenge, issue, accepted >>

Session == \/ \E g \in SignIns : SaveSession(g) \/ SignedIn(g) \/ AnswerLost(g)
           \/ \E c \in Calls : \/ Send(c) \/ Answered(c) \/ AskRefresh(c)
                               \/ RefreshReads(c) \/ RefreshRotates(c) \/ RefreshLost(c)
                               \/ RefreshAnswered(c) \/ AnsweredAgain(c)
           \/ \E s \in Docs : LapseSession(s) \/ DeleteSession(s)
           \/ Logout \/ LapseTokens \/ DisableUser

Next == \/ \E i \in Issues : Issue(i)
        \/ \E g \in Guesses : Verify(g) \/ Refused(g) \/ Opened(g)
        \/ Code /\ UNCHANGED sessions
        \/ CodeLapses
        \/ Session /\ UNCHANGED otp

Spec == Init /\ [][Next]_vars

-----------------------------------------------------------------------------

\* Every variable has its type; guesses at a code stay within the limit.
TypeOK ==
  /\ challenge \in [Challenges -> [status : {"none", "active", "consumed", "invalid"},
                                   attempts : 0 .. MaxAttempts, lapsed : BOOLEAN]]
  /\ issue \in [Issues -> [step : {"idle", "clear", "create"}, carried : 0 .. MaxAttempts, tries : 0 .. 3]]
  /\ guess \in [Guesses -> [step : {"idle", "count", "close", "claim", "accepted"}, code : 0 .. MaxChallenges]]
  /\ accepted \in [Challenges -> Nat]
  /\ session \in [Docs -> [state : {"none", "active", "ended", "gone"}, secret : 0 .. MaxMinted,
                           lapsed : BOOLEAN, login : 0 .. MaxChallenges]]
  /\ signing \in [SignIns -> [step : {"idle", "save", "answer"}, doc : 0 .. MaxSessions,
                              login : 0 .. MaxChallenges, n : 0 .. MaxMinted]]
  /\ minted \in 0 .. MaxMinted
  /\ lapsed \in 0 .. MaxMinted
  /\ troubles \in 0 .. MaxTroubles
  /\ disabled \in BOOLEAN
  /\ client \in {"out", "in", "forced"}
  /\ jar \in [n : 0 .. MaxMinted, doc : 0 .. MaxSessions, login : 0 .. MaxChallenges]
  /\ call \in [Calls -> [step : {"idle", "sent", "denied", "leading", "joined", "again"},
                         token : [n : 0 .. MaxMinted, doc : 0 .. MaxSessions, login : 0 .. MaxChallenges]]]
  /\ refresh \in [Calls -> [step : {"none", "find", "rotate", "yes", "no"}, n : 0 .. MaxMinted,
                            doc : 0 .. MaxSessions, lost : BOOLEAN]]

\* A code opens one session at most, to one sign-in, however many calls carry
\* it at the same time, and two calls that issue codes leave one active
\* (verifyOtpChallenge, the unique index of OtpChallenge.js).
CodesSpentOnce ==
  /\ \A k \in Challenges : accepted[k] <= 1
  /\ \A g, h \in SignIns : g # h /\ signing[g].login # 0 => signing[g].login # signing[h].login
  /\ Cardinality(Active) <= 1

\* The session the browser holds is active and nobody else signed in on it.
HeldSession == jar.doc \in ActiveSessions /\ session[jar.doc].login = jar.login

\* However many calls of the page meet an expired token at once, the browser is
\* forced out only if its session is over or a refresh call was lost (api.ts:402-407).
SignedInWhileValid ==
  [][client = "in" /\ client' = "forced" =>
       \/ ~ HeldSession
       \/ \E c \in Calls : refresh[c].step = "no" /\ refresh[c].lost]_vars

=============================================================================
