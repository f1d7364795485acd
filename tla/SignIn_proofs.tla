---------------------------- MODULE SignIn_proofs ----------------------------
(***************************************************************************)
(* What holds of the codes and of the sessions they open for any number of *)
(* calls that issue and verify codes, of sessions, of tokens, of calls of  *)
(* the page, and of losses and expiries.                                   *)
(***************************************************************************)
EXTENDS SignIn, FiniteSetTheorems, TLAPS

(* ---- the documents ------------------------------------------------------- *)

CodeRecord == [status : {"none", "active", "consumed", "invalid"},
               attempts : 0 .. MaxAttempts, lapsed : BOOLEAN]
IssueRecord == [step : {"idle", "clear", "create"}, carried : 0 .. MaxAttempts, tries : 0 .. 3]
GuessRecord == [step : {"idle", "count", "close", "claim", "accepted"}, code : 0 .. MaxChallenges]
SessionRecord == [state : {"none", "active", "ended", "gone"}, secret : 0 .. MaxMinted,
                  lapsed : BOOLEAN, login : 0 .. MaxChallenges]
SigningRecord == [step : {"idle", "save", "answer"}, doc : 0 .. MaxSessions,
                  login : 0 .. MaxChallenges, n : 0 .. MaxMinted]
Token == [n : 0 .. MaxMinted, doc : 0 .. MaxSessions, login : 0 .. MaxChallenges]
CallRecord == [step : {"idle", "sent", "denied", "leading", "joined", "again"}, token : Token]
RefreshRecord == [step : {"none", "find", "rotate", "yes", "no"}, n : 0 .. MaxMinted,
                  doc : 0 .. MaxSessions, lost : BOOLEAN]

CodesTyped ==
  /\ challenge \in [Challenges -> CodeRecord]
  /\ issue \in [Issues -> IssueRecord]
  /\ guess \in [Guesses -> GuessRecord]
  /\ accepted \in [Challenges -> Nat]

SessionsTyped ==
  /\ session \in [Docs -> SessionRecord]
  /\ signing \in [SignIns -> SigningRecord]
  /\ minted \in 0 .. MaxMinted
  /\ lapsed \in 0 .. MaxMinted
  /\ troubles \in 0 .. MaxTroubles
  /\ disabled \in BOOLEAN
  /\ client \in {"out", "in", "forced"}
  /\ jar \in Token
  /\ call \in [Calls -> CallRecord]
  /\ refresh \in [Calls -> RefreshRecord]

LEMMA TypesOfBoth == TypeOK <=> CodesTyped /\ SessionsTyped
BY DEF TypeOK, CodesTyped, SessionsTyped, CodeRecord, IssueRecord, GuessRecord, SessionRecord,
       SigningRecord, Token, CallRecord, RefreshRecord

(* ---- the steps of each part ------------------------------------------------ *)

CodesStep ==
  \/ \E i \in Issues : StartIssue(i) \/ ClearActive(i) \/ Create(i)
  \/ \E g \in Guesses : \/ \E k \in Challenges, right \in BOOLEAN : StartGuess(g, k, right)
                        \/ CountGuess(g) \/ Close(g) \/ ClaimCode(g)
                        \/ EndGuess(g) /\ UNCHANGED << challenge, issue, accepted >>
  \/ \E k \in Challenges : LapseCode(k)

SessionsStep ==
  \/ \E g \in SignIns, login \in 0 .. MaxChallenges : FindSession(g, login)
  \/ Session
  \/ Trouble /\ UNCHANGED << server, signing, client, jar, call, refresh >>

\* A step of the system is a step of the codes, of the sessions, or of both.
LEMMA Parts ==
  ASSUME CodesTyped, [Next]_vars
  PROVE  /\ CodesStep \/ UNCHANGED otp
         /\ SessionsStep \/ UNCHANGED sessions
<1> USE SignInAssumption
<1>1. ASSUME NEW i \in Issues, Issue(i)
      PROVE  CodesStep /\ UNCHANGED sessions
  BY <1>1 DEF Issue, CodesStep
<1>2. ASSUME NEW g \in Guesses, Verify(g)
      PROVE  CodesStep /\ UNCHANGED sessions
  BY <1>2 DEF Verify, CodesStep
<1>3. ASSUME NEW g \in Guesses, Refused(g)
      PROVE  CodesStep /\ UNCHANGED sessions
  BY <1>3 DEF Refused, CodesStep
<1>4. ASSUME NEW g \in Guesses, Opened(g)
      PROVE  CodesStep /\ SessionsStep
  <2>1. guess[g].code \in 0 .. MaxChallenges
    BY DEF CodesTyped, GuessRecord
  <2>2. SessionsStep
    BY <1>4, <2>1 DEF Opened, SessionsStep
  <2>3. CodesStep
    BY <1>4 DEF Opened, CodesStep
  <2> QED
    BY <2>2, <2>3
<1>5. ASSUME Code, UNCHANGED sessions
      PROVE  CodesStep
  BY <1>5 DEF Code, CodesStep
<1>6. ASSUME CodeLapses
      PROVE  CodesStep /\ SessionsStep
  BY <1>6 DEF CodeLapses, CodesStep, SessionsStep
<1>7. ASSUME Session
      PROVE  SessionsStep
  BY <1>7 DEF SessionsStep
<1> QED
  BY <1>1, <1>2, <1>3, <1>4, <1>5, <1>6, <1>7 DEF Next, vars, otp, sessions

(* ---- the codes stay well formed -------------------------------------------- *)

LEMMA CodesInitType == InitOtp => CodesTyped
BY OtpAssumption DEF InitOtp, CodesTyped, NoIssue, NoGuess, CodeRecord, IssueRecord, GuessRecord

LEMMA CodesType ==
  ASSUME CodesTyped, CodesStep
  PROVE  CodesTyped'
<1>1. /\ \A k \in Challenges : challenge[k] \in CodeRecord
      /\ \A i \in Issues : issue[i] \in IssueRecord
      /\ \A g \in Guesses : guess[g] \in GuessRecord
      /\ NoIssue \in IssueRecord /\ NoGuess \in GuessRecord
      /\ MaxAttempts \in Nat \ {0} /\ MaxChallenges \in Nat
  BY OtpAssumption DEF CodesTyped, NoIssue, NoGuess, IssueRecord, GuessRecord
<1>2. ASSUME NEW g \in Guesses, NEW r \in GuessRecord, guess' = [guess EXCEPT ![g] = r],
             UNCHANGED << challenge, issue, accepted >>
      PROVE  CodesTyped'
  BY <1>2 DEF CodesTyped
<1>3. ASSUME NEW i \in Issues, NEW r \in IssueRecord, issue' = [issue EXCEPT ![i] = r],
             UNCHANGED << challenge, guess, accepted >>
      PROVE  CodesTyped'
  BY <1>3 DEF CodesTyped
<1>4. ASSUME NEW i \in Issues, StartIssue(i) PROVE CodesTyped'
  <2>1. PICK n \in IF Active = {} THEN {0} ELSE {challenge[k].attempts : k \in Active} :
          issue' = [issue EXCEPT ![i] = [step |-> "clear", carried |-> n, tries |-> 1]]
    BY <1>4 DEF StartIssue
  <2>2. n \in 0 .. MaxAttempts
    BY <1>1 DEF Active, CodeRecord
  <2>3. [step |-> "clear", carried |-> n, tries |-> 1] \in IssueRecord
    BY <2>2 DEF IssueRecord
  <2> QED
    BY <1>3, <1>4, <2>1, <2>3 DEF StartIssue
<1>5. ASSUME NEW i \in Issues, ClearActive(i) PROVE CodesTyped'
  <2>1. [issue[i] EXCEPT !.step = "create"] \in IssueRecord
    BY <1>1 DEF IssueRecord
  <2>2. issue' \in [Issues -> IssueRecord]
    BY <1>5, <2>1 DEF ClearActive, CodesTyped
  <2>3. \A k \in Challenges : [challenge[k] EXCEPT !.status = "invalid"] \in CodeRecord
    BY <1>1 DEF CodeRecord
  <2>4. challenge' \in [Challenges -> CodeRecord]
    BY <1>1, <1>5, <2>3 DEF ClearActive
  <2> QED
    BY <1>5, <2>2, <2>4 DEF ClearActive, CodesTyped
<1>6. ASSUME NEW i \in Issues, Create(i) PROVE CodesTyped'
  <2>1. CASE Active = {}
    <3> DEFINE r == [status |-> "active", attempts |-> issue[i].carried, lapsed |-> FALSE]
    <3>1. r \in CodeRecord
      <4>1. issue[i].carried \in 0 .. MaxAttempts
        BY <1>1 DEF IssueRecord
      <4> QED
        BY <4>1 DEF CodeRecord
    <3>2. /\ challenge' = [challenge EXCEPT ![Cardinality(Made) + 1] = r]
          /\ issue' = [issue EXCEPT ![i] = NoIssue]
          /\ UNCHANGED << guess, accepted >>
      BY <1>6, <2>1 DEF Create
    <3> HIDE DEF r
    <3> QED
      BY <1>1, <3>1, <3>2 DEF CodesTyped
  <2>2. CASE Active # {}
    <3> DEFINE r == [issue[i] EXCEPT !.step = "clear", !.tries = issue[i].tries + 1]
    <3>1. issue[i].tries # 3 => r \in IssueRecord
      <4>1. issue[i].tries # 3 => issue[i].tries + 1 \in 0 .. 3
        BY <1>1 DEF IssueRecord
      <4> QED
        BY <1>1, <4>1 DEF IssueRecord
    <3>2. /\ issue' = [issue EXCEPT ![i] = IF issue[i].tries = 3 THEN NoIssue ELSE r]
          /\ UNCHANGED << challenge, guess, accepted >>
      BY <1>6, <2>2 DEF Create
    <3> HIDE DEF r
    <3> QED
      BY <1>1, <1>3, <3>1, <3>2
  <2> QED
    BY <2>1, <2>2
<1>7. ASSUME NEW k \in Challenges, LapseCode(k) PROVE CodesTyped'
  <2>1. [challenge[k] EXCEPT !.lapsed = TRUE] \in CodeRecord
    BY <1>1 DEF CodeRecord
  <2> QED
    BY <1>7, <2>1 DEF LapseCode, CodesTyped
<1>8. ASSUME NEW g \in Guesses, NEW k \in Challenges, NEW right \in BOOLEAN, StartGuess(g, k, right)
      PROVE  CodesTyped'
  <2> DEFINE r == [code |-> k, step |->
                     IF challenge[k].lapsed THEN "close" ELSE IF right THEN "claim" ELSE "count"]
  <2>1. r \in GuessRecord
    BY <1>1 DEF GuessRecord, Challenges
  <2>2. guess' = [guess EXCEPT ![g] = r] /\ UNCHANGED << challenge, issue, accepted >>
    BY <1>8 DEF StartGuess
  <2> HIDE DEF r
  <2> QED
    BY <1>2, <2>1, <2>2
<1>9. ASSUME NEW g \in Guesses, CountGuess(g) PROVE CodesTyped'
  <2> DEFINE k == guess[g].code
  <2>1. CASE Counts(k)
    <3>1. k \in Challenges /\ challenge[k].attempts < MaxAttempts
      BY <2>1 DEF Counts, Active
    <3>2. [challenge[k] EXCEPT !.attempts = @ + 1] \in CodeRecord
      BY <1>1, <3>1 DEF CodeRecord
    <3>3. challenge' = [challenge EXCEPT ![k] = [challenge[k] EXCEPT !.attempts = @ + 1]]
      BY <1>9, <2>1 DEF CountGuess
    <3>4. [guess[g] EXCEPT !.step = "close"] \in GuessRecord
      BY <1>1 DEF GuessRecord
    <3>5. guess' = [guess EXCEPT ![g] = IF challenge[k].attempts + 1 >= MaxAttempts
                                        THEN [guess[g] EXCEPT !.step = "close"] ELSE NoGuess]
      BY <1>9, <2>1 DEF CountGuess
    <3>6. guess' \in [Guesses -> GuessRecord]
      BY <1>1, <3>4, <3>5 DEF CodesTyped
    <3> HIDE DEF k
    <3>7. challenge' \in [Challenges -> CodeRecord]
      BY <3>1, <3>2, <3>3 DEF CodesTyped
    <3> QED
      BY <1>9, <3>6, <3>7 DEF CountGuess, CodesTyped
  <2>2. CASE ~ Counts(k)
    BY <1>1, <1>2, <1>9, <2>2 DEF CountGuess
  <2> QED
    BY <2>1, <2>2
<1>10. ASSUME NEW g \in Guesses, Close(g) PROVE CodesTyped'
  <2> DEFINE k == guess[g].code
  <2>1. CASE k \in Challenges
    <3>1. \A status \in {"invalid", challenge[k].status} :
            [challenge[k] EXCEPT !.status = status] \in CodeRecord
      BY <1>1, <2>1 DEF CodeRecord
    <3>2. challenge' \in [Challenges -> CodeRecord]
      BY <1>10, <2>1, <3>1 DEF Close, CodesTyped
    <3> QED
      BY <1>1, <1>10, <3>2 DEF Close, CodesTyped
  <2>2. CASE k \notin Challenges
    <3>1. challenge' = challenge
      BY <1>10, <2>2 DEF Close, CodesTyped
    <3> QED
      BY <1>1, <1>2, <1>10, <3>1 DEF Close
  <2> QED
    BY <2>1, <2>2
<1>11. ASSUME NEW g \in Guesses, ClaimCode(g) PROVE CodesTyped'
  <2> DEFINE k == guess[g].code
  <2>1. CASE Claims(k)
    <3>1. k \in Challenges /\ accepted[k] \in Nat
      BY <2>1 DEF Claims, Active, CodesTyped
    <3>2. [challenge[k] EXCEPT !.status = "consumed"] \in CodeRecord
      BY <1>1, <3>1 DEF CodeRecord
    <3>3. challenge' \in [Challenges -> CodeRecord]
      BY <1>11, <2>1, <3>2 DEF ClaimCode, CodesTyped
    <3>4. accepted' \in [Challenges -> Nat]
      BY <1>11, <2>1, <3>1 DEF ClaimCode, CodesTyped
    <3>5. [guess[g] EXCEPT !.step = "accepted"] \in GuessRecord
      BY <1>1 DEF GuessRecord
    <3>6. guess' \in [Guesses -> GuessRecord]
      BY <1>11, <2>1, <3>5 DEF ClaimCode, CodesTyped
    <3> QED
      BY <1>11, <3>3, <3>4, <3>6 DEF ClaimCode, CodesTyped
  <2>2. CASE ~ Claims(k)
    BY <1>1, <1>2, <1>11, <2>2 DEF ClaimCode
  <2> QED
    BY <2>1, <2>2
<1>12. ASSUME NEW g \in Guesses, EndGuess(g), UNCHANGED << challenge, issue, accepted >>
       PROVE  CodesTyped'
  BY <1>1, <1>2, <1>12 DEF EndGuess
<1> QED
  BY <1>4, <1>5, <1>6, <1>7, <1>8, <1>9, <1>10, <1>11, <1>12 DEF CodesStep

(* ---- a code is accepted once ------------------------------------------------ *)

\* Codes are made one after the other, one at most is active, a code is
\* accepted when it is consumed, and whoever verifies one verifies one there is.
CodesOK ==
  /\ \E n \in 0 .. MaxChallenges : \A k \in Challenges : challenge[k].status = "none" <=> k > n
  /\ \A k, l \in Challenges : challenge[k].status = "active" /\ challenge[l].status = "active" => k = l
  /\ \A k \in Challenges : accepted[k] = IF challenge[k].status = "consumed" THEN 1 ELSE 0
  /\ \A g \in Guesses : guess[g].step # "idle" =>
       guess[g].code \in Challenges /\ challenge[guess[g].code].status # "none"

LEMMA CodesInit == InitOtp => CodesOK
<1> SUFFICES ASSUME InitOtp PROVE CodesOK
  OBVIOUS
<1>1. \A k \in Challenges : challenge[k].status = "none" <=> k > 0
  BY OtpAssumption DEF InitOtp, Challenges
<1>2. 0 \in 0 .. MaxChallenges
  BY OtpAssumption
<1> QED
  BY <1>1, <1>2 DEF InitOtp, CodesOK, NoGuess

\* What becomes of the status of a code when nobody makes one.
Ages(k) ==
  \/ challenge'[k].status = challenge[k].status /\ accepted'[k] = accepted[k]
  \/ challenge[k].status = "active" /\ challenge'[k].status = "invalid" /\ accepted'[k] = accepted[k]
  \/ challenge[k].status = "active" /\ challenge'[k].status = "consumed" /\ accepted'[k] = accepted[k] + 1

\* Which codes a verification can come to hold.
Holds(g) ==
  guess'[g].step # "idle" =>
    \/ guess[g].step # "idle" /\ guess'[g].code = guess[g].code
    \/ guess'[g].code \in Challenges /\ challenge[guess'[g].code].status # "none"

LEMMA CodesAge ==
  ASSUME CodesTyped, CodesOK, \A k \in Challenges : Ages(k), \A g \in Guesses : Holds(g)
  PROVE  CodesOK'
<1>1. PICK n \in 0 .. MaxChallenges : \A k \in Challenges : challenge[k].status = "none" <=> k > n
  BY DEF CodesOK
<1>2. \A k \in Challenges : challenge'[k].status = "none" <=> k > n
  BY <1>1 DEF Ages
<1>3. \A k, l \in Challenges :
        challenge'[k].status = "active" /\ challenge'[l].status = "active" => k = l
  BY DEF Ages, CodesOK
<1>4. \A k \in Challenges : accepted'[k] = IF challenge'[k].status = "consumed" THEN 1 ELSE 0
  BY DEF Ages, CodesOK
<1>5. \A g \in Guesses : guess'[g].step # "idle" =>
        guess'[g].code \in Challenges /\ challenge'[guess'[g].code].status # "none"
  BY DEF Ages, Holds, CodesOK
<1> QED
  BY <1>2, <1>3, <1>4, <1>5 DEF CodesOK

LEMMA CreateKept ==
  ASSUME CodesTyped, CodesOK, NEW i \in Issues, Create(i)
  PROVE  /\ CodesOK'
         /\ \A k \in Challenges : challenge[k].status \in {"consumed", "invalid"} => challenge'[k] = challenge[k]
         /\ UNCHANGED << guess, accepted >>
<1>1. CASE Active # {}
  <2>1. UNCHANGED << challenge, guess, accepted >>
    BY <1>1 DEF Create
  <2> QED
    BY <2>1, CodesAge DEF Ages, Holds
<1>2. CASE Active = {}
  <2> DEFINE r == [status |-> "active", attempts |-> issue[i].carried, lapsed |-> FALSE]
  <2>1. PICK n \in 0 .. MaxChallenges : \A k \in Challenges : challenge[k].status = "none" <=> k > n
    BY DEF CodesOK
  <2>2. Cardinality(Made) = n
    <3>1. Made = 1 .. n
      BY <2>1, OtpAssumption DEF Made, Challenges
    <3> QED
      BY <3>1, FS_Interval
  <2>3. challenge' = [challenge EXCEPT ![n + 1] = r] /\ UNCHANGED << guess, accepted >>
    BY <1>2, <2>2 DEF Create
  <2>4. r.status = "active"
    OBVIOUS
  <2> HIDE DEF r
  <2>5. \A k \in Challenges : challenge'[k] = IF k = n + 1 THEN r ELSE challenge[k]
    BY <2>3 DEF CodesTyped
  <2>6. CASE n = MaxChallenges
    <3>1. \A k \in Challenges : challenge'[k] = challenge[k]
      BY <2>5, <2>6, OtpAssumption DEF Challenges
    <3> QED
      BY <2>3, <3>1, CodesAge DEF Ages, Holds
  <2>7. CASE n # MaxChallenges
    <3>1. n + 1 \in 0 .. MaxChallenges /\ n + 1 \in Challenges
      BY <2>7, OtpAssumption DEF Challenges
    <3>2. \A k \in Challenges : challenge'[k].status = "none" <=> k > n + 1
      BY <2>1, <2>4, <2>5, <3>1 DEF Challenges
    <3>3. \A k \in Challenges : challenge[k].status # "active"
      BY <1>2 DEF Active
    <3>4. \A k, l \in Challenges :
            challenge'[k].status = "active" /\ challenge'[l].status = "active" => k = l
      BY <2>5, <3>3
    <3>5. challenge[n + 1].status = "none"
      BY <2>1, <3>1
    <3>6. \A k \in Challenges : accepted'[k] = IF challenge'[k].status = "consumed" THEN 1 ELSE 0
      BY <2>3, <2>4, <2>5, <3>1, <3>5 DEF CodesOK
    <3>7. \A g \in Guesses : guess'[g].step # "idle" =>
            guess'[g].code \in Challenges /\ challenge'[guess'[g].code].status # "none"
      BY <2>3, <2>4, <2>5 DEF CodesOK
    <3>8. CodesOK'
      BY <3>1, <3>2, <3>4, <3>6, <3>7 DEF CodesOK
    <3> QED
      BY <2>3, <2>5, <3>5, <3>8
  <2> QED
    BY <2>6, <2>7
<1> QED
  BY <1>1, <1>2

\* A step of the codes: a consumed code stays consumed, and a verification is
\* accepted by consuming a code that was active.
Accepting(g) ==
  /\ guess[g].step = "claim"
  /\ challenge[guess[g].code].status = "active" /\ challenge'[guess[g].code].status = "consumed"
  /\ guess'[g].step = "accepted" /\ guess'[g].code = guess[g].code
  /\ \A h \in Guesses \ {g} : guess'[h] = guess[h]

LEMMA CodesKept ==
  ASSUME CodesTyped, CodesOK, CodesStep
  PROVE  /\ CodesOK'
         /\ \A k \in Challenges : challenge[k].status = "consumed" => challenge'[k].status = "consumed"
         /\ \/ \E g \in Guesses : Accepting(g)
            \/ \A g \in Guesses : guess'[g].step = "accepted" => guess'[g] = guess[g]
<1> DEFINE Stays == \A k \in Challenges : challenge[k].status = "consumed" => challenge'[k].status = "consumed"
           Quiet == \A g \in Guesses : guess'[g].step = "accepted" => guess'[g] = guess[g]
<1>1. /\ \A k \in Challenges : challenge[k] \in CodeRecord /\ accepted[k] \in Nat
      /\ \A g \in Guesses : guess[g] \in GuessRecord
  BY DEF CodesTyped
<1>2. ASSUME \A k \in Challenges : Ages(k)
      PROVE  Stays
  BY <1>2 DEF Ages
<1>3. ASSUME UNCHANGED << challenge, guess, accepted >>
      PROVE  CodesOK' /\ Stays /\ Quiet
  BY <1>3, CodesAge DEF Ages, Holds
<1>4. ASSUME NEW i \in Issues, StartIssue(i)
      PROVE  CodesOK' /\ Stays /\ Quiet
  BY <1>3, <1>4 DEF StartIssue
<1>5. ASSUME NEW i \in Issues, ClearActive(i)
      PROVE  CodesOK' /\ Stays /\ Quiet
  <2>1. \A k \in Challenges : [challenge[k] EXCEPT !.status = "invalid"].status = "invalid"
    BY <1>1 DEF CodeRecord
  <2>2. \A k \in Challenges : Ages(k)
    BY <1>5, <2>1 DEF ClearActive, Active, Ages
  <2> QED
    BY <1>2, <1>5, <2>2, CodesAge DEF ClearActive, Holds
<1>6. ASSUME NEW i \in Issues, Create(i)
      PROVE  CodesOK' /\ Stays /\ Quiet
  BY <1>6, CreateKept
<1>7. ASSUME NEW k \in Challenges, LapseCode(k)
      PROVE  CodesOK' /\ Stays /\ Quiet
  <2>1. [challenge[k] EXCEPT !.lapsed = TRUE].status = challenge[k].status
    BY <1>1 DEF CodeRecord
  <2>2. \A l \in Challenges : Ages(l)
    BY <1>7, <2>1 DEF LapseCode, Ages, CodesTyped
  <2> QED
    BY <1>2, <1>7, <2>2, CodesAge DEF LapseCode, Holds
<1>8. ASSUME NEW g \in Guesses, NEW k \in Challenges, NEW right \in BOOLEAN, StartGuess(g, k, right)
      PROVE  CodesOK' /\ Stays /\ Quiet
  <2> DEFINE r == [code |-> k, step |->
                     IF challenge[k].lapsed THEN "close" ELSE IF right THEN "claim" ELSE "count"]
  <2>1. r.step # "accepted" /\ r.code = k
    OBVIOUS
  <2>2. guess' = [guess EXCEPT ![g] = r] /\ UNCHANGED << challenge, accepted >>
    BY <1>8 DEF StartGuess
  <2>3. challenge[k].status # "none"
    BY <1>8 DEF StartGuess, Active
  <2> HIDE DEF r
  <2>4. \A h \in Guesses : guess'[h] = IF h = g THEN r ELSE guess[h]
    BY <2>2 DEF CodesTyped
  <2>5. \A h \in Guesses : Holds(h)
    BY <2>1, <2>3, <2>4 DEF Holds
  <2>6. \A l \in Challenges : Ages(l)
    BY <2>2 DEF Ages
  <2> QED
    BY <1>2, <2>1, <2>4, <2>5, <2>6, CodesAge
\* The verification ends, or goes on with its code.
<1>9. ASSUME NEW g \in Guesses, NEW r, guess' = [guess EXCEPT ![g] = r],
             r.step = "idle" \/ (r.step # "accepted" /\ r.code = guess[g].code /\ guess[g].step # "idle"),
             \A k \in Challenges : Ages(k)
      PROVE  CodesOK' /\ Stays /\ Quiet
  <2>1. \A h \in Guesses : guess'[h] = IF h = g THEN r ELSE guess[h]
    BY <1>9 DEF CodesTyped
  <2>2. \A h \in Guesses : Holds(h)
    BY <1>9, <2>1 DEF Holds
  <2> QED
    BY <1>2, <1>9, <2>1, <2>2, CodesAge
<1>10. NoGuess.step = "idle"
  BY DEF NoGuess
<1>11. ASSUME NEW g \in Guesses, CountGuess(g)
       PROVE  CodesOK' /\ Stays /\ Quiet
  <2> DEFINE k == guess[g].code
             r == IF Counts(k) /\ challenge[k].attempts + 1 >= MaxAttempts
                  THEN [guess[g] EXCEPT !.step = "close"] ELSE NoGuess
  <2>1. guess' = [guess EXCEPT ![g] = r] /\ guess[g].step = "count" /\ accepted' = accepted
    BY <1>11 DEF CountGuess
  <2>2. r.step = "idle" \/ (r.step = "close" /\ r.code = guess[g].code)
    BY <1>1, <1>10 DEF GuessRecord
  <2>3. \A l \in Challenges : challenge'[l].status = challenge[l].status
    <3>1. CASE Counts(k)
      <4>1. challenge' = [challenge EXCEPT ![k] = [challenge[k] EXCEPT !.attempts = @ + 1]]
        BY <1>11, <3>1 DEF CountGuess
      <4>2. k \in Challenges
        BY <3>1 DEF Counts, Active
      <4>3. [challenge[k] EXCEPT !.attempts = @ + 1].status = challenge[k].status
        BY <1>1, <4>2 DEF CodeRecord
      <4> HIDE DEF k
      <4> QED
        BY <4>1, <4>2, <4>3 DEF CodesTyped
    <3>2. CASE ~ Counts(k)
      BY <1>11, <3>2 DEF CountGuess
    <3> QED
      BY <3>1, <3>2
  <2>4. \A l \in Challenges : Ages(l)
    BY <2>1, <2>3 DEF Ages
  <2> HIDE DEF r
  <2> QED
    BY <1>9, <2>1, <2>2, <2>4
<1>12. ASSUME NEW g \in Guesses, Close(g)
       PROVE  CodesOK' /\ Stays /\ Quiet
  <2> DEFINE k == guess[g].code
  <2>1. guess' = [guess EXCEPT ![g] = NoGuess] /\ accepted' = accepted
    BY <1>12 DEF Close
  <2>2. k \in Challenges
    BY <1>12 DEF Close, CodesOK
  <2>3. PICK status : /\ status = IF k \in Active THEN "invalid" ELSE challenge[k].status
                      /\ challenge' = [challenge EXCEPT ![k] = [challenge[k] EXCEPT !.status = status]]
    BY <1>12 DEF Close
  <2>4. [challenge[k] EXCEPT !.status = status].status = status
    BY <1>1, <2>2 DEF CodeRecord
  <2> HIDE DEF k
  <2>5. \A l \in Challenges : Ages(l)
    BY <2>1, <2>2, <2>3, <2>4 DEF Ages, Active, CodesTyped
  <2> QED
    BY <1>9, <1>10, <2>1, <2>5
<1>13. ASSUME NEW g \in Guesses, ClaimCode(g)
       PROVE  CodesOK' /\ Stays /\ (Accepting(g) \/ Quiet)
  <2> DEFINE k == guess[g].code
  <2>1. CASE Claims(k)
    <3>1. k \in Challenges /\ challenge[k].status = "active"
      BY <2>1 DEF Claims, Active
    <3>2. /\ challenge' = [challenge EXCEPT ![k] = [challenge[k] EXCEPT !.status = "consumed"]]
          /\ accepted' = [accepted EXCEPT ![k] = accepted[k] + 1]
          /\ guess' = [guess EXCEPT ![g] = [guess[g] EXCEPT !.step = "accepted"]]
      BY <1>13, <2>1 DEF ClaimCode
    <3>3. /\ [challenge[k] EXCEPT !.status = "consumed"].status = "consumed"
          /\ [guess[g] EXCEPT !.step = "accepted"].step = "accepted"
          /\ [guess[g] EXCEPT !.step = "accepted"].code = k
      BY <1>1, <3>1 DEF CodeRecord, GuessRecord
    <3>4. \A h \in Guesses : guess'[h] = IF h = g THEN [guess[g] EXCEPT !.step = "accepted"] ELSE guess[h]
      BY <3>2 DEF CodesTyped
    <3>5. guess[g].step = "claim"
      BY <1>13 DEF ClaimCode
    <3>6. guess'[g].step = "accepted" /\ guess'[g].code = k
      BY <3>3, <3>4
    <3>7. \A h \in Guesses \ {g} : guess'[h] = guess[h]
      BY <3>4
    <3> HIDE DEF k
    <3>8. challenge'[k].status = "consumed"
      BY <3>1, <3>2, <3>3 DEF CodesTyped
    <3>9. \A l \in Challenges : Ages(l)
      BY <3>1, <3>2, <3>8 DEF Ages, CodesTyped
    <3>10. \A h \in Guesses : Holds(h)
      BY <3>1, <3>5, <3>6, <3>7 DEF Holds, k
    <3> QED
      BY <1>2, <3>1, <3>5, <3>6, <3>7, <3>8, <3>9, <3>10, CodesAge DEF Accepting, k
  <2>2. CASE ~ Claims(k)
    <3>1. guess' = [guess EXCEPT ![g] = NoGuess] /\ UNCHANGED << challenge, accepted >>
      BY <1>13, <2>2 DEF ClaimCode
    <3>2. \A l \in Challenges : Ages(l)
      BY <3>1 DEF Ages
    <3> QED
      BY <1>9, <1>10, <3>1, <3>2
  <2> QED
    BY <2>1, <2>2
<1>14. ASSUME NEW g \in Guesses, EndGuess(g), UNCHANGED << challenge, issue, accepted >>
       PROVE  CodesOK' /\ Stays /\ Quiet
  <2>1. \A l \in Challenges : Ages(l)
    BY <1>14 DEF Ages
  <2> QED
    BY <1>9, <1>10, <1>14, <2>1 DEF EndGuess
<1> QED
  BY <1>4, <1>5, <1>6, <1>7, <1>8, <1>11, <1>12, <1>13, <1>14 DEF CodesStep

(* ---- the sessions stay well formed ----------------------------------------- *)

LEMMA SessionsInitType == InitSessions => SessionsTyped
<1> SUFFICES ASSUME InitSessions PROVE SessionsTyped
  OBVIOUS
<1>1. 0 \in 0 .. MaxMinted /\ 0 \in 0 .. MaxSessions /\ 0 \in 0 .. MaxChallenges /\ 0 \in 0 .. MaxTroubles
  BY OtpAssumption, SessionsAssumption
<1>2. NoToken \in Token
  BY <1>1 DEF NoToken, Token
<1>3. NoSignIn \in SigningRecord
  BY <1>1 DEF NoSignIn, SigningRecord
<1>4. NoCall \in CallRecord
  BY <1>2 DEF NoCall, CallRecord
<1>5. NoRefresh \in RefreshRecord
  BY <1>1 DEF NoRefresh, RefreshRecord
<1>6. [state |-> "none", secret |-> 0, lapsed |-> FALSE, login |-> 0] \in SessionRecord
  BY <1>1 DEF SessionRecord
<1> QED
  BY <1>1, <1>2, <1>3, <1>4, <1>5, <1>6 DEF InitSessions, SessionsTyped

LEMMA EndedType ==
  ASSUME SessionsTyped, NEW d, Ended(d)
  PROVE  session' \in [Docs -> SessionRecord]
<1>1. \A s \in Docs : [session[s] EXCEPT !.state = "ended"] \in SessionRecord
  BY DEF SessionsTyped, SessionRecord
<1> QED
  BY <1>1 DEF Ended, SessionsTyped

LEMMA ForcedType ==
  ASSUME SessionsTyped, NEW t, ForceOut(t)
  PROVE  client' \in {"out", "in", "forced"} /\ call' \in [Calls -> CallRecord]
<1>1. NoCall \in CallRecord
  BY OtpAssumption, SessionsAssumption DEF NoCall, CallRecord, NoToken, Token
<1> QED
  BY <1>1 DEF ForceOut, SessionsTyped

LEMMA FindType ==
  ASSUME SessionsTyped, NEW g \in SignIns, NEW login \in 0 .. MaxChallenges, FindSession(g, login)
  PROVE  SessionsTyped'
<1>1. PICK s \in Docs :
        /\ session' = session \/ session' = [session EXCEPT ![s] = [session[s] EXCEPT !.state = "active"]]
        /\ signing' = [signing EXCEPT ![g] = [step |-> "save", doc |-> s, login |-> login, n |-> 0]]
  BY DEF FindSession
<1>2. [session[s] EXCEPT !.state = "active"] \in SessionRecord
  BY DEF SessionsTyped, SessionRecord
<1>3. [step |-> "save", doc |-> s, login |-> login, n |-> 0] \in SigningRecord
  BY OtpAssumption, SessionsAssumption DEF SigningRecord, Docs
<1>4. session' \in [Docs -> SessionRecord]
  BY <1>1, <1>2 DEF SessionsTyped
<1>5. signing' \in [SignIns -> SigningRecord]
  BY <1>1, <1>3 DEF SessionsTyped
<1> QED
  BY <1>4, <1>5 DEF FindSession, browser, SessionsTyped

LEMMA SigningType ==
  ASSUME SessionsTyped, NEW g \in SignIns, SaveSession(g) \/ SignedIn(g) \/ AnswerLost(g)
  PROVE  SessionsTyped'
<1>1. /\ \A s \in Docs : session[s] \in SessionRecord
      /\ signing[g] \in SigningRecord
      /\ NoSignIn \in SigningRecord
      /\ MaxMinted \in Nat /\ MaxTroubles \in Nat
  BY OtpAssumption, SessionsAssumption DEF SessionsTyped, NoSignIn, SigningRecord
<1>2. [signing EXCEPT ![g] = NoSignIn] \in [SignIns -> SigningRecord]
  BY <1>1 DEF SessionsTyped
<1>3. ASSUME SaveSession(g) PROVE SessionsTyped'
  <2>1. CASE session[signing[g].doc].state = "gone"
    BY <1>2, <1>3, <2>1 DEF SaveSession, browser, SessionsTyped
  <2>2. CASE session[signing[g].doc].state # "gone"
    <3> DEFINE d == signing[g].doc
               l == signing[g].login
    <3>1. /\ minted' = minted + 1 /\ minted < MaxMinted
          /\ session' = [session EXCEPT ![d] = [session[d] EXCEPT
               !.secret = minted', !.lapsed = FALSE, !.login = l]]
          /\ signing' = [signing EXCEPT ![g] = [signing[g] EXCEPT !.step = "answer", !.n = minted']]
          /\ UNCHANGED << lapsed, disabled, browser >>
      BY <1>3, <2>2 DEF SaveSession, Mint
    <3>2. minted' \in 0 .. MaxMinted
      BY <1>1, <3>1 DEF SessionsTyped
    <3>3. l \in 0 .. MaxChallenges
      BY <1>1 DEF SigningRecord
    <3>4. [signing[g] EXCEPT !.step = "answer", !.n = minted'] \in SigningRecord
      BY <1>1, <3>2 DEF SigningRecord
    <3>5. signing' \in [SignIns -> SigningRecord]
      BY <3>1, <3>4 DEF SessionsTyped
    <3> HIDE DEF l
    <3>6. \A s \in Docs : [session[s] EXCEPT !.secret = minted', !.lapsed = FALSE, !.login = l] \in SessionRecord
      BY <1>1, <3>2, <3>3 DEF SessionRecord
    <3> HIDE DEF d
    <3>7. session' \in [Docs -> SessionRecord]
      BY <3>1, <3>6 DEF SessionsTyped
    <3> QED
      BY <3>1, <3>2, <3>5, <3>7 DEF SessionsTyped, browser
  <2> QED
    BY <2>1, <2>2
<1>4. ASSUME SignedIn(g) PROVE SessionsTyped'
  <2>1. [n |-> signing[g].n, doc |-> signing[g].doc, login |-> signing[g].login] \in Token
    BY <1>1 DEF SigningRecord, Token
  <2> QED
    BY <1>2, <1>4, <2>1 DEF SignedIn, server, SessionsTyped
<1>5. ASSUME AnswerLost(g) PROVE SessionsTyped'
  <2>1. troubles' \in 0 .. MaxTroubles
    BY <1>1, <1>5 DEF AnswerLost, Trouble, SessionsTyped
  <2> QED
    BY <1>2, <1>5, <2>1 DEF AnswerLost, server, SessionsTyped
<1> QED
  BY <1>3, <1>4, <1>5

LEMMA CallsType ==
  ASSUME SessionsTyped, NEW c \in Calls, Send(c) \/ Answered(c) \/ AskRefresh(c) \/ AnsweredAgain(c)
  PROVE  SessionsTyped'
<1>1. /\ call[c] \in CallRecord /\ refresh[c] \in RefreshRecord /\ jar \in Token
      /\ NoCall \in CallRecord /\ NoRefresh \in RefreshRecord
      /\ call[c].token \in Token
  BY OtpAssumption, SessionsAssumption
     DEF SessionsTyped, NoCall, NoToken, Token, CallRecord, NoRefresh, RefreshRecord
<1>2. \A step \in {"denied", "joined", "leading"} : [call[c] EXCEPT !.step = step] \in CallRecord
  BY <1>1 DEF CallRecord
<1>3. ASSUME NEW t, Checked(t) PROVE session' \in [Docs -> SessionRecord]
  BY <1>3, EndedType DEF Checked, SessionsTyped
<1>4. ASSUME Send(c) PROVE SessionsTyped'
  <2>1. [step |-> "sent", token |-> jar] \in CallRecord
    BY <1>1 DEF CallRecord
  <2> QED
    BY <1>4, <2>1 DEF Send, server, SessionsTyped
<1>5. ASSUME Answered(c) PROVE SessionsTyped'
  <2>1. call' = [call EXCEPT ![c] = NoCall] \/ call' = [call EXCEPT ![c] = [call[c] EXCEPT !.step = "denied"]]
    BY <1>5 DEF Answered
  <2>2. call' \in [Calls -> CallRecord]
    BY <1>1, <1>2, <2>1 DEF SessionsTyped
  <2> QED
    BY <1>3, <1>5, <2>2 DEF Answered, SessionsTyped
<1>6. ASSUME AskRefresh(c) PROVE SessionsTyped'
  <2>1. \/ call' = [call EXCEPT ![c] = [call[c] EXCEPT !.step = "joined"]]
        \/ call' = [call EXCEPT ![c] = [call[c] EXCEPT !.step = "leading"]]
    BY <1>6 DEF AskRefresh
  <2>2. call' \in [Calls -> CallRecord]
    BY <1>2, <2>1 DEF SessionsTyped
  <2>3. jar.n \in 0 .. MaxMinted
    BY <1>1 DEF Token
  <2>4. [NoRefresh EXCEPT !.step = "find", !.n = jar.n] \in RefreshRecord
    BY <1>1, <2>3 DEF RefreshRecord
  <2>5. \/ refresh' = refresh
        \/ refresh' = [refresh EXCEPT ![c] = [NoRefresh EXCEPT !.step = "find", !.n = jar.n]]
    BY <1>6 DEF AskRefresh
  <2>6. refresh' \in [Calls -> RefreshRecord]
    BY <2>4, <2>5 DEF SessionsTyped
  <2> QED
    BY <1>6, <2>2, <2>6 DEF AskRefresh, server, SessionsTyped
<1>7. ASSUME AnsweredAgain(c) PROVE SessionsTyped'
  <2>1. client' \in {"out", "in", "forced"} /\ call' \in [Calls -> CallRecord]
    BY <1>1, <1>7, ForcedType DEF AnsweredAgain, SessionsTyped
  <2> QED
    BY <1>3, <1>7, <2>1 DEF AnsweredAgain, SessionsTyped
<1> QED
  BY <1>4, <1>5, <1>6, <1>7

LEMMA RefreshType ==
  ASSUME SessionsTyped, NEW c \in Calls,
         RefreshReads(c) \/ RefreshRotates(c) \/ RefreshLost(c) \/ RefreshAnswered(c)
  PROVE  SessionsTyped'
<1>1. /\ refresh[c] \in RefreshRecord /\ jar \in Token
      /\ \A s \in Docs : session[s] \in SessionRecord
      /\ \A d \in Calls : call[d] \in CallRecord /\ call[d].token \in Token
      /\ NoRefresh \in RefreshRecord
      /\ MaxMinted \in Nat /\ MaxTroubles \in Nat
  BY OtpAssumption, SessionsAssumption DEF SessionsTyped, CallRecord, NoRefresh, RefreshRecord
<1>2. ASSUME NEW r \in RefreshRecord, refresh' = [refresh EXCEPT ![c] = r]
      PROVE  refresh' \in [Calls -> RefreshRecord]
  BY <1>2 DEF SessionsTyped
<1>3. [refresh[c] EXCEPT !.step = "no"] \in RefreshRecord
  BY <1>1 DEF RefreshRecord
<1>4. ASSUME RefreshReads(c) PROVE SessionsTyped'
  <2>1. CASE refresh' = [refresh EXCEPT ![c].step = "no"] /\ (UNCHANGED session \/ \E s : Ended(s))
    <3>1. session' \in [Docs -> SessionRecord]
      BY <2>1, EndedType DEF SessionsTyped
    <3> QED
      BY <1>2, <1>3, <1>4, <2>1, <3>1 DEF RefreshReads, SessionsTyped
  <2>2. ASSUME NEW s \in Docs, UNCHANGED session,
               refresh' = [refresh EXCEPT ![c] = [refresh[c] EXCEPT !.step = "rotate", !.doc = s]]
        PROVE  SessionsTyped'
    <3>1. s \in 0 .. MaxSessions
      BY SessionsAssumption DEF Docs
    <3>2. [refresh[c] EXCEPT !.step = "rotate", !.doc = s] \in RefreshRecord
      BY <1>1, <3>1 DEF RefreshRecord
    <3> QED
      BY <1>2, <1>4, <2>2, <3>2 DEF RefreshReads, SessionsTyped
  <2> QED
    BY <1>4, <2>1, <2>2 DEF RefreshReads, Found, ActiveSessions
<1>5. ASSUME RefreshRotates(c) PROVE SessionsTyped'
  <2>1. CASE Rotates(c)
    <3> DEFINE d == refresh[c].doc
    <3>1. /\ minted' = minted + 1 /\ minted < MaxMinted
          /\ session' = [session EXCEPT ![d] = [session[d] EXCEPT !.secret = minted']]
          /\ refresh' = [refresh EXCEPT ![c] = [refresh[c] EXCEPT !.step = "yes", !.n = minted']]
          /\ UNCHANGED << lapsed, disabled, signing, client, jar, call, troubles >>
      BY <1>5, <2>1 DEF RefreshRotates, Mint
    <3>2. minted' \in 0 .. MaxMinted
      BY <1>1, <3>1 DEF SessionsTyped
    <3>3. \A s \in Docs : [session[s] EXCEPT !.secret = minted'] \in SessionRecord
      BY <1>1, <3>2 DEF SessionRecord
    <3>4. [refresh[c] EXCEPT !.step = "yes", !.n = minted'] \in RefreshRecord
      BY <1>1, <3>2 DEF RefreshRecord
    <3> HIDE DEF d
    <3>5. session' \in [Docs -> SessionRecord]
      BY <3>1, <3>3 DEF SessionsTyped
    <3> QED
      BY <1>2, <3>1, <3>2, <3>4, <3>5 DEF SessionsTyped
  <2>2. CASE ~ Rotates(c)
    BY <1>2, <1>3, <1>5, <2>2 DEF RefreshRotates, SessionsTyped
  <2> QED
    BY <2>1, <2>2
<1>6. ASSUME RefreshLost(c) PROVE SessionsTyped'
  <2>1. PICK step \in {"find", "no"} :
          refresh' = [refresh EXCEPT ![c] = [NoRefresh EXCEPT !.step = step, !.n = jar.n, !.lost = TRUE]]
    BY <1>6 DEF RefreshLost
  <2>2. jar.n \in 0 .. MaxMinted
    BY <1>1 DEF Token
  <2>3. [NoRefresh EXCEPT !.step = step, !.n = jar.n, !.lost = TRUE] \in RefreshRecord
    BY <1>1, <2>2 DEF RefreshRecord
  <2>4. troubles' \in 0 .. MaxTroubles
    BY <1>1, <1>6 DEF RefreshLost, Trouble, SessionsTyped
  <2> QED
    BY <1>2, <1>6, <2>1, <2>3, <2>4 DEF RefreshLost, server, SessionsTyped
<1>7. ASSUME RefreshAnswered(c) PROVE SessionsTyped'
  <2>1. refresh' \in [Calls -> RefreshRecord] /\ UNCHANGED << server, signing, troubles >>
    BY <1>1, <1>2, <1>7 DEF RefreshAnswered
  <2>2. CASE ~ Leads(c)
    BY <1>7, <2>1, <2>2 DEF RefreshAnswered, server, SessionsTyped
  <2>3. CASE Leads(c) /\ refresh[c].step = "yes"
    <3> DEFINE n == refresh[c].n
               d == refresh[c].doc
    <3>1. n \in 0 .. MaxMinted /\ d \in 0 .. MaxSessions
      BY <1>1 DEF RefreshRecord
    <3>2. jar' = [jar EXCEPT !.n = n, !.doc = d] /\ UNCHANGED client
      BY <1>7, <2>3 DEF RefreshAnswered
    <3> HIDE DEF n, d
    <3>3. [jar EXCEPT !.n = n, !.doc = d] \in Token
      BY <1>1, <3>1 DEF Token
    <3>4. jar' \in Token
      BY <3>2, <3>3
    <3>5. \A e \in Calls : RetryToken(e) \in Token
      BY <1>1, <3>4 DEF RetryToken
    <3>6. \A e \in Calls : [step |-> "again", token |-> RetryToken(e)] \in CallRecord
      BY <3>5 DEF CallRecord
    <3>7. call' \in [Calls -> CallRecord]
      BY <1>1, <1>7, <2>3, <3>6 DEF RefreshAnswered
    <3> QED
      BY <2>1, <3>2, <3>4, <3>7 DEF server, SessionsTyped
  <2>4. CASE Leads(c) /\ refresh[c].step # "yes"
    <3>1. ForceOut(Tab(c)) /\ UNCHANGED jar
      BY <1>7, <2>4 DEF RefreshAnswered
    <3> QED
      BY <2>1, <3>1, ForcedType DEF server, SessionsTyped
  <2> QED
    BY <2>2, <2>3, <2>4
<1> QED
  BY <1>4, <1>5, <1>6, <1>7

LEMMA SessionsType ==
  ASSUME SessionsTyped, SessionsStep
  PROVE  SessionsTyped'
<1>1. /\ \A s \in Docs : session[s] \in SessionRecord
      /\ MaxMinted \in Nat /\ MaxTroubles \in Nat
  BY SessionsAssumption DEF SessionsTyped
<1>2. Trouble => troubles' \in 0 .. MaxTroubles
  BY <1>1 DEF Trouble, SessionsTyped
<1>3. ASSUME Trouble, UNCHANGED << server, signing, client, jar, call, refresh >>
      PROVE  SessionsTyped'
  BY <1>2, <1>3 DEF server, SessionsTyped
<1>4. ASSUME NEW s \in Docs, LapseSession(s) PROVE SessionsTyped'
  <2>1. [session[s] EXCEPT !.lapsed = TRUE] \in SessionRecord
    BY <1>1 DEF SessionRecord
  <2> QED
    BY <1>2, <1>4, <2>1 DEF LapseSession, SessionsTyped
<1>5. ASSUME NEW s \in Docs, DeleteSession(s) PROVE SessionsTyped'
  <2>1. [session[s] EXCEPT !.state = "gone"] \in SessionRecord
    BY <1>1 DEF SessionRecord
  <2> QED
    BY <1>2, <1>5, <2>1 DEF DeleteSession, SessionsTyped
<1>6. ASSUME Logout PROVE SessionsTyped'
  <2>1. session' \in [Docs -> SessionRecord]
    BY <1>6, EndedType DEF Logout, SessionsTyped
  <2> QED
    BY <1>6, <2>1 DEF Logout, SessionsTyped
<1>7. ASSUME LapseTokens PROVE SessionsTyped'
  BY <1>1, <1>7 DEF LapseTokens, browser, SessionsTyped
<1>8. ASSUME DisableUser PROVE SessionsTyped'
  BY <1>2, <1>8 DEF DisableUser, SessionsTyped
<1>9. ASSUME Session PROVE SessionsTyped'
  BY <1>4, <1>5, <1>6, <1>7, <1>8, <1>9, SigningType, CallsType, RefreshType DEF Session
<1> QED
  BY <1>3, <1>9, FindType DEF SessionsStep

(* ---- a code signs in once ---------------------------------------------------- *)

\* The sign-in g holds the code k: it verified it, or is making a session with it.
Spends(g, k) == (guess[g].step = "accepted" /\ guess[g].code = k) \/ signing[g].login = k

\* A code that is held or that gave the browser its session is consumed, and
\* one sign-in at most holds it.
UsesOK ==
  /\ \A g \in Guesses, k \in Challenges : Spends(g, k) =>
       /\ challenge[k].status = "consumed"
       /\ jar.login # k
       /\ \A h \in Guesses : h # g => ~ Spends(h, k)
  /\ \A g \in Guesses : signing[g].login # 0 => guess[g].step = "idle" /\ signing[g].step # "idle"
  /\ \A k \in Challenges : jar.login = k => challenge[k].status = "consumed"

LEMMA UsesInit == Init => UsesOK
<1> SUFFICES ASSUME Init PROVE UsesOK
  OBVIOUS
<1>1. /\ \A g \in Guesses : guess[g].step = "idle" /\ signing[g].login = 0
      /\ jar.login = 0
  BY SignInAssumption DEF Init, InitOtp, InitSessions, NoGuess, NoSignIn, NoToken
<1>2. 0 \notin Challenges
  BY DEF Challenges
<1> QED
  BY <1>1, <1>2 DEF UsesOK, Spends

\* What a step of the sessions does to a sign-in, and which one it completes.
Continues(g) ==
  \/ signing'[g].login = signing[g].login /\ (signing'[g].step = "idle" <=> signing[g].step = "idle")
  \/ signing'[g].login = 0

Completes(g) ==
  /\ jar'.login = signing[g].login
  /\ signing'[g].login = 0
  /\ \A h \in SignIns \ {g} : signing'[h] = signing[h]

LEMMA SigningMoves ==
  ASSUME SessionsTyped, Session
  PROVE  \/ jar'.login = jar.login /\ \A g \in SignIns : Continues(g)
         \/ \E g \in SignIns : Completes(g)
<1>1. \A g \in SignIns : signing[g] \in SigningRecord
  BY DEF SessionsTyped
<1>2. NoSignIn.login = 0
  BY DEF NoSignIn
<1>3. ASSUME NEW g \in SignIns, SignedIn(g)
      PROVE  Completes(g)
  BY <1>2, <1>3 DEF SignedIn, Completes, SessionsTyped
<1>4. ASSUME jar' = jar, signing' = signing
      PROVE  jar'.login = jar.login /\ \A g \in SignIns : Continues(g)
  BY <1>4 DEF Continues
<1>5. ASSUME NEW g \in SignIns, jar' = jar, signing' = [signing EXCEPT ![g] = NoSignIn]
      PROVE  jar'.login = jar.login /\ \A h \in SignIns : Continues(h)
  BY <1>2, <1>5 DEF Continues, SessionsTyped
<1>6. ASSUME NEW g \in SignIns, SaveSession(g)
      PROVE  jar'.login = jar.login /\ \A h \in SignIns : Continues(h)
  <2>1. CASE session[signing[g].doc].state = "gone"
    BY <1>5, <1>6, <2>1 DEF SaveSession, browser
  <2>2. CASE session[signing[g].doc].state # "gone"
    <3>1. /\ signing' = [signing EXCEPT ![g] = [signing[g] EXCEPT !.step = "answer", !.n = minted']]
          /\ signing[g].step = "save" /\ jar' = jar
      BY <1>6, <2>2 DEF SaveSession, browser
    <3>2. ASSUME NEW n
          PROVE  /\ [signing[g] EXCEPT !.step = "answer", !.n = n].login = signing[g].login
                 /\ [signing[g] EXCEPT !.step = "answer", !.n = n].step = "answer"
      BY <1>1 DEF SigningRecord
    <3> QED
      BY <3>1, <3>2 DEF Continues, SessionsTyped
  <2> QED
    BY <2>1, <2>2
<1>7. ASSUME NEW g \in SignIns, AnswerLost(g)
      PROVE  jar'.login = jar.login /\ \A h \in SignIns : Continues(h)
  BY <1>5, <1>7 DEF AnswerLost
<1>8. ASSUME NEW c \in Calls, RefreshAnswered(c)
      PROVE  jar'.login = jar.login /\ \A g \in SignIns : Continues(g)
  <2> DEFINE n == refresh[c].n
             d == refresh[c].doc
  <2>1. jar' = jar \/ jar' = [jar EXCEPT !.n = n, !.doc = d]
    BY <1>8 DEF RefreshAnswered
  <2> HIDE DEF n, d
  <2>2. [jar EXCEPT !.n = n, !.doc = d].login = jar.login
    BY DEF SessionsTyped, Token
  <2>3. jar'.login = jar.login
    BY <2>1, <2>2
  <2> QED
    BY <1>8, <2>3 DEF RefreshAnswered, Continues
<1>9. ASSUME NEW c \in Calls, Send(c) \/ Answered(c) \/ AskRefresh(c) \/ RefreshReads(c)
                                      \/ RefreshRotates(c) \/ RefreshLost(c) \/ AnsweredAgain(c)
      PROVE  jar' = jar /\ signing' = signing
  BY <1>9 DEF Send, Answered, AskRefresh, RefreshReads, RefreshRotates, RefreshLost, AnsweredAgain
<1>10. ASSUME (\E s \in Docs : LapseSession(s) \/ DeleteSession(s)) \/ Logout \/ LapseTokens \/ DisableUser
       PROVE  jar' = jar /\ signing' = signing
  BY <1>10 DEF LapseSession, DeleteSession, Logout, LapseTokens, DisableUser, browser
<1> QED
  BY <1>3, <1>4, <1>6, <1>7, <1>8, <1>9, <1>10 DEF Session

\* A code that the sign-ins and the browser hold as before stays where it is.
LEMMA UsesHeld ==
  ASSUME UsesOK,
         \A k \in Challenges : challenge[k].status = "consumed" => challenge'[k].status = "consumed",
         \A g \in Guesses, k \in Challenges : Spends(g, k)' => Spends(g, k),
         jar'.login = jar.login,
         \A g \in Guesses : signing'[g].login # 0 => guess'[g].step = "idle" /\ signing'[g].step # "idle"
  PROVE  UsesOK'
BY DEF UsesOK

LEMMA UsesCodes ==
  ASSUME CodesTyped, CodesOK, UsesOK, CodesStep, UNCHANGED sessions,
         \A g \in Guesses : guess'[g].step # "idle" /\ guess[g].step = "idle" => signing[g].step = "idle"
  PROVE  UsesOK'
<1>1. /\ \A k \in Challenges : challenge[k].status = "consumed" => challenge'[k].status = "consumed"
      /\ \/ \E g \in Guesses : Accepting(g)
         \/ \A g \in Guesses : guess'[g].step = "accepted" => guess'[g] = guess[g]
  BY CodesKept
<1>2. signing' = signing /\ jar' = jar
  BY DEF sessions
<1>3. \A g \in Guesses : signing'[g].login # 0 => guess'[g].step = "idle" /\ signing'[g].step # "idle"
  BY <1>2 DEF UsesOK
<1>4. CASE \A g \in Guesses : guess'[g].step = "accepted" => guess'[g] = guess[g]
  <2>1. \A g \in Guesses, k \in Challenges : Spends(g, k)' => Spends(g, k)
    BY <1>2, <1>4 DEF Spends
  <2> QED
    BY <1>1, <1>2, <1>3, <2>1, UsesHeld
<1>5. ASSUME NEW g \in Guesses, Accepting(g) PROVE UsesOK'
  <2> DEFINE l == guess[g].code
  <2>1. \A h \in Guesses, k \in Challenges : Spends(h, k)' => Spends(h, k) \/ (h = g /\ k = l)
    BY <1>2, <1>5 DEF Spends, Accepting
  <2>2. challenge[l].status = "active" /\ challenge'[l].status = "consumed"
    BY <1>5 DEF Accepting
  <2> HIDE DEF l
  <2>3. l \in Challenges => jar.login # l /\ \A h \in Guesses : ~ Spends(h, l)
    BY <2>2 DEF UsesOK
  <2> QED
    BY <1>1, <1>2, <1>3, <2>1, <2>2, <2>3 DEF UsesOK
<1> QED
  BY <1>1, <1>4, <1>5

LEMMA UsesOpened ==
  ASSUME CodesTyped, SessionsTyped, CodesOK, UsesOK, NEW g \in Guesses, Opened(g)
  PROVE  UsesOK'
<1> USE SignInAssumption
<1> DEFINE k == guess[g].code
<1>1. /\ guess[g].step = "accepted"
      /\ guess' = [guess EXCEPT ![g] = NoGuess]
      /\ challenge' = challenge /\ jar' = jar
  BY DEF Opened, EndGuess, FindSession, browser
<1>2. PICK s \in Docs : signing' = [signing EXCEPT ![g] = [step |-> "save", doc |-> s, login |-> k, n |-> 0]]
  BY DEF Opened, FindSession
<1>3. signing'[g].login = k /\ signing'[g].step = "save" /\ \A h \in Guesses \ {g} : signing'[h] = signing[h]
  BY <1>2 DEF SessionsTyped
<1>4. guess'[g].step = "idle" /\ \A h \in Guesses \ {g} : guess'[h] = guess[h]
  BY <1>1 DEF CodesTyped, NoGuess
<1>5. \A h \in Guesses, l \in Challenges : Spends(h, l)' => Spends(h, l)
  BY <1>1, <1>3, <1>4 DEF Spends
<1>6. \A h \in Guesses : signing'[h].login # 0 => guess'[h].step = "idle" /\ signing'[h].step # "idle"
  BY <1>3, <1>4 DEF UsesOK
<1> QED
  BY <1>1, <1>5, <1>6, UsesHeld

LEMMA UsesSessions ==
  ASSUME SessionsTyped, UsesOK, Session, UNCHANGED otp
  PROVE  UsesOK'
<1> USE SignInAssumption
<1>1. guess' = guess /\ challenge' = challenge
  BY DEF otp
<1>2. 0 \notin Challenges
  BY DEF Challenges
<1>3. CASE jar'.login = jar.login /\ \A g \in SignIns : Continues(g)
  <2>1. \A g \in Guesses, k \in Challenges : Spends(g, k)' => Spends(g, k)
    BY <1>1, <1>2, <1>3 DEF Spends, Continues
  <2>2. \A g \in Guesses : signing'[g].login # 0 => guess'[g].step = "idle" /\ signing'[g].step # "idle"
    BY <1>1, <1>3 DEF Continues, UsesOK
  <2> QED
    BY <1>1, <1>3, <2>1, <2>2, UsesHeld
<1>4. ASSUME NEW g \in SignIns, Completes(g) PROVE UsesOK'
  <2> DEFINE k == signing[g].login
  <2>1. jar'.login = k /\ signing'[g].login = 0 /\ \A h \in Guesses \ {g} : signing'[h] = signing[h]
    BY <1>4 DEF Completes
  <2>2. k \in Challenges => /\ challenge[k].status = "consumed" /\ guess[g].step = "idle"
                            /\ \A h \in Guesses : h # g => ~ Spends(h, k)
    BY <1>2 DEF UsesOK, Spends
  <2>3. \A h \in Guesses, l \in Challenges : Spends(h, l)' => Spends(h, l) /\ (l = k => h # g)
    BY <1>1, <1>2, <2>1, <2>2 DEF Spends
  <2>4. \A h \in Guesses : signing'[h].login # 0 => guess'[h].step = "idle" /\ signing'[h].step # "idle"
    BY <1>1, <2>1 DEF UsesOK
  <2> HIDE DEF k
  <2> QED
    BY <1>1, <2>1, <2>2, <2>3, <2>4 DEF UsesOK
<1> QED
  BY <1>3, <1>4, SigningMoves

LEMMA UsesKept ==
  ASSUME CodesTyped, SessionsTyped, CodesOK, UsesOK, [Next]_vars
  PROVE  UsesOK'
<1> USE SignInAssumption
<1>1. ASSUME NEW i \in Issues, Issue(i) PROVE UsesOK'
  <2>1. guess' = guess
    BY <1>1 DEF Issue, StartIssue
  <2>2. CodesStep /\ UNCHANGED sessions
    BY <1>1 DEF Issue, CodesStep
  <2> QED
    BY <2>1, <2>2, UsesCodes
<1>2. ASSUME NEW g \in Guesses, Verify(g) PROVE UsesOK'
  <2>1. \A h \in Guesses : h # g => guess'[h] = guess[h]
    BY <1>2 DEF Verify, StartGuess, CodesTyped
  <2>2. CodesStep /\ UNCHANGED sessions /\ signing[g].step = "idle"
    BY <1>2 DEF Verify, CodesStep
  <2> QED
    BY <2>1, <2>2, UsesCodes
<1>3. ASSUME NEW g \in Guesses, Refused(g) PROVE UsesOK'
  <2>1. \A h \in Guesses : guess'[h].step # "idle" => guess'[h] = guess[h]
    BY <1>3 DEF Refused, EndGuess, CodesTyped, NoGuess
  <2>2. CodesStep /\ UNCHANGED sessions
    BY <1>3 DEF Refused, CodesStep
  <2> QED
    BY <2>1, <2>2, UsesCodes
<1>4. ASSUME Code, UNCHANGED sessions PROVE UsesOK'
  <2>1. ASSUME NEW g \in Guesses, guess[g].step = "idle" PROVE guess'[g] = guess[g]
    BY <1>4, <2>1 DEF Code, ClearActive, Create, CountGuess, Close, ClaimCode, CodesTyped
  <2>2. CodesStep
    BY <1>4 DEF Code, CodesStep
  <2> QED
    BY <1>4, <2>1, <2>2, UsesCodes
<1>5. ASSUME CodeLapses PROVE UsesOK'
  <2>1. PICK k \in Challenges : LapseCode(k) /\ signing' = signing /\ jar' = jar
    BY <1>5 DEF CodeLapses
  <2>2. [challenge[k] EXCEPT !.lapsed = TRUE].status = challenge[k].status
    BY DEF CodesTyped, CodeRecord
  <2>3. \A l \in Challenges : challenge'[l].status = challenge[l].status
    BY <2>1, <2>2 DEF LapseCode, CodesTyped
  <2>4. guess' = guess
    BY <2>1 DEF LapseCode
  <2>5. \A g \in Guesses, l \in Challenges : Spends(g, l)' => Spends(g, l)
    BY <2>1, <2>4 DEF Spends
  <2>6. \A g \in Guesses : signing'[g].login # 0 => guess'[g].step = "idle" /\ signing'[g].step # "idle"
    BY <2>1, <2>4 DEF UsesOK
  <2> QED
    BY <2>1, <2>3, <2>5, <2>6, UsesHeld
<1>6. ASSUME UNCHANGED vars PROVE UsesOK'
  BY <1>6 DEF vars, otp, sessions, UsesOK, Spends
<1> QED
  BY <1>1, <1>2, <1>3, <1>4, <1>5, <1>6, UsesOpened, UsesSessions DEF Next

(* ---- what holds of every behaviour -------------------------------------------- *)

SignInInv == TypeOK /\ CodesOK /\ UsesOK

\* Whatever calls issue and verify codes and make, use, refresh and end
\* sessions, a code that is held is consumed and held once.
THEOREM SignInInvariant == Spec => []SignInInv
<1>1. Init => SignInInv
  BY CodesInitType, SessionsInitType, CodesInit, UsesInit, TypesOfBoth DEF Init, SignInInv
<1>2. ASSUME SignInInv, [Next]_vars PROVE SignInInv'
  <2>1. CodesTyped /\ SessionsTyped /\ CodesOK /\ UsesOK
    BY <1>2, TypesOfBoth DEF SignInInv
  <2>2. CodesTyped' /\ CodesOK'
    <3>1. CASE CodesStep
      BY <2>1, <3>1, CodesType, CodesKept
    <3>2. CASE UNCHANGED otp
      BY <2>1, <3>2 DEF otp, CodesTyped, CodesOK
    <3> QED
      BY <1>2, <2>1, <3>1, <3>2, Parts
  <2>3. SessionsTyped'
    <3>1. CASE SessionsStep
      BY <2>1, <3>1, SessionsType
    <3>2. CASE UNCHANGED sessions
      BY <2>1, <3>2 DEF sessions, SessionsTyped
    <3> QED
      BY <1>2, <2>1, <3>1, <3>2, Parts
  <2>4. UsesOK'
    BY <1>2, <2>1, UsesKept
  <2>5. TypeOK' <=> CodesTyped' /\ SessionsTyped'
    BY TypesOfBoth, PTL
  <2> QED
    BY <2>2, <2>3, <2>4, <2>5 DEF SignInInv
<1> QED
  BY <1>1, <1>2, PTL DEF Spec

\* Guesses at a code stay within the limit, and no call of the user or of the
\* page writes anything else than what the documents hold.
THEOREM SignInTypes == Spec => []TypeOK
<1>1. SignInInv => TypeOK
  BY DEF SignInInv
<1> QED
  BY <1>1, SignInInvariant, PTL

\* However many calls carry a code, one is accepted and one session is opened
\* with it; however many calls issue codes, one is active.
THEOREM CodesSpentOnceAlways == Spec => []CodesSpentOnce
<1>1. ASSUME SignInInv PROVE CodesSpentOnce
  <2>1. \A k \in Challenges : accepted[k] <= 1
    BY <1>1 DEF SignInInv, CodesOK
  <2>2. ASSUME NEW g \in SignIns, NEW h \in SignIns, g # h, signing[g].login # 0
        PROVE  signing[g].login # signing[h].login
    <3>1. signing[g].login \in 0 .. MaxChallenges
      BY <1>1 DEF SignInInv, TypeOK
    <3>2. signing[g].login \in Challenges
      BY <2>2, <3>1, OtpAssumption DEF Challenges
    <3> QED
      BY <1>1, <2>2, <3>2, SignInAssumption DEF SignInInv, UsesOK, Spends
  <2>3. Cardinality(Active) <= 1
    <3>1. CASE Active = {}
      BY <3>1, FS_EmptySet
    <3>2. ASSUME NEW k \in Active PROVE Cardinality(Active) <= 1
      <4>1. Active = {k}
        BY <1>1 DEF SignInInv, CodesOK, Active
      <4>2. Cardinality({k}) = 1
        BY FS_Singleton
      <4> QED
        BY <4>1, <4>2
    <3> QED
      BY <3>1, <3>2
  <2> QED
    BY <2>1, <2>2, <2>3 DEF CodesSpentOnce
<1> QED
  BY <1>1, SignInInvariant, PTL

(* ---- one page and its cookies -------------------------------------------------- *)

\* The browser has one tab open and keeps its tokens in cookies.  With two tabs, or
\* with tokens in headers, the browser is forced out of sessions that are valid.
OnePage == Transport = "cookie" /\ \A t, u \in Tabs : t = u

\* No token carries a number that was not minted.
NumbersOK ==
  /\ lapsed <= minted
  /\ jar.n <= minted
  /\ \A s \in Docs : session[s].secret <= minted
  /\ \A g \in SignIns : signing[g].n <= minted
  /\ \A c \in Calls : refresh[c].n <= minted

\* No other session than doc has the refresh token n.
Owns(n, doc) == \A s \in Docs : session[s].secret = n => s = doc

\* A browser that is in, or whose calls are not over, holds the tokens of a session.
JarOK ==
  /\ client = "in" => jar.n > 0
  /\ \A c \in Calls : call[c].step # "idle" => jar.n > 0
  /\ jar.n > 0 => jar.doc \in Docs /\ session[jar.doc].state # "none" /\ Owns(jar.n, jar.doc)

\* An answer carries a token of its own, which its session has unless somebody
\* else signed in on it.
AnswerOK(g) ==
  /\ signing[g].n > 0 /\ signing[g].n # jar.n
  /\ Owns(signing[g].n, signing[g].doc)
  /\ \A h \in SignIns \ {g} : signing[h].step = "answer" => signing[h].n # signing[g].n
  /\ \A c \in Calls : refresh[c].step = "yes" => refresh[c].n # signing[g].n
  /\ session[signing[g].doc].state = "active" /\ session[signing[g].doc].login = signing[g].login
       => session[signing[g].doc].secret = signing[g].n

SigningOK(g) ==
  /\ signing[g].step # "idle" =>
       signing[g].doc \in Docs /\ session[signing[g].doc].state # "none" /\ signing[g].login \in Challenges
  /\ signing[g].step = "answer" => AnswerOK(g)

\* The page leads one refresh at a time.
LeadsOK ==
  /\ \A c \in Calls : Leads(c) <=> refresh[c].step # "none"
  /\ \A c, d \in Calls : Leads(c) /\ Leads(d) => c = d
  /\ \A c \in Calls : call[c].step = "again" => call[c].token.n > lapsed

\* While its session is held, a refresh that was not lost carries the token the
\* session has, and brings back the one it gets.
RefreshOK(c) ==
  /\ refresh[c].step \in {"find", "rotate"} => refresh[c].n = jar.n
  /\ refresh[c].step \in {"rotate", "yes"} => refresh[c].doc = jar.doc
  /\ refresh[c].step = "yes" => refresh[c].n > lapsed /\ Owns(refresh[c].n, refresh[c].doc)
  /\ client = "in" /\ HeldSession =>
       /\ refresh[c].step \in {"find", "rotate"} /\ ~ refresh[c].lost => session[jar.doc].secret = jar.n
       /\ refresh[c].step = "yes" => session[jar.doc].secret = refresh[c].n
       /\ refresh[c].step = "no" => refresh[c].lost

RestOK == client = "in" /\ HeldSession /\ (\A c \in Calls : ~ Leads(c)) => session[jar.doc].secret = jar.n

BrowserOK == /\ NumbersOK /\ JarOK /\ LeadsOK /\ RestOK
             /\ \A g \in SignIns : SigningOK(g)
             /\ \A c \in Calls : RefreshOK(c)

LEMMA NumbersTyped ==
  SessionsTyped =>
    /\ minted \in Nat /\ lapsed \in Nat /\ jar.n \in Nat
    /\ \A s \in Docs : session[s].secret \in Nat
    /\ \A g \in SignIns : signing[g].n \in Nat
    /\ \A c \in Calls : refresh[c].n \in Nat /\ call[c].token.n \in Nat
<1> SUFFICES ASSUME SessionsTyped
             PROVE  /\ minted \in Nat /\ lapsed \in Nat /\ jar.n \in Nat
                    /\ \A s \in Docs : session[s].secret \in Nat
                    /\ \A g \in SignIns : signing[g].n \in Nat
                    /\ \A c \in Calls : refresh[c].n \in Nat /\ call[c].token.n \in Nat
  OBVIOUS
<1>1. \A n \in 0 .. MaxMinted : n \in Nat
  BY SessionsAssumption
<1>2. minted \in Nat /\ lapsed \in Nat
  BY <1>1 DEF SessionsTyped
<1>3. jar.n \in 0 .. MaxMinted
  BY DEF SessionsTyped, Token
<1>4. \A s \in Docs : session[s].secret \in 0 .. MaxMinted
  BY DEF SessionsTyped, SessionRecord
<1>5. \A g \in SignIns : signing[g].n \in 0 .. MaxMinted
  BY DEF SessionsTyped, SigningRecord
<1>6. \A c \in Calls : refresh[c].n \in 0 .. MaxMinted
  BY DEF SessionsTyped, RefreshRecord
<1>7. \A c \in Calls : call[c].token \in Token
  BY DEF SessionsTyped, CallRecord
<1>8. \A c \in Calls : call[c].token.n \in 0 .. MaxMinted
  BY <1>7 DEF Token
<1> QED
  BY <1>1, <1>2, <1>3, <1>4, <1>5, <1>6, <1>8

LEMMA BrowserInit == InitSessions => BrowserOK
<1> SUFFICES ASSUME InitSessions PROVE BrowserOK
  OBVIOUS
<1>1. /\ minted = 0 /\ lapsed = 0 /\ jar.n = 0 /\ client = "out"
      /\ \A s \in Docs : session[s].secret = 0
      /\ \A g \in SignIns : signing[g].step = "idle" /\ signing[g].n = 0
      /\ \A c \in Calls : refresh[c].step = "none" /\ refresh[c].n = 0 /\ call[c].step = "idle"
  BY DEF InitSessions, NoToken, NoSignIn, NoCall, NoRefresh
<1> QED
  BY <1>1 DEF BrowserOK, NumbersOK, JarOK, LeadsOK, Leads, RestOK, SigningOK, RefreshOK

\* A session that ends, lapses or is deleted, or stays as it is.
Wanes(s) ==
  /\ session'[s].secret = session[s].secret /\ session'[s].login = session[s].login
  /\ session'[s].state = "active" => session[s].state = "active"
  /\ session'[s].state = "none" <=> session[s].state = "none"

LEMMA WanesHeld ==
  ASSUME \A s \in Docs : Wanes(s), jar' = jar
  PROVE  /\ HeldSession' => HeldSession
         /\ \A n, doc : Owns(n, doc) => Owns(n, doc)'
BY DEF Wanes, HeldSession, ActiveSessions, Owns

\* The documents a step of the sessions leaves, whatever it ends.
LEMMA EndedWanes ==
  ASSUME SessionsTyped, NEW d, session[d].state = "active", Ended(d)
  PROVE  \A s \in Docs : Wanes(s)
<1>1. \A s \in Docs : /\ [session[s] EXCEPT !.state = "ended"].secret = session[s].secret
                      /\ [session[s] EXCEPT !.state = "ended"].login = session[s].login
                      /\ [session[s] EXCEPT !.state = "ended"].state = "ended"
  BY DEF SessionsTyped, SessionRecord
<1> QED
  BY <1>1 DEF Ended, Wanes, SessionsTyped

\* A step that ends sessions or takes calls on, and leaves tokens and refreshes alone.
Quiet ==
  /\ minted' = minted /\ lapsed' = lapsed /\ jar' = jar /\ signing' = signing /\ refresh' = refresh
  /\ \A s \in Docs : Wanes(s)
  /\ client' = client \/ client' # "in"
  /\ \A c \in Calls : /\ Leads(c)' <=> Leads(c)
                      /\ call'[c].step = "again" => call'[c] = call[c]
                      /\ call'[c].step # "idle" => call[c].step # "idle" \/ client = "in"

LEMMA QuietKept ==
  ASSUME SessionsTyped, BrowserOK, Quiet
  PROVE  BrowserOK'
<1>1. /\ minted' = minted /\ lapsed' = lapsed /\ jar' = jar /\ signing' = signing /\ refresh' = refresh
      /\ \A s \in Docs : Wanes(s)
      /\ client' = "in" => client = "in"
      /\ HeldSession' => HeldSession
      /\ \A n, doc : Owns(n, doc) => Owns(n, doc)'
  BY WanesHeld DEF Quiet
<1>2. NumbersOK'
  BY <1>1 DEF BrowserOK, NumbersOK, Wanes
<1>3. JarOK'
  <2>1. \A c \in Calls : call'[c].step # "idle" => call[c].step # "idle" \/ client = "in"
    BY DEF Quiet
  <2> QED
    BY <1>1, <2>1 DEF BrowserOK, JarOK, Wanes
<1>4. LeadsOK'
  <2>1. \A c \in Calls : /\ Leads(c)' <=> Leads(c)
                         /\ call'[c].step = "again" => call'[c] = call[c]
    BY DEF Quiet
  <2> QED
    BY <1>1, <2>1 DEF BrowserOK, LeadsOK
<1>5. RestOK'
  <2>1. \A c \in Calls : Leads(c)' <=> Leads(c)
    BY DEF Quiet
  <2>2. HeldSession' => session'[jar.doc].secret = session[jar.doc].secret
    BY <1>1 DEF HeldSession, ActiveSessions, Wanes
  <2> QED
    BY <1>1, <2>1, <2>2 DEF BrowserOK, RestOK
<1>6. ASSUME NEW g \in SignIns PROVE SigningOK(g)'
  <2>1. SigningOK(g)
    BY DEF BrowserOK
  <2>2. signing[g].step = "answer" => signing[g].doc \in Docs /\ AnswerOK(g)
    BY <2>1 DEF SigningOK
  <2>3. signing[g].step = "answer" => AnswerOK(g)'
    BY <1>1, <2>2 DEF AnswerOK, Wanes
  <2> QED
    BY <1>1, <2>1, <2>3 DEF SigningOK, Wanes
<1>7. ASSUME NEW c \in Calls PROVE RefreshOK(c)'
  <2>1. RefreshOK(c)
    BY DEF BrowserOK
  <2>2. HeldSession' => session'[jar.doc].secret = session[jar.doc].secret
    BY <1>1 DEF HeldSession, ActiveSessions, Wanes
  <2> QED
    BY <1>1, <2>1, <2>2 DEF RefreshOK
<1> QED
  BY <1>2, <1>3, <1>4, <1>5, <1>6, <1>7 DEF BrowserOK

\* A session comes up: the browser has none of that number.
LEMMA FindKept ==
  ASSUME SessionsTyped, BrowserOK, NEW g \in SignIns, NEW login \in Challenges, FindSession(g, login)
  PROVE  BrowserOK'
<1>1. PICK s \in Docs :
        /\ \/ session' = session /\ session[s].state = "active"
           \/ session[s].state = "none" /\ session' = [session EXCEPT ![s] = [session[s] EXCEPT !.state = "active"]]
        /\ signing' = [signing EXCEPT ![g] = [step |-> "save", doc |-> s, login |-> login, n |-> 0]]
  BY DEF FindSession, ActiveSessions
<1>2. UNCHANGED << minted, lapsed, client, jar, call, refresh >>
  BY DEF FindSession, browser
<1>3. /\ [session[s] EXCEPT !.state = "active"].secret = session[s].secret
      /\ [session[s] EXCEPT !.state = "active"].login = session[s].login
      /\ [session[s] EXCEPT !.state = "active"].state = "active"
  BY DEF SessionsTyped, SessionRecord
<1>4. /\ \A r \in Docs : session'[r].secret = session[r].secret /\ session'[r].login = session[r].login
      /\ \A r \in Docs : session[r].state # "none" => session'[r].state = session[r].state
      /\ session'[s].state = "active"
  BY <1>1, <1>3 DEF SessionsTyped
<1>5. /\ signing'[g].step = "save" /\ signing'[g].doc = s /\ signing'[g].login = login /\ signing'[g].n = 0
      /\ \A h \in SignIns \ {g} : signing'[h] = signing[h]
  BY <1>1 DEF SessionsTyped
<1>6. \A n, doc : Owns(n, doc) => Owns(n, doc)'
  BY <1>4 DEF Owns
<1>7. jar.n > 0 => (HeldSession' => HeldSession)
  BY <1>2, <1>4 DEF BrowserOK, JarOK, HeldSession, ActiveSessions
<1>8. client = "in" => jar.n > 0 /\ jar.doc \in Docs
  BY DEF BrowserOK, JarOK
<1>9. NumbersOK'
  <2>1. NumbersOK /\ minted >= 0
    BY NumbersTyped DEF BrowserOK
  <2>2. \A h \in SignIns : signing'[h].n <= minted
    BY <1>5, <2>1 DEF NumbersOK
  <2> QED
    BY <1>2, <1>4, <2>1, <2>2 DEF NumbersOK
<1>10. JarOK'
  BY <1>2, <1>4, <1>6 DEF BrowserOK, JarOK
<1>11. LeadsOK'
  BY <1>2 DEF BrowserOK, LeadsOK, Leads
<1>12. RestOK'
  BY <1>2, <1>4, <1>7, <1>8 DEF BrowserOK, RestOK, Leads
<1>13. ASSUME NEW h \in SignIns PROVE SigningOK(h)'
  <2>1. CASE h = g
    BY <1>4, <1>5, <2>1 DEF SigningOK
  <2>2. CASE h # g
    <3>1. SigningOK(h) /\ signing'[h] = signing[h]
      BY <1>5, <2>2 DEF BrowserOK
    <3>2. signing[h].step # "idle" => signing[h].doc \in Docs /\ session[signing[h].doc].state # "none"
      BY <3>1 DEF SigningOK
    <3>3. signing[h].step = "answer" => AnswerOK(h)
      BY <3>1 DEF SigningOK
    <3>4. \A k \in SignIns : signing'[k].step = "answer" => signing'[k] = signing[k]
      BY <1>5
    <3>5. signing[h].step = "answer" => AnswerOK(h)'
      BY <1>2, <1>4, <1>6, <3>1, <3>2, <3>3, <3>4 DEF AnswerOK
    <3> QED
      BY <1>4, <3>1, <3>2, <3>5 DEF SigningOK
  <2> QED
    BY <2>1, <2>2
<1>14. ASSUME NEW c \in Calls PROVE RefreshOK(c)'
  <2>1. RefreshOK(c)
    BY DEF BrowserOK
  <2> QED
    BY <1>2, <1>4, <1>6, <1>7, <1>8, <2>1 DEF RefreshOK
<1> QED
  BY <1>9, <1>10, <1>11, <1>12, <1>13, <1>14 DEF BrowserOK

LEMMA SaveKept ==
  ASSUME SessionsTyped, BrowserOK, UsesOK, NEW g \in SignIns, SaveSession(g)
  PROVE  BrowserOK'
<1> USE SignInAssumption
<1> DEFINE s == signing[g].doc
           k == signing[g].login
<1>1. UNCHANGED << lapsed, client, jar, call, refresh >>
  BY DEF SaveSession, browser
<1>2. /\ s \in Docs /\ session[s].state # "none" /\ k \in Challenges
      /\ jar.login # k
      /\ \A h \in SignIns : h # g => signing[h].login # k
  BY DEF BrowserOK, SigningOK, SaveSession, UsesOK, Spends
<1>3. CASE session[s].state = "gone"
  <2>1. session' = session /\ minted' = minted /\ signing' = [signing EXCEPT ![g] = NoSignIn]
    BY <1>3 DEF SaveSession
  <2>2. signing'[g].step = "idle" /\ signing'[g].n = 0 /\ \A h \in SignIns \ {g} : signing'[h] = signing[h]
    BY <2>1 DEF SessionsTyped, NoSignIn
  <2>3. NumbersOK'
    <3>1. NumbersOK /\ minted >= 0
      BY NumbersTyped DEF BrowserOK
    <3> QED
      BY <1>1, <2>1, <2>2, <3>1 DEF NumbersOK
  <2>4. JarOK' /\ LeadsOK' /\ RestOK' /\ \A c \in Calls : RefreshOK(c)'
    BY <1>1, <2>1 DEF BrowserOK, JarOK, LeadsOK, RestOK, RefreshOK, Leads, HeldSession, ActiveSessions, Owns
  <2>5. ASSUME NEW h \in SignIns PROVE SigningOK(h)'
    BY <1>1, <2>1, <2>2 DEF BrowserOK, SigningOK, AnswerOK, Owns
  <2> QED
    BY <2>3, <2>4, <2>5 DEF BrowserOK
<1>4. CASE session[s].state # "gone"
  <2>1. /\ minted' = minted + 1
        /\ session' = [session EXCEPT ![s] = [session[s] EXCEPT !.secret = minted', !.lapsed = FALSE, !.login = k]]
        /\ signing' = [signing EXCEPT ![g] = [signing[g] EXCEPT !.step = "answer", !.n = minted']]
    BY <1>4 DEF SaveSession, Mint
  <2>2. ASSUME NEW n
        PROVE  /\ [signing[g] EXCEPT !.step = "answer", !.n = n].step = "answer"
               /\ [signing[g] EXCEPT !.step = "answer", !.n = n].n = n
               /\ [signing[g] EXCEPT !.step = "answer", !.n = n].doc = s
               /\ [signing[g] EXCEPT !.step = "answer", !.n = n].login = k
    BY DEF SessionsTyped, SigningRecord
  <2>3. /\ signing'[g].step = "answer" /\ signing'[g].n = minted'
        /\ signing'[g].doc = s /\ signing'[g].login = k
        /\ \A h \in SignIns \ {g} : signing'[h] = signing[h]
    BY <2>1, <2>2 DEF SessionsTyped
  <2> HIDE DEF s, k
  <2>4. ASSUME NEW n
        PROVE  /\ [session[s] EXCEPT !.secret = n, !.lapsed = FALSE, !.login = k].secret = n
               /\ [session[s] EXCEPT !.secret = n, !.lapsed = FALSE, !.login = k].login = k
               /\ [session[s] EXCEPT !.secret = n, !.lapsed = FALSE, !.login = k].state = session[s].state
    BY <1>2 DEF SessionsTyped, SessionRecord
  <2>5. /\ session'[s].secret = minted' /\ session'[s].login = k /\ session'[s].state = session[s].state
        /\ \A r \in Docs \ {s} : session'[r] = session[r]
    BY <1>2, <2>1, <2>4 DEF SessionsTyped
  <2>6. /\ NumbersOK /\ minted \in Nat /\ jar.n \in Nat /\ lapsed \in Nat
        /\ \A r \in Docs : session[r].secret \in Nat
        /\ \A h \in SignIns : signing[h].n \in Nat
        /\ \A c \in Calls : refresh[c].n \in Nat
    BY NumbersTyped DEF BrowserOK
  <2>7. \A r \in Docs : session'[r].secret = minted' => r = s
    BY <2>1, <2>5, <2>6 DEF NumbersOK
  <2>8. ASSUME NEW n \in Nat, n <= minted, NEW doc, Owns(n, doc) PROVE Owns(n, doc)'
    BY <2>1, <2>5, <2>6, <2>8 DEF Owns
  <2>9. NumbersOK'
    BY <1>1, <2>1, <2>3, <2>5, <2>6 DEF NumbersOK
  <2>10. JarOK'
    BY <1>1, <2>5, <2>6, <2>8 DEF BrowserOK, JarOK, NumbersOK
  <2>11. LeadsOK'
    BY <1>1 DEF BrowserOK, LeadsOK, Leads
  <2>12. HeldSession' => HeldSession /\ session'[jar.doc] = session[jar.doc]
    BY <1>1, <1>2, <2>5 DEF HeldSession, ActiveSessions
  <2>13. RestOK'
    BY <1>1, <2>12 DEF BrowserOK, RestOK, Leads
  <2>14. ASSUME NEW c \in Calls PROVE RefreshOK(c)'
    <3>1. RefreshOK(c) /\ refresh[c].n \in Nat /\ refresh[c].n <= minted
      BY <2>6 DEF BrowserOK, NumbersOK
    <3>2. \A doc : Owns(refresh[c].n, doc) => Owns(refresh[c].n, doc)'
      BY <1>1, <2>8, <3>1
    <3> QED
      BY <1>1, <2>12, <3>1, <3>2 DEF RefreshOK
  <2>15. SigningOK(g)'
    <3>1. Owns(signing[g].n, signing[g].doc)'
      BY <2>3, <2>7 DEF Owns
    <3>2. minted' > 0 /\ minted' # jar.n /\ \A c \in Calls : refresh[c].n # minted'
      BY <2>1, <2>6 DEF NumbersOK
    <3>3. \A h \in SignIns \ {g} : signing'[h].n # minted'
      BY <2>1, <2>3, <2>6 DEF NumbersOK
    <3>4. AnswerOK(g)'
      BY <1>1, <2>3, <2>5, <3>1, <3>2, <3>3 DEF AnswerOK
    <3> QED
      BY <1>2, <2>3, <2>5, <3>4 DEF SigningOK
  <2>16. ASSUME NEW h \in SignIns, h # g PROVE SigningOK(h)'
    <3>1. SigningOK(h) /\ signing'[h] = signing[h] /\ signing[h].n \in Nat /\ signing[h].n <= minted
      BY <2>3, <2>6, <2>16 DEF BrowserOK, NumbersOK
    <3>2. \A doc : Owns(signing[h].n, doc) => Owns(signing[h].n, doc)'
      BY <2>3, <2>8, <2>16, <3>1
    <3>3. signing[h].step = "answer" => signing[h].doc \in Docs /\ AnswerOK(h)
      BY <3>1 DEF SigningOK
    <3>4. \A i \in SignIns : i # g => signing'[i] = signing[i]
      BY <2>3
    <3>5. signing'[g].n # signing[h].n
      BY <2>1, <2>3, <2>6, <3>1
    <3>6. signing[h].login # k
      BY <1>2, <2>16
    <3>7. signing[h].step = "answer" => AnswerOK(h)'
      BY <1>1, <2>5, <3>1, <3>2, <3>3, <3>4, <3>5, <3>6 DEF AnswerOK
    <3> QED
      BY <2>5, <3>1, <3>7 DEF SigningOK
  <2> QED
    BY <2>9, <2>10, <2>11, <2>13, <2>14, <2>15, <2>16 DEF BrowserOK
<1> QED
  BY <1>3, <1>4

LEMMA SignedInKept ==
  ASSUME SessionsTyped, BrowserOK, NEW g \in SignIns, SignedIn(g)
  PROVE  BrowserOK'
<1>1. /\ UNCHANGED << session, minted, lapsed, call, refresh >>
      /\ signing' = [signing EXCEPT ![g] = NoSignIn]
      /\ jar'.n = signing[g].n /\ jar'.doc = signing[g].doc /\ jar'.login = signing[g].login
      /\ \A c \in Calls : call[c].step = "idle"
  BY DEF SignedIn, server
<1>2. /\ signing'[g].step = "idle" /\ signing'[g].n = 0
      /\ \A h \in SignIns \ {g} : signing'[h] = signing[h]
  BY <1>1 DEF SessionsTyped, NoSignIn
<1>3. /\ signing[g].doc \in Docs /\ session[signing[g].doc].state # "none"
      /\ AnswerOK(g)
  BY DEF BrowserOK, SigningOK, SignedIn
<1>4. \A c \in Calls : ~ Leads(c) /\ ~ Leads(c)' /\ refresh[c].step = "none"
  BY <1>1 DEF BrowserOK, LeadsOK, Leads
<1>5. NumbersOK'
  <2>1. NumbersOK /\ minted >= 0
    BY NumbersTyped DEF BrowserOK
  <2> QED
    BY <1>1, <1>2, <2>1 DEF NumbersOK
<1>6. JarOK'
  <2>1. Owns(jar.n, jar.doc)'
    BY <1>1, <1>3 DEF AnswerOK, Owns
  <2> QED
    BY <1>1, <1>3, <2>1 DEF AnswerOK, JarOK
<1>7. LeadsOK'
  BY <1>1, <1>4 DEF LeadsOK
<1>8. RestOK'
  BY <1>1, <1>3 DEF RestOK, AnswerOK, HeldSession, ActiveSessions
<1>9. ASSUME NEW h \in SignIns PROVE SigningOK(h)'
  <2>1. CASE h = g
    BY <1>2, <2>1 DEF SigningOK
  <2>2. CASE h # g
    <3>1. SigningOK(h) /\ signing'[h] = signing[h]
      BY <1>2, <2>2 DEF BrowserOK
    <3>2. signing[h].step = "answer" => AnswerOK(h) /\ signing[g].n # signing[h].n
      BY <1>3, <2>2, <3>1 DEF SigningOK, AnswerOK
    <3>3. \A i \in SignIns : signing'[i].step = "answer" => signing'[i] = signing[i]
      BY <1>2
    <3>4. signing[h].step = "answer" => AnswerOK(h)'
      BY <1>1, <3>1, <3>2, <3>3 DEF AnswerOK, Owns
    <3> QED
      BY <1>1, <3>1, <3>4 DEF SigningOK
  <2> QED
    BY <2>1, <2>2
<1>10. ASSUME NEW c \in Calls PROVE RefreshOK(c)'
  BY <1>1, <1>4 DEF RefreshOK
<1> QED
  BY <1>5, <1>6, <1>7, <1>8, <1>9, <1>10 DEF BrowserOK

LEMMA AnswerLostKept ==
  ASSUME SessionsTyped, BrowserOK, NEW g \in SignIns, AnswerLost(g)
  PROVE  BrowserOK'
<1>1. /\ UNCHANGED << session, minted, lapsed, client, jar, call, refresh >>
      /\ signing' = [signing EXCEPT ![g] = NoSignIn]
  BY DEF AnswerLost, server
<1>2. /\ signing'[g].step = "idle" /\ signing'[g].n = 0
      /\ \A h \in SignIns \ {g} : signing'[h] = signing[h]
  BY <1>1 DEF SessionsTyped, NoSignIn
<1>3. NumbersOK'
  <2>1. NumbersOK /\ minted >= 0
    BY NumbersTyped DEF BrowserOK
  <2> QED
    BY <1>1, <1>2, <2>1 DEF NumbersOK
<1>4. JarOK' /\ LeadsOK' /\ RestOK' /\ \A c \in Calls : RefreshOK(c)'
  BY <1>1 DEF BrowserOK, JarOK, LeadsOK, RestOK, RefreshOK, Leads, HeldSession, ActiveSessions, Owns
<1>5. ASSUME NEW h \in SignIns PROVE SigningOK(h)'
  BY <1>1, <1>2 DEF BrowserOK, SigningOK, AnswerOK, Owns
<1> QED
  BY <1>3, <1>4, <1>5 DEF BrowserOK

\* The refresh of the one call that leads moves on, and the tokens of the
\* browser and the sign-ins stay.
Refreshes(c) ==
  /\ jar' = jar /\ client' = client /\ signing' = signing /\ lapsed' = lapsed
  /\ \A d \in Calls \ {c} : refresh'[d] = refresh[d]
  /\ \A d \in Calls \ {c} : ~ Leads(d)
  /\ \A d \in Calls : call'[d].step # "idle" => call[d].step # "idle"
  /\ \A d \in Calls : call'[d].step = "again" => call'[d] = call[d]
  /\ \A d \in Calls : Leads(d)' <=> d = c
  /\ refresh'[c].step # "none"

\* The documents wane: what is left to show is about the refresh of c.
LEMMA RefreshesKept ==
  ASSUME SessionsTyped, BrowserOK, NEW c \in Calls, Refreshes(c),
         minted' = minted, \A s \in Docs : Wanes(s),
         refresh'[c].n <= minted, refresh'[c].step # "yes", RefreshOK(c)'
  PROVE  BrowserOK'
<1>1. /\ jar' = jar /\ client' = client /\ signing' = signing /\ lapsed' = lapsed
      /\ \A d \in Calls \ {c} : refresh'[d] = refresh[d]
      /\ \A d \in Calls \ {c} : ~ Leads(d)
      /\ \A d \in Calls : Leads(d)' <=> d = c
  BY DEF Refreshes
<1>2. /\ HeldSession' => HeldSession
      /\ \A n, doc : Owns(n, doc) => Owns(n, doc)'
  BY <1>1, WanesHeld
<1>3. NumbersOK'
  BY <1>1 DEF BrowserOK, NumbersOK, Wanes
<1>4. JarOK'
  <2>1. \A d \in Calls : call'[d].step # "idle" => call[d].step # "idle"
    BY DEF Refreshes
  <2> QED
    BY <1>1, <1>2, <2>1 DEF BrowserOK, JarOK, Wanes
<1>5. \A d \in Calls \ {c} : refresh'[d].step = "none"
  BY <1>1 DEF BrowserOK, LeadsOK
<1>6. LeadsOK'
  BY <1>1, <1>5 DEF BrowserOK, LeadsOK, Refreshes
<1>7. RestOK'
  BY <1>1 DEF RestOK
<1>8. ASSUME NEW g \in SignIns PROVE SigningOK(g)'
  <2>1. SigningOK(g)
    BY DEF BrowserOK
  <2>2. signing[g].step = "answer" => signing[g].doc \in Docs /\ AnswerOK(g)
    BY <2>1 DEF SigningOK
  <2>3. \A d \in Calls : refresh'[d].step # "yes"
    BY <1>5
  <2>4. signing[g].step = "answer" => AnswerOK(g)'
    BY <1>1, <1>2, <2>2, <2>3 DEF AnswerOK, Wanes
  <2> QED
    BY <1>1, <2>1, <2>4 DEF SigningOK, Wanes
<1>9. ASSUME NEW d \in Calls PROVE RefreshOK(d)'
  BY <1>5 DEF RefreshOK
<1> QED
  BY <1>3, <1>4, <1>6, <1>7, <1>8, <1>9 DEF BrowserOK

LEMMA AskKept ==
  ASSUME OnePage, SessionsTyped, BrowserOK, NEW c \in Calls, AskRefresh(c)
  PROVE  BrowserOK'
<1>1. /\ call[c].step = "denied"
      /\ UNCHANGED << session, minted, lapsed, disabled, signing, client, jar >>
  BY DEF AskRefresh, server
<1>2. \A s \in Docs : Wanes(s)
  BY <1>1 DEF Wanes
<1>3. ASSUME NEW step PROVE [call[c] EXCEPT !.step = step].step = step
  BY DEF SessionsTyped, CallRecord
<1>4. CASE InFlight(Tab(c))
  <2>1. call' = [call EXCEPT ![c] = [call[c] EXCEPT !.step = "joined"]] /\ refresh' = refresh
    BY <1>4 DEF AskRefresh
  <2>2. call'[c].step = "joined" /\ \A d \in Calls \ {c} : call'[d] = call[d]
    BY <1>3, <2>1 DEF SessionsTyped
  <2>3. Quiet
    BY <1>1, <1>2, <2>1, <2>2 DEF Quiet, Leads
  <2> QED
    BY <2>3, QuietKept
<1>5. CASE ~ InFlight(Tab(c))
  <2>1. \A d \in Calls : Tab(d) = Tab(c)
    BY DEF OnePage, Calls, Tab
  <2>2. \A d \in Calls : ~ Leads(d)
    BY <1>5, <2>1 DEF InFlight
  <2>3. /\ call' = [call EXCEPT ![c] = [call[c] EXCEPT !.step = "leading"]]
        /\ refresh' = [refresh EXCEPT ![c] = [NoRefresh EXCEPT !.step = "find", !.n = jar.n]]
    BY <1>5 DEF AskRefresh
  <2>4. call'[c].step = "leading" /\ \A d \in Calls \ {c} : call'[d] = call[d]
    BY <1>3, <2>3 DEF SessionsTyped
  <2>5. /\ refresh'[c].step = "find" /\ refresh'[c].n = jar.n /\ refresh'[c].lost = FALSE
        /\ \A d \in Calls \ {c} : refresh'[d] = refresh[d]
    BY <2>3 DEF SessionsTyped, NoRefresh
  <2>6. Refreshes(c)
    BY <1>1, <2>2, <2>4, <2>5 DEF Refreshes, Leads
  <2>7. HeldSession' => HeldSession
    BY <1>1 DEF HeldSession, ActiveSessions
  <2>8. RefreshOK(c)'
    BY <1>1, <2>2, <2>5, <2>7 DEF BrowserOK, RestOK, RefreshOK
  <2>9. refresh'[c].n <= minted
    BY <2>5 DEF BrowserOK, NumbersOK
  <2> QED
    BY <1>1, <1>2, <2>5, <2>6, <2>8, <2>9, RefreshesKept
<1> QED
  BY <1>4, <1>5

\* A step of the refresh that c leads.
LEMMA Leading ==
  ASSUME SessionsTyped, BrowserOK, NEW c \in Calls, refresh[c].step # "none",
         UNCHANGED << lapsed, signing, client, jar, call >>,
         NEW r, r.step # "none", refresh' = [refresh EXCEPT ![c] = r]
  PROVE  /\ Refreshes(c) /\ refresh'[c] = r
         /\ call[c].step = "leading" /\ jar.n > 0 /\ jar.doc \in Docs /\ Owns(jar.n, jar.doc)
<1>1. refresh'[c] = r /\ \A d \in Calls \ {c} : refresh'[d] = refresh[d]
  BY DEF SessionsTyped
<1>2. Leads(c) /\ \A d \in Calls \ {c} : ~ Leads(d)
  BY DEF BrowserOK, LeadsOK
<1>3. \A d \in Calls : Leads(d)' <=> Leads(d)
  BY DEF Leads
<1>4. Refreshes(c)
  BY <1>1, <1>2, <1>3 DEF Refreshes
<1> QED
  BY <1>1, <1>2, <1>4 DEF BrowserOK, JarOK, Leads

LEMMA ReadsKept ==
  ASSUME SessionsTyped, BrowserOK, NEW c \in Calls, RefreshReads(c)
  PROVE  BrowserOK'
<1>1. /\ refresh[c].step = "find" /\ minted' = minted
      /\ UNCHANGED << lapsed, signing, client, jar, call >>
  BY DEF RefreshReads
<1>2. /\ refresh[c].n = jar.n /\ refresh[c].n <= minted
      /\ client = "in" /\ HeldSession /\ ~ refresh[c].lost => session[jar.doc].secret = jar.n
  BY <1>1 DEF BrowserOK, RefreshOK, NumbersOK
<1>3. ASSUME NEW step, NEW d
      PROVE  /\ [refresh[c] EXCEPT !.step = step].step = step
             /\ [refresh[c] EXCEPT !.step = step].n = refresh[c].n
             /\ [refresh[c] EXCEPT !.step = step].lost = refresh[c].lost
             /\ [refresh[c] EXCEPT !.step = step, !.doc = d].step = step
             /\ [refresh[c] EXCEPT !.step = step, !.doc = d].n = refresh[c].n
             /\ [refresh[c] EXCEPT !.step = step, !.doc = d].doc = d
             /\ [refresh[c] EXCEPT !.step = step, !.doc = d].lost = refresh[c].lost
  BY DEF SessionsTyped, RefreshRecord
\* The refresh is refused: the session is over, or an answer was lost before.
<1>4. ASSUME refresh' = [refresh EXCEPT ![c] = [refresh[c] EXCEPT !.step = "no"]],
             \A s \in Docs : Wanes(s),
             client = "in" /\ HeldSession' => refresh[c].lost
      PROVE  BrowserOK'
  <2> DEFINE r == [refresh[c] EXCEPT !.step = "no"]
  <2>1. r.step = "no" /\ r.n = refresh[c].n /\ r.lost = refresh[c].lost
    BY <1>3
  <2>2. refresh' = [refresh EXCEPT ![c] = r]
    BY <1>4
  <2> HIDE DEF r
  <2>3. Refreshes(c) /\ refresh'[c] = r
    BY <1>1, <2>1, <2>2, Leading
  <2>4. RefreshOK(c)'
    BY <1>1, <1>4, <2>1, <2>3 DEF RefreshOK
  <2> QED
    BY <1>1, <1>2, <1>4, <2>1, <2>3, <2>4, RefreshesKept
<1>5. jar.n > 0 /\ jar.doc \in Docs /\ Owns(jar.n, jar.doc)
  BY <1>1 DEF BrowserOK, LeadsOK, Leads, JarOK
<1>6. CASE Found(refresh[c].n) = {} /\ refresh' = [refresh EXCEPT ![c].step = "no"] /\ session' = session
  <2>1. client = "in" /\ HeldSession => refresh[c].lost
    BY <1>2, <1>5, <1>6 DEF Found, HeldSession
  <2>2. HeldSession' => HeldSession
    BY <1>1, <1>6 DEF HeldSession, ActiveSessions
  <2>3. \A s \in Docs : Wanes(s)
    BY <1>6 DEF Wanes
  <2> QED
    BY <1>4, <1>6, <2>1, <2>2, <2>3
<1>7. ASSUME NEW s \in Found(refresh[c].n), Ended(s), refresh' = [refresh EXCEPT ![c].step = "no"]
      PROVE  BrowserOK'
  <2>1. s = jar.doc /\ session[s].state = "active"
    BY <1>2, <1>5 DEF Found, ActiveSessions, Owns
  <2>2. \A r \in Docs : Wanes(r)
    BY <1>7, <2>1, EndedWanes
  <2>3. [session[s] EXCEPT !.state = "ended"].state = "ended"
    BY <1>5, <2>1 DEF SessionsTyped, SessionRecord
  <2>4. session'[jar.doc].state = "ended"
    BY <1>5, <1>7, <2>1, <2>3 DEF Ended, SessionsTyped
  <2>5. ~ HeldSession'
    BY <1>1, <2>4 DEF HeldSession, ActiveSessions
  <2> QED
    BY <1>4, <1>7, <2>2, <2>5
<1>8. ASSUME NEW s \in Found(refresh[c].n), session' = session,
             refresh' = [refresh EXCEPT ![c] = [refresh[c] EXCEPT !.step = "rotate", !.doc = s]]
      PROVE  BrowserOK'
  <2> DEFINE r == [refresh[c] EXCEPT !.step = "rotate", !.doc = s]
  <2>1. r.step = "rotate" /\ r.n = refresh[c].n /\ r.doc = s /\ r.lost = refresh[c].lost
    BY <1>3
  <2>2. refresh' = [refresh EXCEPT ![c] = r]
    BY <1>8
  <2> HIDE DEF r
  <2>3. Refreshes(c) /\ refresh'[c] = r
    BY <1>1, <2>1, <2>2, Leading
  <2>4. s = jar.doc /\ session[s].secret = jar.n
    BY <1>2, <1>5 DEF Found, ActiveSessions, Owns
  <2>5. RefreshOK(c)'
    BY <1>1, <1>2, <1>8, <2>1, <2>3, <2>4 DEF RefreshOK
  <2>6. \A q \in Docs : Wanes(q)
    BY <1>8 DEF Wanes
  <2> QED
    BY <1>1, <1>2, <2>1, <2>3, <2>5, <2>6, RefreshesKept
<1> QED
  BY <1>6, <1>7, <1>8 DEF RefreshReads

LEMMA RotatesKept ==
  ASSUME SessionsTyped, BrowserOK, NEW c \in Calls, RefreshRotates(c)
  PROVE  BrowserOK'
<1> DEFINE s == jar.doc
<1>1. /\ refresh[c].step = "rotate"
      /\ UNCHANGED << lapsed, signing, client, jar, call >>
  BY DEF RefreshRotates
<1>2. /\ refresh[c].n = jar.n /\ refresh[c].doc = s /\ refresh[c].n <= minted
      /\ client = "in" /\ HeldSession /\ ~ refresh[c].lost => session[s].secret = jar.n
      /\ jar.n > 0 /\ s \in Docs /\ Owns(jar.n, s) /\ session[s].state # "none"
  BY <1>1 DEF BrowserOK, RefreshOK, NumbersOK, LeadsOK, Leads, JarOK
<1>3. CASE ~ Rotates(c)
  <2> DEFINE r == [refresh[c] EXCEPT !.step = "no"]
  <2>1. r.step = "no" /\ r.n = refresh[c].n /\ r.lost = refresh[c].lost
    BY DEF SessionsTyped, RefreshRecord
  <2>2. refresh' = [refresh EXCEPT ![c] = r] /\ session' = session /\ minted' = minted
    BY <1>3 DEF RefreshRotates
  <2> HIDE DEF r
  <2>3. Refreshes(c) /\ refresh'[c] = r
    BY <1>1, <2>1, <2>2, Leading
  <2>4. HeldSession' => HeldSession
    BY <1>1, <2>2 DEF HeldSession, ActiveSessions
  <2>5. client = "in" /\ HeldSession => refresh[c].lost
    BY <1>2, <1>3 DEF Rotates, Found, HeldSession
  <2>6. RefreshOK(c)'
    BY <1>1, <2>1, <2>3, <2>4, <2>5 DEF RefreshOK
  <2>7. \A q \in Docs : Wanes(q)
    BY <2>2 DEF Wanes
  <2> QED
    BY <1>1, <1>2, <2>1, <2>2, <2>3, <2>6, <2>7, RefreshesKept
<1>4. CASE Rotates(c)
  <2>1. session[s].state = "active" /\ session[s].secret = jar.n
    BY <1>2, <1>4 DEF Rotates, Found, ActiveSessions
  <2>2. /\ minted' = minted + 1
        /\ session' = [session EXCEPT ![s] = [session[s] EXCEPT !.secret = minted']]
        /\ refresh' = [refresh EXCEPT ![c] = [refresh[c] EXCEPT !.step = "yes", !.n = minted']]
    BY <1>2, <1>4 DEF RefreshRotates, Mint
  <2> DEFINE r == [refresh[c] EXCEPT !.step = "yes", !.n = minted']
  <2>3. r.step = "yes" /\ r.n = minted' /\ r.doc = s
    BY <1>2 DEF SessionsTyped, RefreshRecord
  <2>4. refresh' = [refresh EXCEPT ![c] = r]
    BY <2>2
  <2> HIDE DEF r
  <2>5. Refreshes(c) /\ refresh'[c] = r
    BY <1>1, <2>3, <2>4, Leading
  <2>6. ASSUME NEW n
        PROVE  /\ [session[s] EXCEPT !.secret = n].secret = n
               /\ [session[s] EXCEPT !.secret = n].login = session[s].login
               /\ [session[s] EXCEPT !.secret = n].state = session[s].state
    BY <1>2 DEF SessionsTyped, SessionRecord
  <2>7. s' = s
    BY <1>1
  <2> HIDE DEF s
  <2>8. /\ session'[s].secret = minted' /\ session'[s].login = session[s].login
        /\ session'[s].state = session[s].state
        /\ \A q \in Docs \ {s} : session'[q] = session[q]
    BY <1>2, <2>2, <2>6 DEF SessionsTyped
  <2>9. /\ NumbersOK /\ minted \in Nat /\ jar.n \in Nat /\ lapsed \in Nat
        /\ \A q \in Docs : session[q].secret \in Nat
        /\ \A h \in SignIns : signing[h].n \in Nat
        /\ \A d \in Calls : refresh[d].n \in Nat
    BY NumbersTyped DEF BrowserOK
  <2>10. ASSUME NEW n \in Nat, n <= minted, NEW doc, Owns(n, doc) PROVE Owns(n, doc)'
    BY <2>2, <2>8, <2>9, <2>10 DEF Owns
  <2>11. \A q \in Docs : session'[q].secret = minted' => q = s
    BY <2>2, <2>8, <2>9 DEF NumbersOK
  <2>12. /\ jar' = jar /\ client' = client /\ signing' = signing /\ lapsed' = lapsed /\ call' = call
         /\ refresh'[c].step = "yes" /\ refresh'[c].n = minted' /\ refresh'[c].doc = s
         /\ \A d \in Calls \ {c} : refresh'[d] = refresh[d]
         /\ \A d \in Calls : Leads(d)' <=> d = c
    BY <1>1, <2>3, <2>5 DEF Refreshes
  <2>13. \A d \in Calls \ {c} : refresh'[d].step = "none"
    BY <2>5, <2>12 DEF Refreshes, BrowserOK, LeadsOK
  <2>14. NumbersOK'
    BY <2>2, <2>8, <2>9, <2>12 DEF NumbersOK
  <2>15. JarOK'
    <3>1. jar.n <= minted /\ jar.doc = s
      BY <2>9 DEF NumbersOK, s
    <3>2. Owns(jar.n, jar.doc)'
      BY <1>2, <2>9, <2>10, <2>12, <3>1
    <3> QED
      BY <1>2, <2>8, <2>12, <3>1, <3>2 DEF BrowserOK, JarOK
  <2>16. LeadsOK'
    BY <2>12, <2>13 DEF BrowserOK, LeadsOK
  <2>17. RestOK'
    BY <2>12 DEF RestOK
  <2>18. ASSUME NEW g \in SignIns PROVE SigningOK(g)'
    <3>1. SigningOK(g) /\ signing[g].n \in Nat /\ signing[g].n <= minted
      BY <2>9 DEF BrowserOK, NumbersOK
    <3>2. signing[g].step = "answer" => signing[g].doc \in Docs /\ AnswerOK(g)
      BY <3>1 DEF SigningOK
    <3>3. \A doc : Owns(signing[g].n, doc) => Owns(signing[g].n, doc)'
      BY <2>10, <2>12, <3>1
    <3>4. \A q \in Docs : session'[q].state = session[q].state /\ session'[q].login = session[q].login
      BY <2>8
    <3>5. signing[g].n # minted'
      BY <2>2, <2>9, <3>1
    <3>6. \A d \in Calls : refresh'[d].step = "yes" => refresh'[d].n # signing[g].n
      BY <2>12, <2>13, <3>5
    <3>7. signing[g].step = "answer" /\ signing[g].doc = s /\ session[s].login = signing[g].login => FALSE
      BY <2>1, <3>2 DEF AnswerOK
    <3>8. signing[g].step = "answer" => AnswerOK(g)'
      BY <2>8, <2>12, <3>2, <3>3, <3>4, <3>6, <3>7 DEF AnswerOK
    <3> QED
      BY <2>12, <3>1, <3>4, <3>8 DEF SigningOK
  <2>19. RefreshOK(c)'
    <3>1. Owns(refresh[c].n, refresh[c].doc)'
      BY <2>11, <2>12 DEF Owns
    <3>2. minted' > lapsed
      BY <2>2, <2>9 DEF NumbersOK
    <3>3. jar.doc = s
      BY DEF s
    <3> QED
      BY <2>8, <2>12, <3>1, <3>2, <3>3 DEF RefreshOK
  <2>20. ASSUME NEW d \in Calls PROVE RefreshOK(d)'
    BY <2>13, <2>19 DEF RefreshOK
  <2> QED
    BY <2>14, <2>15, <2>16, <2>17, <2>18, <2>20 DEF BrowserOK
<1> QED
  BY <1>3, <1>4

LEMMA LostKept ==
  ASSUME SessionsTyped, BrowserOK, NEW c \in Calls, RefreshLost(c)
  PROVE  BrowserOK'
<1>1. /\ refresh[c].step # "none" /\ UNCHANGED << session, minted >>
      /\ UNCHANGED << lapsed, signing, client, jar, call >>
  BY DEF RefreshLost, server
<1>2. PICK step \in {"find", "no"} :
        refresh' = [refresh EXCEPT ![c] = [NoRefresh EXCEPT !.step = step, !.n = jar.n, !.lost = TRUE]]
  BY DEF RefreshLost
<1> DEFINE r == [NoRefresh EXCEPT !.step = step, !.n = jar.n, !.lost = TRUE]
<1>3. r.step = step /\ r.n = jar.n /\ r.lost = TRUE
  BY DEF NoRefresh
<1>4. refresh' = [refresh EXCEPT ![c] = r]
  BY <1>2
<1> HIDE DEF r
<1>5. Refreshes(c) /\ refresh'[c] = r
  BY <1>1, <1>3, <1>4, Leading
<1>6. RefreshOK(c)'
  BY <1>1, <1>3, <1>5 DEF RefreshOK
<1>7. \A q \in Docs : Wanes(q)
  BY <1>1 DEF Wanes
<1>8. r.n <= minted
  BY <1>3 DEF BrowserOK, NumbersOK
<1> QED
  BY <1>1, <1>3, <1>5, <1>6, <1>7, <1>8, RefreshesKept

LEMMA RefreshAnsweredKept ==
  ASSUME OnePage, SessionsTyped, BrowserOK, NEW c \in Calls, RefreshAnswered(c)
  PROVE  BrowserOK'
<1>1. /\ refresh[c].step \in {"yes", "no"}
      /\ UNCHANGED << session, minted, lapsed, signing >>
      /\ refresh' = [refresh EXCEPT ![c] = NoRefresh]
  BY DEF RefreshAnswered, server
<1>2. Leads(c) /\ \A d \in Calls \ {c} : ~ Leads(d) /\ refresh[d].step = "none"
  BY <1>1 DEF BrowserOK, LeadsOK
<1>3. jar.n > 0 /\ jar.doc \in Docs /\ session[jar.doc].state # "none" /\ Owns(jar.n, jar.doc)
  BY <1>2 DEF BrowserOK, JarOK, Leads
<1>4. \A d \in Calls : Tab(d) = Tab(c)
  BY DEF OnePage, Calls, Tab
<1>5. /\ refresh'[c].n = 0 /\ \A d \in Calls : refresh'[d].step = "none"
      /\ \A d \in Calls \ {c} : refresh'[d] = refresh[d]
  BY <1>1, <1>2 DEF SessionsTyped, NoRefresh
<1>6. \A d \in Calls : RefreshOK(d)'
  BY <1>5 DEF RefreshOK
<1>7. NumbersOK /\ minted \in Nat
  BY NumbersTyped DEF BrowserOK
<1>8. \A n, doc : Owns(n, doc) => Owns(n, doc)'
  BY <1>1 DEF Owns
<1>9. CASE refresh[c].step = "yes"
  <2> DEFINE n == refresh[c].n
  <2>1. /\ refresh[c].doc = jar.doc /\ n > lapsed /\ Owns(n, jar.doc)
        /\ client = "in" /\ HeldSession => session[jar.doc].secret = n
        /\ n <= minted /\ n \in Nat /\ lapsed \in Nat
    BY <1>9, NumbersTyped DEF BrowserOK, RefreshOK, NumbersOK
  <2>2. /\ jar' = [jar EXCEPT !.n = n, !.doc = jar.doc] /\ client' = client
        /\ call' = [d \in Calls |-> IF Tab(d) = Tab(c) /\ call[d].step \in {"leading", "joined"}
                                    THEN [step |-> "again", token |-> RetryToken(d)] ELSE call[d]]
    BY <1>2, <1>9, <2>1 DEF RefreshAnswered
  <2>3. \A d \in Calls : RetryToken(d) = jar'
    BY DEF RetryToken, OnePage
  <2>4. \A d \in Calls : \/ call[d].step \in {"leading", "joined"} /\ call'[d].step = "again" /\ call'[d].token = jar'
                         \/ call[d].step \notin {"leading", "joined"} /\ call'[d] = call[d]
    BY <1>4, <2>2, <2>3
  <2> HIDE DEF n
  <2>5. jar'.n = n /\ jar'.doc = jar.doc /\ jar'.login = jar.login
    BY <2>2 DEF SessionsTyped, Token
  <2>6. NumbersOK'
    <3>1. 0 <= minted
      BY <1>7
    <3> QED
      BY <1>1, <1>5, <1>7, <2>1, <2>5, <3>1 DEF NumbersOK
  <2>7. JarOK'
    <3>1. n > 0
      BY <2>1
    <3>2. Owns(jar.n, jar.doc)'
      BY <1>1, <2>1, <2>5 DEF Owns
    <3> QED
      BY <1>1, <1>3, <2>5, <3>1, <3>2 DEF JarOK
  <2>8. \A d \in Calls : ~ Leads(d)'
    BY <2>4 DEF Leads
  <2>9. LeadsOK'
    BY <1>1, <1>5, <2>1, <2>4, <2>5, <2>8 DEF BrowserOK, LeadsOK
  <2>10. HeldSession' => HeldSession
    BY <1>1, <2>5 DEF HeldSession, ActiveSessions
  <2>11. RestOK'
    BY <1>1, <2>1, <2>2, <2>5, <2>10 DEF RestOK
  <2>12. ASSUME NEW g \in SignIns PROVE SigningOK(g)'
    <3>1. SigningOK(g)
      BY DEF BrowserOK
    <3>2. signing[g].step = "answer" => AnswerOK(g) /\ signing[g].n # n
      BY <1>9, <3>1 DEF SigningOK, AnswerOK, n
    <3>3. signing[g].step = "answer" => AnswerOK(g)'
      BY <1>1, <1>5, <1>8, <2>5, <3>2 DEF AnswerOK
    <3> QED
      BY <1>1, <3>1, <3>3 DEF SigningOK
  <2> QED
    BY <1>6, <2>6, <2>7, <2>9, <2>11, <2>12 DEF BrowserOK
<1>10. CASE refresh[c].step = "no"
  <2>1. ForceOut(Tab(c)) /\ jar' = jar
    BY <1>2, <1>10 DEF RefreshAnswered
  <2>2. client' # "in" /\ \A d \in Calls : call'[d].step = "idle"
    BY <1>4, <2>1 DEF ForceOut, NoCall
  <2>3. NumbersOK'
    <3>1. 0 <= minted
      BY <1>7
    <3> QED
      BY <1>1, <1>5, <1>7, <2>1, <3>1 DEF NumbersOK
  <2>4. JarOK' /\ RestOK'
    BY <1>1, <1>3, <1>8, <2>1, <2>2 DEF JarOK, RestOK
  <2>5. LeadsOK'
    BY <1>5, <2>2 DEF LeadsOK, Leads
  <2>6. ASSUME NEW g \in SignIns PROVE SigningOK(g)'
    <3>1. SigningOK(g)
      BY DEF BrowserOK
    <3>2. signing[g].step = "answer" => AnswerOK(g)'
      BY <1>1, <1>5, <1>8, <2>1, <3>1 DEF SigningOK, AnswerOK
    <3> QED
      BY <1>1, <3>1, <3>2 DEF SigningOK
  <2> QED
    BY <1>6, <2>3, <2>4, <2>5, <2>6 DEF BrowserOK
<1> QED
  BY <1>1, <1>9, <1>10

LEMMA LapseTokensKept ==
  ASSUME SessionsTyped, BrowserOK, LapseTokens
  PROVE  BrowserOK'
<1>1. /\ lapsed' = minted
      /\ UNCHANGED << session, minted, signing, client, jar, call, refresh >>
      /\ \A c \in Calls : call[c].step # "again" /\ refresh[c].step = "none"
  BY DEF LapseTokens, Brief, browser
<1>2. minted \in Nat
  BY NumbersTyped
<1>3. NumbersOK'
  BY <1>1, <1>2 DEF BrowserOK, NumbersOK
<1>4. JarOK' /\ LeadsOK' /\ RestOK'
  BY <1>1 DEF BrowserOK, JarOK, LeadsOK, RestOK, Leads, HeldSession, ActiveSessions, Owns
<1>5. \A g \in SignIns : SigningOK(g)'
  BY <1>1 DEF BrowserOK, SigningOK, AnswerOK, Owns
<1>6. \A c \in Calls : RefreshOK(c)'
  BY <1>1 DEF RefreshOK
<1> QED
  BY <1>3, <1>4, <1>5, <1>6 DEF BrowserOK

LEMMA CheckWanes ==
  ASSUME SessionsTyped, NEW t, Checked(t)
  PROVE  \A s \in Docs : Wanes(s)
<1>1. CASE EndedByCheck(t)
  BY <1>1, EndedWanes DEF Checked, EndedByCheck
<1>2. CASE ~ EndedByCheck(t)
  BY <1>2 DEF Checked, Wanes
<1> QED
  BY <1>1, <1>2

LEMMA CallsKept ==
  ASSUME SessionsTyped, BrowserOK, NEW c \in Calls, Send(c) \/ Answered(c) \/ AnsweredAgain(c)
  PROVE  BrowserOK'
<1>1. \A s \in Docs : session'[s] = session[s] => Wanes(s)
  BY DEF Wanes
<1>2. [call[c] EXCEPT !.step = "denied"].step = "denied"
  BY DEF SessionsTyped, CallRecord
<1>3. NoCall.step = "idle"
  BY DEF NoCall
<1>4. CASE Send(c)
  <2>1. /\ call' = [call EXCEPT ![c] = [step |-> "sent", token |-> jar]]
        /\ client = "in" /\ call[c].step = "idle"
        /\ UNCHANGED << session, minted, lapsed, signing, client, jar, refresh >>
    BY <1>4 DEF Send, server
  <2>2. call'[c].step = "sent" /\ \A d \in Calls \ {c} : call'[d] = call[d]
    BY <2>1 DEF SessionsTyped
  <2>3. Quiet
    BY <1>1, <2>1, <2>2 DEF Quiet, Leads
  <2> QED
    BY <2>3, QuietKept
<1>5. CASE Answered(c)
  <2>1. /\ call[c].step = "sent"
        /\ call' = [call EXCEPT ![c] = NoCall] \/ call' = [call EXCEPT ![c] = [call[c] EXCEPT !.step = "denied"]]
        /\ UNCHANGED << minted, lapsed, signing, client, jar, refresh >>
    BY <1>5 DEF Answered
  <2>2. call'[c].step \in {"idle", "denied"} /\ \A d \in Calls \ {c} : call'[d] = call[d]
    BY <1>2, <1>3, <2>1 DEF SessionsTyped
  <2>3. \A s \in Docs : Wanes(s)
    BY <1>5, CheckWanes DEF Answered
  <2>4. Quiet
    BY <2>1, <2>2, <2>3 DEF Quiet, Leads
  <2> QED
    BY <2>4, QuietKept
<1>6. CASE AnsweredAgain(c)
  <2>1. call[c].step = "again" /\ ~ TokenLapsed(call[c].token)
    BY <1>6, NumbersTyped DEF AnsweredAgain, BrowserOK, LeadsOK, TokenLapsed
  <2>2. /\ call' = [call EXCEPT ![c] = NoCall]
        /\ UNCHANGED << minted, lapsed, signing, client, jar, refresh >>
    BY <1>6, <2>1 DEF AnsweredAgain
  <2>3. call'[c].step = "idle" /\ \A d \in Calls \ {c} : call'[d] = call[d]
    BY <1>3, <2>2 DEF SessionsTyped
  <2>4. \A s \in Docs : Wanes(s)
    BY <1>6, CheckWanes DEF AnsweredAgain
  <2>5. Quiet
    BY <2>1, <2>2, <2>3, <2>4 DEF Quiet, Leads
  <2> QED
    BY <2>5, QuietKept
<1> QED
  BY <1>4, <1>5, <1>6

\* Steps of the user, of time, of other devices and of the staff.
LEMMA OthersKept ==
  ASSUME SessionsTyped, BrowserOK,
         \/ Logout \/ DisableUser
         \/ \E s \in Docs : LapseSession(s) \/ DeleteSession(s)
         \/ Trouble /\ UNCHANGED << server, signing, client, jar, call, refresh >>
         \/ UNCHANGED sessions
  PROVE  BrowserOK'
<1>1. \A s \in Docs : session'[s] = session[s] => Wanes(s)
  BY DEF Wanes
<1>2. ASSUME \A s \in Docs : Wanes(s), client' = client \/ client' # "in",
             UNCHANGED << minted, lapsed, jar, signing, refresh, call >>
      PROVE  BrowserOK'
  <2>1. Quiet
    BY <1>2 DEF Quiet, Leads
  <2> QED
    BY <2>1, QuietKept
<1>3. ASSUME NEW s \in Docs, LapseSession(s) PROVE BrowserOK'
  <2>1. /\ [session[s] EXCEPT !.lapsed = TRUE].secret = session[s].secret
        /\ [session[s] EXCEPT !.lapsed = TRUE].login = session[s].login
        /\ [session[s] EXCEPT !.lapsed = TRUE].state = session[s].state
    BY DEF SessionsTyped, SessionRecord
  <2>2. \A r \in Docs : Wanes(r)
    BY <1>3, <2>1 DEF LapseSession, Wanes, SessionsTyped
  <2> QED
    BY <1>2, <1>3, <2>2 DEF LapseSession
<1>4. ASSUME NEW s \in Docs, DeleteSession(s) PROVE BrowserOK'
  <2>1. /\ [session[s] EXCEPT !.state = "gone"].secret = session[s].secret
        /\ [session[s] EXCEPT !.state = "gone"].login = session[s].login
        /\ [session[s] EXCEPT !.state = "gone"].state = "gone"
    BY DEF SessionsTyped, SessionRecord
  <2>2. \A r \in Docs : Wanes(r)
    BY <1>4, <2>1 DEF DeleteSession, Wanes, SessionsTyped
  <2> QED
    BY <1>2, <1>4, <2>2 DEF DeleteSession
<1>5. CASE Logout
  <2>1. \A r \in Docs : Wanes(r)
    BY <1>1, <1>5, EndedWanes DEF Logout, ActiveSessions
  <2> QED
    BY <1>2, <1>5, <2>1 DEF Logout
<1>6. CASE DisableUser
  BY <1>1, <1>2, <1>6 DEF DisableUser
<1>7. CASE Trouble /\ UNCHANGED << server, signing, client, jar, call, refresh >>
  BY <1>1, <1>2, <1>7 DEF server
<1>8. CASE UNCHANGED sessions
  BY <1>1, <1>2, <1>8 DEF sessions
<1> QED
  BY <1>3, <1>4, <1>5, <1>6, <1>7, <1>8

LEMMA BrowserKept ==
  ASSUME OnePage, CodesTyped, SessionsTyped, CodesOK, UsesOK, BrowserOK, [Next]_vars
  PROVE  BrowserOK'
<1> USE SignInAssumption
<1>1. ASSUME NEW g \in Guesses, Opened(g) PROVE BrowserOK'
  <2>1. guess[g].code \in Challenges /\ FindSession(g, guess[g].code)
    BY <1>1 DEF Opened, CodesOK
  <2> QED
    BY <2>1, FindKept
<1>2. ASSUME UNCHANGED sessions PROVE BrowserOK'
  BY <1>2, OthersKept
<1>3. ASSUME CodeLapses PROVE BrowserOK'
  BY <1>3, OthersKept DEF CodeLapses
<1>4. ASSUME Session PROVE BrowserOK'
  BY <1>4, SaveKept, SignedInKept, AnswerLostKept, CallsKept, AskKept, ReadsKept, RotatesKept,
     LostKept, RefreshAnsweredKept, LapseTokensKept, OthersKept DEF Session
<1> QED
  BY <1>1, <1>2, <1>3, <1>4 DEF Next, Issue, Verify, Refused, vars

\* On the one page that keeps its tokens in cookies, however many calls meet an
\* expired token at once and whatever becomes of their refreshes, the browser is
\* forced out only if its session is over, somebody signed in on it, or a refresh
\* was lost (tryRefreshSession, refreshSession, handleInvalidSession).
THEOREM SignedInWhileValidAlways == ASSUME OnePage PROVE Spec => SignedInWhileValid
<1>1. Init => BrowserOK
  BY BrowserInit DEF Init
<1>2. SignInInv /\ BrowserOK /\ [Next]_vars => BrowserOK'
  BY BrowserKept, TypesOfBoth DEF SignInInv
<1>3. ASSUME SignInInv, BrowserOK, [Next]_vars, client = "in", client' = "forced"
      PROVE  ~ HeldSession \/ \E c \in Calls : refresh[c].step = "no" /\ refresh[c].lost
  <2>1. SessionsTyped
    BY <1>3, TypesOfBoth DEF SignInInv
  <2>2. ASSUME NEW c \in Calls, AnsweredAgain(c) PROVE FALSE
    <3>1. ~ TokenLapsed(call[c].token)
      BY <1>3, <2>1, <2>2, NumbersTyped DEF AnsweredAgain, BrowserOK, LeadsOK, TokenLapsed
    <3> QED
      BY <1>3, <2>2, <3>1 DEF AnsweredAgain
  <2>3. PICK c \in Calls : RefreshAnswered(c)
    <3>1. CASE Session
      BY <1>3, <2>2, <3>1 DEF Session, SaveSession, SignedIn, AnswerLost, Send, Answered, AskRefresh,
         RefreshReads, RefreshRotates, RefreshLost, LapseSession, DeleteSession, Logout, LapseTokens,
         DisableUser, browser
    <3>2. ASSUME NEW g \in Guesses, Opened(g) PROVE client' = client
      BY <3>2 DEF Opened, FindSession, browser
    <3>3. ASSUME CodeLapses \/ UNCHANGED sessions PROVE client' = client
      BY <3>3 DEF CodeLapses, sessions
    <3> QED
      BY <1>3, <3>1, <3>2, <3>3 DEF Next, Issue, Verify, Refused, vars
  <2>4. refresh[c].step = "no"
    BY <1>3, <2>3 DEF RefreshAnswered
  <2> QED
    BY <1>3, <2>4 DEF BrowserOK, RefreshOK
<1>4. SignInInv /\ BrowserOK /\ [Next]_vars =>
        [client = "in" /\ client' = "forced" =>
           \/ ~ HeldSession
           \/ \E c \in Calls : refresh[c].step = "no" /\ refresh[c].lost]_vars
  BY <1>3
<1> QED
  BY <1>1, <1>2, <1>4, SignInInvariant, PTL DEF Spec, SignedInWhileValid

==============================================================================
