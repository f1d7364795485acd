---------------------------- MODULE OtpChallenges ---------------------------
(***************************************************************************)
(* One-time codes of one user and purpose (lib/otpChallenges.js): a call   *)
(* that issues a code replaces the code before it, a call that verifies    *)
(* one counts a wrong guess or consumes the code.  Every call reads first  *)
(* and writes later, next to the others.                                   *)
(***************************************************************************)
EXTENDS Integers, FiniteSets

CONSTANTS
  Issues,         \* calls that issue a code
  Guesses,        \* calls that verify one
  MaxAttempts,    \* OTP_MAX_ATTEMPTS
  MaxChallenges   \* bound: codes issued

ASSUME OtpAssumption ==
  /\ IsFiniteSet(Issues) /\ IsFiniteSet(Guesses)
  /\ MaxAttempts \in Nat \ {0}
  /\ MaxChallenges \in Nat

VARIABLES
  challenge,   \* the codes, in the order they are issued
  issue,       \* how far each call that issues has come
  guess,       \* how far each call that verifies has come
  accepted     \* history: calls that got a yes for each code

otp == << challenge, issue, guess, accepted >>

Challenges == 1 .. MaxChallenges
Made == {k \in Challenges : challenge[k].status # "none"}
Active == {k \in Challenges : challenge[k].status = "active"}

NoIssue == [step |-> "idle", carried |-> 0, tries |-> 0]
NoGuess == [step |-> "idle", code |-> 0]

InitOtp ==
  /\ challenge = [k \in Challenges |-> [status |-> "none", attempts |-> 0, lapsed |-> FALSE]]
  /\ issue = [i \in Issues |-> NoIssue]
  /\ guess = [g \in Guesses |-> NoGuess]
  /\ accepted = [k \in Challenges |-> 0]

-----------------------------------------------------------------------------
(* Issuing *)

\* The wrong guesses at the code it replaces are read before anything is written.
StartIssue(i) ==
  /\ issue[i].step = "idle"
  /\ Cardinality(Made) + Cardinality({j \in Issues : issue[j].step # "idle"}) < MaxChallenges
  /\ \E n \in IF Active = {} THEN {0} ELSE {challenge[k].attempts : k \in Active} :
       issue' = [issue EXCEPT ![i] = [step |-> "clear", carried |-> n, tries |-> 1]]
  /\ UNCHANGED << challenge, guess, accepted >>

ClearActive(i) ==
  /\ issue[i].step = "clear"
  /\ challenge' = [k \in Challenges |->
       IF k \in Active THEN [challenge[k] EXCEPT !.status = "invalid"] ELSE challenge[k]]
  /\ issue' = [issue EXCEPT ![i].step = "create"]
  /\ UNCHANGED << guess, accepted >>

\* The unique index allows one active code; a refused call clears again, twice at most.
Create(i) ==
  /\ issue[i].step = "create"
  /\ IF Active = {}
     THEN /\ challenge' = [challenge EXCEPT ![Cardinality(Made) + 1] =
               [status |-> "active", attempts |-> issue[i].carried, lapsed |-> FALSE]]
          /\ issue' = [issue EXCEPT ![i] = NoIssue]
     ELSE /\ issue' = [issue EXCEPT ![i] =
               IF issue[i].tries = 3 THEN NoIssue
               ELSE [issue[i] EXCEPT !.step = "clear", !.tries = issue[i].tries + 1]]
          /\ UNCHANGED challenge
  /\ UNCHANGED << guess, accepted >>

\* Five minutes pass.
LapseCode(k) ==
  /\ k \in Active
  /\ ~ challenge[k].lapsed
  /\ challenge' = [challenge EXCEPT ![k].lapsed = TRUE]
  /\ UNCHANGED << issue, guess, accepted >>

-----------------------------------------------------------------------------
(* Verifying *)

\* What the call decides from the code it read; without guesses left it ends at once.
StartGuess(g, k, right) ==
  /\ guess[g].step = "idle"
  /\ k \in Active
  /\ challenge[k].lapsed \/ challenge[k].attempts < MaxAttempts
  /\ guess' = [guess EXCEPT ![g] = [code |-> k, step |->
       IF challenge[k].lapsed THEN "close" ELSE IF right THEN "claim" ELSE "count"]]
  /\ UNCHANGED << challenge, issue, accepted >>

\* Mutant: the guess is counted on the strength of what was read.
CountsAsRead(k) == k \in Active
\* The guess is counted only while the code is active and guesses are left.
Counts(k) == k \in Active /\ challenge[k].attempts < MaxAttempts
CountGuess(g) ==
  /\ guess[g].step = "count"
  /\ LET k == guess[g].code IN
       IF Counts(k)
       THEN /\ challenge' = [challenge EXCEPT ![k].attempts = @ + 1]
            /\ guess' = [guess EXCEPT ![g] =
                 IF challenge[k].attempts + 1 >= MaxAttempts
                 THEN [@ EXCEPT !.step = "close"] ELSE NoGuess]
       ELSE guess' = [guess EXCEPT ![g] = NoGuess] /\ UNCHANGED challenge
  /\ UNCHANGED << issue, accepted >>

\* A lapsed code, or one without guesses left, is invalidated.
Close(g) ==
  /\ guess[g].step = "close"
  /\ LET k == guess[g].code IN
       challenge' = [challenge EXCEPT ![k].status = IF k \in Active THEN "invalid" ELSE @]
  /\ guess' = [guess EXCEPT ![g] = NoGuess]
  /\ UNCHANGED << issue, accepted >>

\* Mutant: the claim does not ask whether the code was consumed meanwhile.
ClaimsTwice(k) == challenge[k].status # "invalid"
\* The code is consumed only if it is still active.
Claims(k) == k \in Active
ClaimCode(g) ==
  /\ guess[g].step = "claim"
  /\ LET k == guess[g].code IN
       IF Claims(k)
       THEN /\ challenge' = [challenge EXCEPT ![k].status = "consumed"]
            /\ accepted' = [accepted EXCEPT ![k] = @ + 1]
            /\ guess' = [guess EXCEPT ![g].step = "accepted"]
       ELSE guess' = [guess EXCEPT ![g] = NoGuess] /\ UNCHANGED << challenge, accepted >>
  /\ UNCHANGED issue

\* The caller of verifyOtpChallenge has the answer.
EndGuess(g) == guess' = [guess EXCEPT ![g] = NoGuess]

=============================================================================
