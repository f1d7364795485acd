---------------------------- MODULE Wallet_proofs ----------------------------
(***************************************************************************)
(* What holds of an account for any number of top-ups, withdrawals and     *)
(* postings, any amounts, any number of retries and of crashes: no money   *)
(* is made or lost, and no withdrawal is both given back and transferred.  *)
(***************************************************************************)
EXTENDS Wallet, FiniteSetLemmas

(* ---- the inductive invariant --------------------------------------------- *)

\* A transaction that missed no write knows the account and the ledger as they
\* are: what it writes back is what the account then holds.
AttemptsFresh ==
  \A t \in TopUps, c \in Callers : attempt[t][c].phase = "open" /\ ~ attempt[t][c].stale =>
    /\ attempt[t][c].base = balance["EMPLOYER"]
    /\ attempt[t][c].seen <=> t \in credited

\* A withdrawal by hand is never handed to the provider.
ByHand(w) ==
  payout[w].mode = "manual" =>
    /\ payout[w].status \notin {"processing", "failed"}
    /\ ~ payout[w].claimed
    /\ \A result \in {"paid", "failed"}, by \in Readers : << w, result, by >> \notin verdicts

\* Claimed for good, and neither at the provider nor on its way there.
NotSent(w) ==
  /\ transfer[w] \in {"none", "refused", "failed"}
  /\ dispatcher[w] # "claimed"
  /\ payout[w].claimed

\* What a dispatcher, the provider and a reader of its results may each be at.
ByProvider(w) ==
  /\ payout[w].mode = "automatic" => payout[w].status \in {"processing", "paid", "failed"}
  /\ dispatcher[w] # "none" \/ transfer[w] # "none" => payout[w].claimed
  /\ dispatcher[w] = "claimed" => transfer[w] = "none"
  /\ dispatcher[w] = "posted" => transfer[w] # "none"
  /\ \A by \in Readers :
       /\ << w, "failed", by >> \in verdicts => NotSent(w)
       /\ << w, "paid", by >> \in verdicts => transfer[w] = "succeeded"
  /\ payout[w].mode = "automatic" /\ payout[w].status = "failed" => NotSent(w)
  /\ payout[w].mode = "automatic" /\ payout[w].status = "paid" => transfer[w] = "succeeded"

Sent == \A w \in Payouts : ByHand(w) /\ ByProvider(w)

\* What each withdrawal and each posting have taken from a wallet since the start.
TakenBy(p, source) ==
  IF p.source # source THEN 0
  ELSE (IF p.status \in {"requested", "approved", "processing", "paid"} THEN p.amount ELSE 0)
       - (IF p.mode = "automatic" THEN p.amount ELSE 0)

Taken(source) == [w \in Payouts |-> TakenBy(payout[w], source)]

Spent(source) ==
  [p \in Postings |-> IF posting[p].phase = "funded" THEN posting[p].draw[source] ELSE 0]

Credit(source) == IF source = "EMPLOYER" THEN Deposit * Cardinality(credited) ELSE 0

Books ==
  \A source \in Wallets :
    balance[source] + Sum(Taken(source), Payouts) + Sum(Spent(source), Postings)
      = BalanceAtStart[source] + Credit(source)

WalletInv == TypeOK /\ AttemptsFresh /\ Sent /\ Books

(* ---- amounts -------------------------------------------------------------- *)

LEMMA ChangesOfOne ==
  ASSUME NEW f \in [Wallets -> Nat], NEW source \in Wallets, NEW amount \in Nat
  PROVE  /\ \A w \in Wallets :
              /\ Plus(f, In(source, amount))[w] = f[w] + (IF w = source THEN amount ELSE 0)
              /\ Minus(f, In(source, amount))[w] = f[w] - (IF w = source THEN amount ELSE 0)
         /\ Plus(f, In(source, amount)) \in [Wallets -> Nat]
         /\ amount <= f[source] => Minus(f, In(source, amount)) \in [Wallets -> Nat]
<1>1. \A w \in Wallets :
        f[w] \in Nat /\ In(source, amount)[w] = IF w = source THEN amount ELSE 0
  BY DEF In, Nothing
<1>2. \A w \in Wallets :
        /\ Plus(f, In(source, amount))[w] = f[w] + (IF w = source THEN amount ELSE 0)
        /\ Minus(f, In(source, amount))[w] = f[w] - (IF w = source THEN amount ELSE 0)
  BY <1>1 DEF Plus, Minus
<1>3. Plus(f, In(source, amount)) \in [Wallets -> Nat]
  BY <1>1 DEF Plus
<1>4. ASSUME amount <= f[source]
      PROVE  Minus(f, In(source, amount)) \in [Wallets -> Nat]
  BY <1>1, <1>4 DEF Minus
<1> QED
  BY <1>2, <1>3, <1>4

LEMMA MissedType ==
  ASSUME TypeOK
  PROVE  Missed(attempt) \in [TopUps -> [Callers -> Attempt]]
<1>1. ASSUME NEW t \in TopUps, NEW c \in Callers
      PROVE  (IF attempt[t][c].phase = "open" THEN [attempt[t][c] EXCEPT !.stale = TRUE]
              ELSE attempt[t][c]) \in Attempt
  <2>1. attempt[t][c] \in Attempt
    BY DEF TypeOK
  <2>2. [attempt[t][c] EXCEPT !.stale = TRUE] \in Attempt
    BY <2>1 DEF Attempt
  <2> QED
    BY <2>1, <2>2
<1> QED
  BY <1>1 DEF Missed

LEMMA NoAttemptType == NoAttempt \in Attempt
BY WalletAssumption DEF NoAttempt, Attempt

\* No transaction that is open has missed no write.
LEMMA MissedNone ==
  ASSUME TypeOK, NEW t \in TopUps, NEW c \in Callers
  PROVE  ~ (Missed(attempt)[t][c].phase = "open" /\ ~ Missed(attempt)[t][c].stale)
<1>1. attempt[t][c] \in Attempt
  BY DEF TypeOK
<1>2. Missed(attempt)[t][c] = IF attempt[t][c].phase = "open"
                              THEN [attempt[t][c] EXCEPT !.stale = TRUE] ELSE attempt[t][c]
  BY DEF Missed
<1>3. CASE attempt[t][c].phase = "open"
  <2>1. [attempt[t][c] EXCEPT !.stale = TRUE].stale = TRUE
    BY <1>1 DEF Attempt
  <2> QED
    BY <1>2, <1>3, <2>1
<1> QED
  BY <1>2, <1>3

LEMMA CommitFresh ==
  ASSUME TypeOK, NEW after, Commit(after)
  PROVE  AttemptsFresh'
BY MissedNone DEF Commit, AttemptsFresh

(* ---- every document stays well formed -------------------------------------- *)

LEMMA InitType == Init => TypeOK
<1> SUFFICES ASSUME Init PROVE TypeOK
  OBVIOUS
<1>2. payout \in [Payouts -> Payout]
  <2>1. NewPayout \in Payout
    BY DEF NewPayout, Payout, PayoutStatus, Wallets
  <2>2. \A source \in Wallets, amount \in Amounts : LegacyPayout(source, amount) \in Payout
    BY WalletAssumption DEF LegacyPayout, Payout, PayoutStatus
  <2> QED
    BY <2>1, <2>2 DEF Init
<1>3. posting \in [Postings -> Posting]
  <2>1. Nothing \in [Wallets -> Nat]
    BY DEF Nothing
  <2> QED
    BY <2>1 DEF Init, Posting
<1>4. checkout \in [TopUps -> [provider : {"paymongo", "xendit"}, paid : BOOLEAN]]
  <2> DEFINE Providers == {"paymongo", "xendit"}
             Fresh == {[provider |-> p, paid |-> FALSE] : p \in Providers}
  <2>1. checkout \in [TopUps -> Fresh]
    BY DEF Init
  <2> HIDE DEF Providers
  <2>2. ASSUME NEW r \in Fresh
        PROVE  r \in [provider : Providers, paid : BOOLEAN]
    <3>1. PICK p \in Providers : r = [provider |-> p, paid |-> FALSE]
      OBVIOUS
    <3> QED
      BY <3>1
  <2> HIDE DEF Fresh
  <2> QED
    BY <2>1, <2>2 DEF Providers
<1>5. /\ attempt \in [TopUps -> [Callers -> Attempt]]
      /\ transfer \in [Payouts -> TransferStatus]
      /\ balance \in [Wallets -> Nat]
      /\ crashes \in 0 .. MaxCrashes
  BY NoAttemptType, WalletAssumption DEF Init, TransferStatus
<1>6. /\ credited \in SUBSET TopUps
      /\ dispatcher \in [Payouts -> {"none", "claimed", "posted"}]
      /\ verdicts \in SUBSET (Payouts \X {"paid", "failed"} \X Readers)
  BY DEF Init
<1> QED
  BY <1>2, <1>3, <1>4, <1>5, <1>6 DEF TypeOK

LEMMA TopUpType ==
  ASSUME TypeOK, NEW t \in TopUps, TopUpStep(t)
  PROVE  TypeOK'
<1>1. CASE PayCheckout(t)
  BY <1>1 DEF PayCheckout, TypeOK, payoutVars
<1>2. ASSUME NEW c \in Callers, NEW a \in Attempt, OnlyAttempt(t, c, a)
      PROVE  TypeOK'
  BY <1>2 DEF OnlyAttempt, TypeOK, topUpVars, payoutVars
<1>3. ASSUME NEW c \in Callers
      PROVE  /\ attempt[t][c] \in Attempt
             /\ balance["EMPLOYER"] \in Nat
             /\ MaxTries \in Nat \ {0}
  BY WalletAssumption DEF TypeOK, NoAttempt, Attempt, Wallets
<1>4. ASSUME NEW c \in Callers, CheckTopUp(t, c) PROVE TypeOK'
  <2>1. [NoAttempt EXCEPT !.phase = "checked"] \in Attempt
    BY NoAttemptType DEF Attempt
  <2> QED
    BY <1>2, <1>4, <2>1 DEF CheckTopUp
<1>5. ASSUME NEW c \in Callers, BeginTopUp(t, c) PROVE TypeOK'
  <2> DEFINE A(seen) == [attempt[t][c] EXCEPT !.phase = "open", !.seen = seen,
                           !.base = balance["EMPLOYER"], !.stale = FALSE]
             a == A(t \in credited)
  <2>1. a \in Attempt
    <3>1. ASSUME NEW seen \in BOOLEAN PROVE A(seen) \in Attempt
      BY <1>3 DEF Attempt
    <3>2. (t \in credited) \in BOOLEAN
      OBVIOUS
    <3> HIDE DEF A
    <3> QED
      BY <3>1, <3>2, Zenon
  <2>2. OnlyAttempt(t, c, a)
    BY <1>5, Zenon DEF BeginTopUp
  <2> HIDE DEF a
  <2> QED
    BY <1>2, <2>1, <2>2
<1>6. ASSUME NEW c \in Callers, SkipTopUp(t, c) PROVE TypeOK'
  BY <1>2, <1>6, NoAttemptType DEF SkipTopUp
<1>7. ASSUME NEW c \in Callers, ConflictTopUp(t, c) PROVE TypeOK'
  <2> DEFINE a == IF attempt[t][c].tries < MaxTries
                  THEN [NoAttempt EXCEPT !.phase = "checked", !.tries = attempt[t][c].tries + 1]
                  ELSE NoAttempt
  <2>1. a \in Attempt
    <3>1. ASSUME attempt[t][c].tries < MaxTries
          PROVE  attempt[t][c].tries + 1 \in 0 .. MaxTries
      BY <1>3, <3>1 DEF Attempt
    <3> QED
      BY <3>1, NoAttemptType DEF Attempt
  <2>2. OnlyAttempt(t, c, a)
    BY <1>7, Zenon DEF ConflictTopUp
  <2> HIDE DEF a
  <2> QED
    BY <1>2, <2>1, <2>2
<1>8. ASSUME NEW c \in Callers, CommitTopUp(t, c) PROVE TypeOK'
  <2>1. attempt' \in [TopUps -> [Callers -> Attempt]]
    BY <1>8, MissedType, NoAttemptType DEF CommitTopUp
  <2>2. balance' \in [Wallets -> Nat]
    <3>1. attempt[t][c].base + Deposit \in Nat
      BY <1>3, WalletAssumption DEF Attempt
    <3> QED
      BY <1>8, <3>1 DEF CommitTopUp, TypeOK
  <2> QED
    BY <1>8, <2>1, <2>2 DEF CommitTopUp, TypeOK, payoutVars
<1> QED
  BY <1>1, <1>4, <1>5, <1>6, <1>7, <1>8 DEF TopUpStep

LEMMA WithdrawalType ==
  ASSUME TypeOK, NEW w \in Payouts, WithdrawalStep(w)
  PROVE  TypeOK'
<1> USE DEF Same, topUpVars, payoutVars
<1>1. payout[w] \in Payout /\ transfer[w] \in TransferStatus
  BY DEF TypeOK
<1>2. /\ payout[w].amount \in Nat /\ payout[w].source \in Wallets
      /\ balance[payout[w].source] \in Nat
  BY <1>1 DEF Payout, TypeOK
<1>3. ASSUME NEW p \in Payout, OnlyPayout(w, p)
      PROVE  TypeOK'
  BY <1>3 DEF OnlyPayout, TypeOK
<1>4. ASSUME NEW after \in [Wallets -> Nat], NEW p \in Payout, Commit(after),
             payout' = [payout EXCEPT ![w] = p],
             verdicts' \in SUBSET verdicts,
             UNCHANGED << transfer, dispatcher, Same >>
      PROVE  TypeOK'
  BY <1>4, MissedType DEF TypeOK, Commit
<1>5. CASE \E source \in Wallets, amount \in Amounts : PreviewWithdrawal(w, source, amount)
  BY <1>1, <1>3, <1>5, WalletAssumption DEF PreviewWithdrawal, Payout, PayoutStatus
<1>6. CASE ConfirmWithdrawal(w)
  <2>1. [payout[w] EXCEPT !.status = "requested"] \in Payout
    BY <1>1 DEF Payout, PayoutStatus
  <2>2. payout' = [payout EXCEPT ![w] = [payout[w] EXCEPT !.status = "requested"]]
    BY <1>6 DEF ConfirmWithdrawal
  <2>3. Minus(balance, In(payout[w].source, payout[w].amount)) \in [Wallets -> Nat]
    BY <1>2, <1>6, ChangesOfOne DEF ConfirmWithdrawal, TypeOK
  <2> QED
    BY <1>4, <1>6, <2>1, <2>2, <2>3 DEF ConfirmWithdrawal
<1>7. ASSUME NEW status \in PayoutStatus, EndWithRefund(w, status), verdicts' \in SUBSET verdicts
      PROVE  TypeOK'
  <2>1. [payout[w] EXCEPT !.status = status] \in Payout
    BY <1>1 DEF Payout
  <2>2. payout' = [payout EXCEPT ![w] = [payout[w] EXCEPT !.status = status]]
    BY <1>7 DEF EndWithRefund
  <2>3. Plus(balance, In(payout[w].source, payout[w].amount)) \in [Wallets -> Nat]
    BY <1>2, ChangesOfOne DEF TypeOK
  <2> QED
    BY <1>4, <1>7, <2>1, <2>2, <2>3 DEF EndWithRefund
<1>8. CASE CancelPayoutRequest(w)
  BY <1>7, <1>8 DEF CancelPayoutRequest, PayoutStatus
<1>9. CASE RejectPayout(w)
  BY <1>7, <1>9 DEF RejectPayout, PayoutStatus
<1>10. CASE ApprovePayout(w)
  BY <1>1, <1>3, <1>10 DEF ApprovePayout, Payout, PayoutStatus
<1>11. CASE RecordPayoutPaid(w)
  BY <1>1, <1>3, <1>11 DEF RecordPayoutPaid, Payout, PayoutStatus
<1>12. CASE ClaimDispatch(w)
  BY <1>1, <1>12 DEF ClaimDispatch, TypeOK, Payout
<1>13. CASE AbandonDispatch(w) \/ LearnRefusal(w)
  BY <1>13 DEF AbandonDispatch, LearnRefusal, TypeOK, Readers
<1>14. CASE SubmitTransfer(w) \/ LeaveDispatch(w)
  BY <1>1, <1>14 DEF SubmitTransfer, LeaveDispatch, Dispatch, TypeOK, TransferStatus
<1>15. CASE \E answer \in {"refused", "pending"} : ProviderAnswers(w, answer)
  BY <1>15 DEF ProviderAnswers, Dispatch, TypeOK, TransferStatus
<1>16. CASE \E result \in {"succeeded", "failed"} : ProviderSettles(w, result)
  BY <1>16 DEF ProviderSettles, Dispatch, TypeOK, TransferStatus
<1>17. CASE \E by \in Readers \ {"dispatcher"} : ReconcileWithdrawal(w, by)
  BY <1>17 DEF ReconcileWithdrawal, TypeOK
<1>18. CASE \E result \in {"paid", "failed"}, by \in Readers : FinalizeWithdrawal(w, result, by)
  <2>1. PICK result \in {"paid", "failed"}, by \in Readers : FinalizeWithdrawal(w, result, by)
    BY <1>18
  <2>2. verdicts' \in SUBSET verdicts /\ result \in PayoutStatus
    BY <2>1 DEF FinalizeWithdrawal, PayoutStatus
  <2>3. CASE EndWithRefund(w, result)
    BY <1>7, <2>2, <2>3
  <2>4. CASE ~ EndWithRefund(w, result)
    <3>1. /\ [payout[w] EXCEPT !.status = result] \in Payout
          /\ [payout[w] EXCEPT !.status = payout[w].status] \in Payout
      BY <1>1, <2>2 DEF Payout
    <3>2. payout' \in [Payouts -> Payout]
      BY <2>1, <2>4, <3>1 DEF FinalizeWithdrawal, TypeOK
    <3> QED
      BY <2>1, <2>2, <2>4, <3>2 DEF FinalizeWithdrawal, TypeOK
  <2> QED
    BY <2>3, <2>4
<1> QED
  BY <1>5, <1>6, <1>8, <1>9, <1>10, <1>11, <1>12, <1>13, <1>14, <1>15, <1>16, <1>17, <1>18
  DEF WithdrawalStep

LEMMA PostingType ==
  ASSUME TypeOK, NEW p \in Postings, CheckPosting(p) \/ FundPosting(p) \/ RefusePosting(p)
  PROVE  TypeOK'
<1> USE DEF topUpVars, payoutVars
<1>1. /\ posting[p] \in Posting
      /\ balance["EMPLOYER"] \in Nat /\ balance["WORKER"] \in Nat
      /\ Cost \in Nat
  BY WalletAssumption DEF TypeOK, Wallets
<1>2. CASE CheckPosting(p)
  <2> DEFINE fromEmployer == Smaller(balance["EMPLOYER"], Cost)
  <2>1. fromEmployer \in Nat /\ Cost - fromEmployer \in Nat
    BY <1>1 DEF Smaller
  <2> HIDE DEF fromEmployer
  <2>2. Plus(In("EMPLOYER", fromEmployer), In("WORKER", Cost - fromEmployer)) \in [Wallets -> Nat]
    BY <2>1 DEF Plus, In, Nothing, Wallets
  <2> QED
    BY <1>2, <2>2 DEF CheckPosting, TypeOK, Posting, fromEmployer
<1>3. CASE FundPosting(p)
  <2>1. Minus(balance, posting[p].draw) \in [Wallets -> Nat]
    BY <1>1, <1>3 DEF FundPosting, Minus, TypeOK, Posting
  <2>2. posting' \in [Postings -> Posting]
    BY <1>1, <1>3 DEF FundPosting, TypeOK, Posting
  <2> QED
    BY <1>3, <2>1, <2>2, MissedType DEF FundPosting, Commit, TypeOK
<1>4. CASE RefusePosting(p)
  BY <1>1, <1>4 DEF RefusePosting, TypeOK, Posting
<1> QED
  BY <1>2, <1>3, <1>4

LEMMA CrashType ==
  ASSUME TypeOK, Crash
  PROVE  TypeOK'
<1>2. posting' \in [Postings -> Posting]
  BY DEF Crash, TypeOK, Posting, Nothing, Wallets
<1> QED
  BY <1>2, NoAttemptType, WalletAssumption DEF Crash, TypeOK, topUpVars

LEMMA NextType == TypeOK /\ [Next]_vars => TypeOK'
<1> SUFFICES ASSUME TypeOK, [Next]_vars PROVE TypeOK'
  OBVIOUS
<1>1. CASE UNCHANGED vars
  BY <1>1 DEF vars, TypeOK
<1> QED
  BY <1>1, TopUpType, WithdrawalType, PostingType, CrashType DEF Next

(* ---- open transactions ------------------------------------------------------ *)

LEMMA FreshKept == TypeOK /\ AttemptsFresh /\ [Next]_vars => AttemptsFresh'
<1> SUFFICES ASSUME TypeOK, AttemptsFresh, [Next]_vars
             PROVE  AttemptsFresh'
  OBVIOUS
<1>1. ASSUME UNCHANGED << balance, credited, attempt >>
      PROVE  AttemptsFresh'
  BY <1>1 DEF AttemptsFresh
<1>2. ASSUME NEW t \in TopUps, TopUpStep(t)
      PROVE  AttemptsFresh'
  <2>1. ASSUME NEW c \in Callers, NEW a, OnlyAttempt(t, c, a),
               a.phase = "open" /\ ~ a.stale =>
                 a.base = balance["EMPLOYER"] /\ (a.seen <=> t \in credited)
        PROVE  AttemptsFresh'
    BY <2>1 DEF OnlyAttempt, AttemptsFresh, TypeOK, topUpVars
  <2>2. NoAttempt.phase # "open"
    BY DEF NoAttempt
  <2>3. CASE PayCheckout(t)
    BY <1>1, <2>3 DEF PayCheckout
  <2>4. ASSUME NEW c \in Callers, CheckTopUp(t, c) PROVE AttemptsFresh'
    <3>1. [NoAttempt EXCEPT !.phase = "checked"].phase = "checked"
      BY DEF NoAttempt
    <3> QED
      BY <2>1, <2>4, <3>1 DEF CheckTopUp
  <2>5. ASSUME NEW c \in Callers, BeginTopUp(t, c) PROVE AttemptsFresh'
    <3> DEFINE a == [attempt[t][c] EXCEPT !.phase = "open", !.seen = t \in credited,
                       !.base = balance["EMPLOYER"], !.stale = FALSE]
    <3>1. OnlyAttempt(t, c, a)
      BY <2>5, Zenon DEF BeginTopUp
    <3>2. attempt[t][c] \in Attempt
      BY DEF TypeOK
    <3>3. a.base = balance["EMPLOYER"] /\ (a.seen <=> t \in credited)
      BY <3>2 DEF Attempt
    <3> HIDE DEF a
    <3> QED
      BY <2>1, <3>1, <3>3
  <2>6. ASSUME NEW c \in Callers, SkipTopUp(t, c) PROVE AttemptsFresh'
    BY <2>1, <2>2, <2>6 DEF SkipTopUp
  <2>7. ASSUME NEW c \in Callers, ConflictTopUp(t, c) PROVE AttemptsFresh'
    <3> DEFINE a == IF attempt[t][c].tries < MaxTries
                    THEN [NoAttempt EXCEPT !.phase = "checked", !.tries = attempt[t][c].tries + 1]
                    ELSE NoAttempt
    <3>1. OnlyAttempt(t, c, a)
      BY <2>7, Zenon DEF ConflictTopUp
    <3>2. a.phase # "open"
      BY DEF NoAttempt
    <3> HIDE DEF a
    <3> QED
      BY <2>1, <3>1, <3>2
  <2>8. ASSUME NEW c \in Callers, CommitTopUp(t, c) PROVE AttemptsFresh'
    <3>1. \A u \in TopUps, d \in Callers :
            attempt'[u][d] = IF u = t /\ d = c THEN NoAttempt ELSE Missed(attempt)[u][d]
      BY <2>8, MissedType DEF CommitTopUp
    <3>2. \A u \in TopUps, d \in Callers : ~ (attempt'[u][d].phase = "open" /\ ~ attempt'[u][d].stale)
      BY <2>2, <3>1, MissedNone
    <3> QED
      BY <3>2 DEF AttemptsFresh
  <2> QED
    BY <1>2, <2>3, <2>4, <2>5, <2>6, <2>7, <2>8 DEF TopUpStep
<1>3. ASSUME NEW w \in Payouts, WithdrawalStep(w)
      PROVE  AttemptsFresh'
  <2>1. \/ UNCHANGED << balance, credited, attempt >>
        \/ \E after : Commit(after)
    BY <1>3
    DEF WithdrawalStep, PreviewWithdrawal, ConfirmWithdrawal, CancelPayoutRequest, ApprovePayout,
        RejectPayout, RecordPayoutPaid, ClaimDispatch, AbandonDispatch, SubmitTransfer,
        ProviderAnswers, ProviderSettles, LearnRefusal, LeaveDispatch, ReconcileWithdrawal,
        FinalizeWithdrawal, EndWithRefund, OnlyPayout, Dispatch, Same, topUpVars
  <2> QED
    BY <1>1, <2>1, CommitFresh
<1>4. ASSUME NEW p \in Postings, CheckPosting(p) \/ FundPosting(p) \/ RefusePosting(p)
      PROVE  AttemptsFresh'
  <2>1. \/ UNCHANGED << balance, credited, attempt >>
        \/ \E after : Commit(after)
    BY <1>4 DEF CheckPosting, FundPosting, RefusePosting, topUpVars
  <2> QED
    BY <1>1, <2>1, CommitFresh
<1>5. CASE Crash
  BY <1>5 DEF Crash, AttemptsFresh, NoAttempt
<1>6. CASE UNCHANGED vars
  BY <1>1, <1>6 DEF vars
<1> QED
  BY <1>2, <1>3, <1>4, <1>5, <1>6 DEF Next

(* ---- the provider ------------------------------------------------------------ *)

\* A step that concerns one withdrawal leaves the others as they were.
LEMMA OthersSent ==
  ASSUME TypeOK, Sent, NEW w \in Payouts,
         \A v \in Payouts \ {w} :
           /\ payout'[v] = payout[v] /\ transfer'[v] = transfer[v]
           /\ dispatcher'[v] = dispatcher[v],
         \A verdict \in verdicts' \ verdicts : verdict[1] = w,
         (ByHand(w) /\ ByProvider(w))'
  PROVE  Sent'
<1>1. ASSUME NEW v \in Payouts \ {w}
      PROVE  (ByHand(v) /\ ByProvider(v))'
  <2>1. \A result, by : << v, result, by >> \in verdicts' => << v, result, by >> \in verdicts
    OBVIOUS
  <2> QED
    BY <2>1 DEF Sent, ByHand, ByProvider, NotSent
<1> QED
  BY <1>1 DEF Sent

LEMMA SentKept ==
  ASSUME TypeOK, Sent, NEW w \in Payouts, WithdrawalStep(w)
  PROVE  Sent'
<1> USE DEF Same
<1> DEFINE q == payout[w]
<1>1. /\ q \in Payout /\ transfer[w] \in TransferStatus
      /\ dispatcher[w] \in {"none", "claimed", "posted"}
      /\ ByHand(w) /\ ByProvider(w)
  BY DEF TypeOK, Sent
<1>2. /\ \A v \in Payouts \ {w} : /\ payout'[v] = payout[v] /\ transfer'[v] = transfer[v]
                                   /\ dispatcher'[v] = dispatcher[v]
      /\ \A verdict \in verdicts' \ verdicts : verdict[1] = w
  <2>1. \E r, by : verdicts' \subseteq verdicts \cup {<< w, r, by >>}
    BY DEF WithdrawalStep, PreviewWithdrawal, ConfirmWithdrawal, CancelPayoutRequest, ApprovePayout,
           RejectPayout, RecordPayoutPaid, ClaimDispatch, AbandonDispatch, SubmitTransfer,
           ProviderAnswers, ProviderSettles, LearnRefusal, LeaveDispatch, ReconcileWithdrawal,
           FinalizeWithdrawal, EndWithRefund, OnlyPayout, Dispatch
  <2>2. \/ payout' = payout
        \/ \E p : payout' = [payout EXCEPT ![w] = p]
    BY DEF WithdrawalStep, PreviewWithdrawal, ConfirmWithdrawal, CancelPayoutRequest, ApprovePayout,
           RejectPayout, RecordPayoutPaid, ClaimDispatch, AbandonDispatch, SubmitTransfer,
           ProviderAnswers, ProviderSettles, LearnRefusal, LeaveDispatch, ReconcileWithdrawal,
           FinalizeWithdrawal, EndWithRefund, OnlyPayout, Dispatch
  <2>3. /\ transfer' = transfer \/ \E sent : transfer' = [transfer EXCEPT ![w] = sent]
        /\ dispatcher' = dispatcher \/ \E phase : dispatcher' = [dispatcher EXCEPT ![w] = phase]
    BY DEF WithdrawalStep, PreviewWithdrawal, ConfirmWithdrawal, CancelPayoutRequest, ApprovePayout,
           RejectPayout, RecordPayoutPaid, ClaimDispatch, AbandonDispatch, SubmitTransfer,
           ProviderAnswers, ProviderSettles, LearnRefusal, LeaveDispatch, ReconcileWithdrawal,
           FinalizeWithdrawal, EndWithRefund, OnlyPayout, Dispatch
  <2> QED
    BY <2>1, <2>2, <2>3 DEF TypeOK
<1>3. SUFFICES (ByHand(w) /\ ByProvider(w))'
  BY <1>2, OthersSent
<1>4. ASSUME q.mode = "manual", NEW status \in PayoutStatus \ {"processing", "failed"},
             payout'[w].status = status, payout'[w].mode = q.mode, payout'[w].claimed = q.claimed,
             UNCHANGED << transfer, dispatcher, verdicts >>
      PROVE  (ByHand(w) /\ ByProvider(w))'
  BY <1>1, <1>4 DEF ByHand, ByProvider, NotSent, Payout
<1>5. CASE \E source \in Wallets, amount \in Amounts : PreviewWithdrawal(w, source, amount)
  BY <1>1, <1>4, <1>5 DEF PreviewWithdrawal, OnlyPayout, ByProvider, TypeOK, Payout, PayoutStatus
<1>6. CASE ConfirmWithdrawal(w)
  BY <1>1, <1>4, <1>6 DEF ConfirmWithdrawal, ByProvider, TypeOK, Payout, PayoutStatus
<1>7. CASE CancelPayoutRequest(w) \/ RejectPayout(w)
  BY <1>1, <1>4, <1>7 DEF CancelPayoutRequest, RejectPayout, EndWithRefund, TypeOK, Payout, PayoutStatus
<1>8. CASE ApprovePayout(w) \/ RecordPayoutPaid(w)
  BY <1>1, <1>4, <1>8 DEF ApprovePayout, RecordPayoutPaid, OnlyPayout, TypeOK, Payout, PayoutStatus
<1>9. CASE ClaimDispatch(w)
  BY <1>1, <1>9 DEF ClaimDispatch, Processing, ByHand, ByProvider, NotSent, TypeOK, Payout
<1>10. CASE AbandonDispatch(w)
  <2>1. \A result \in {"paid", "failed"}, by \in Readers :
          << w, result, by >> \in verdicts' => << w, result, by >> \in verdicts \/ result = "failed"
    BY <1>10 DEF AbandonDispatch
  <2> QED
    BY <1>1, <1>10, <2>1 DEF AbandonDispatch, ByHand, ByProvider, NotSent, TypeOK, Payout
<1>11. CASE LearnRefusal(w)
  <2>1. \A result \in {"paid", "failed"}, by \in Readers :
          << w, result, by >> \in verdicts' => << w, result, by >> \in verdicts \/ result = "failed"
    BY <1>11 DEF LearnRefusal
  <2> QED
    BY <1>1, <1>11, <2>1 DEF LearnRefusal, ByHand, ByProvider, NotSent, TypeOK, Payout
<1>12. CASE SubmitTransfer(w)
  BY <1>1, <1>12 DEF SubmitTransfer, Dispatch, ByHand, ByProvider, NotSent, TypeOK, Payout
<1>13. CASE LeaveDispatch(w)
  BY <1>1, <1>13 DEF LeaveDispatch, Dispatch, ByHand, ByProvider, NotSent, TypeOK, Payout
<1>14. CASE \E answer \in {"refused", "pending"} : ProviderAnswers(w, answer)
  BY <1>1, <1>14 DEF ProviderAnswers, Dispatch, ByHand, ByProvider, NotSent, TypeOK, Payout
<1>15. CASE \E result \in {"succeeded", "failed"} : ProviderSettles(w, result)
  BY <1>1, <1>15 DEF ProviderSettles, Dispatch, ByHand, ByProvider, NotSent, TypeOK, Payout
<1>16. CASE \E by \in Readers \ {"dispatcher"} : ReconcileWithdrawal(w, by)
  BY <1>1, <1>16 DEF ReconcileWithdrawal, Processing, ByHand, ByProvider, NotSent, TypeOK, Payout
<1>17. ASSUME NEW result \in {"paid", "failed"}, NEW by \in Readers, FinalizeWithdrawal(w, result, by)
       PROVE  (ByHand(w) /\ ByProvider(w))'
  <2>1. /\ << w, result, by >> \in verdicts
        /\ verdicts' \subseteq verdicts
        /\ UNCHANGED << transfer, dispatcher >>
        /\ payout' = [payout EXCEPT ![w].status = IF Processing(w) THEN result ELSE @]
    BY <1>17 DEF FinalizeWithdrawal, EndWithRefund
  <2>2. /\ payout'[w].mode = q.mode /\ payout'[w].claimed = q.claimed
        /\ payout'[w].status = IF Processing(w) THEN result ELSE q.status
    BY <1>1, <2>1 DEF TypeOK, Payout
  <2>3. q.mode = "automatic"
    BY <1>1, <2>1 DEF ByHand, Payout
  <2>4. result = "failed" => NotSent(w)
    BY <1>1, <2>1 DEF ByProvider
  <2>5. result = "paid" => transfer[w] = "succeeded"
    BY <1>1, <2>1 DEF ByProvider
  <2> HIDE DEF q
  <2> QED
    BY <1>1, <2>1, <2>2, <2>3, <2>4, <2>5 DEF ByHand, ByProvider, NotSent, q
<1> QED
  BY <1>5, <1>6, <1>7, <1>8, <1>9, <1>10, <1>11, <1>12, <1>13, <1>14, <1>15, <1>16, <1>17
  DEF WithdrawalStep

LEMMA SentAlways == TypeOK /\ Sent /\ [Next]_vars => Sent'
<1> SUFFICES ASSUME TypeOK, Sent, [Next]_vars
             PROVE  Sent'
  OBVIOUS
<1>1. ASSUME UNCHANGED << payout, transfer, dispatcher, verdicts >>
      PROVE  Sent'
  BY <1>1 DEF Sent, ByHand, ByProvider, NotSent
<1>2. ASSUME NEW t \in TopUps, TopUpStep(t) PROVE Sent'
  BY <1>1, <1>2
  DEF TopUpStep, PayCheckout, CheckTopUp, BeginTopUp, SkipTopUp, CommitTopUp, ConflictTopUp,
      OnlyAttempt, payoutVars
<1>3. ASSUME NEW p \in Postings, CheckPosting(p) \/ FundPosting(p) \/ RefusePosting(p) PROVE Sent'
  BY <1>1, <1>3 DEF CheckPosting, FundPosting, RefusePosting, payoutVars
<1>4. CASE Crash
  BY <1>4 DEF Crash, Sent, ByHand, ByProvider, NotSent, TypeOK
<1>5. CASE UNCHANGED vars
  BY <1>1, <1>5 DEF vars
<1> QED
  BY <1>2, <1>3, <1>4, <1>5, SentKept DEF Next

(* ---- the books ---------------------------------------------------------------- *)

LEMMA TermsType ==
  ASSUME TypeOK, NEW source \in Wallets
  PROVE  /\ \A w \in Payouts : Taken(source)[w] \in Int
         /\ \A p \in Postings : Spent(source)[p] \in Nat
         /\ Sum(Taken(source), Payouts) \in Int
         /\ Sum(Spent(source), Postings) \in Int
         /\ Credit(source) \in Nat
         /\ balance[source] \in Nat
<1>1. \A w \in Payouts : payout[w] \in Payout /\ payout[w].amount \in Nat
  BY DEF TypeOK, Payout
<1>2. \A w \in Payouts : Taken(source)[w] \in Int
  BY <1>1 DEF Taken, TakenBy
<1>3. \A p \in Postings : posting[p] \in Posting /\ posting[p].draw[source] \in Nat
  BY DEF TypeOK, Posting
<1>4. \A p \in Postings : Spent(source)[p] \in Nat
  BY <1>3 DEF Spent
<1>5. Sum(Taken(source), Payouts) \in Int /\ Sum(Spent(source), Postings) \in Int
  BY <1>2, <1>4, SumIsNumber, WalletAssumption
<1>6. Cardinality(credited) \in Nat
  BY FS_Subset, FS_CardinalityType, WalletAssumption DEF TypeOK
<1>7. Credit(source) \in Nat
  BY <1>6, WalletAssumption DEF Credit
<1> QED
  BY <1>2, <1>4, <1>5, <1>7 DEF TypeOK

\* What is taken from a wallet depends on the withdrawals and their postings only.
LEMMA SameTaken ==
  ASSUME NEW source \in Wallets, NEW w \in Payouts, payout'[w] = payout[w]
  PROVE  Taken(source)'[w] = Taken(source)[w]
BY DEF Taken

LEMMA SameTerms ==
  ASSUME NEW source \in Wallets
  PROVE  /\ UNCHANGED payout => Taken(source)' = Taken(source)
         /\ UNCHANGED posting => Spent(source)' = Spent(source)
         /\ UNCHANGED credited => Credit(source)' = Credit(source)
BY DEF Taken, Spent, Credit

\* A step of one withdrawal balances when its wallet does.
LEMMA OnePayout ==
  ASSUME TypeOK, TypeOK', Books, NEW w \in Payouts,
         UNCHANGED << credited, posting >>,
         \A v \in Payouts \ {w} : payout'[v] = payout[v],
         \A source \in Wallets :
           balance'[source] + Taken(source)'[w] = balance[source] + Taken(source)[w]
  PROVE  Books'
<1> SUFFICES ASSUME NEW source \in Wallets
             PROVE  balance'[source] + Sum(Taken(source)', Payouts) + Sum(Spent(source)', Postings)
                      = BalanceAtStart[source] + Credit(source)'
  BY DEF Books
<1> DEFINE f == Taken(source)
           g == Taken(source)'
<1>1. /\ \A v \in Payouts : f[v] \in Int /\ g[v] \in Int
      /\ \A v \in Payouts \ {w} : g[v] = f[v]
      /\ IsFiniteSet(Payouts)
  <2>1. \A v \in Payouts : f[v] \in Int
    BY TermsType
  <2>2. \A v \in Payouts : g[v] \in Int
    <3>1. \A v \in Payouts : payout'[v] \in Payout /\ payout'[v].amount \in Nat
      BY DEF TypeOK, Payout
    <3> QED
      BY <3>1 DEF Taken, TakenBy
  <2>3. \A v \in Payouts \ {w} : g[v] = f[v]
    BY SameTaken
  <2> QED
    BY <2>1, <2>2, <2>3, WalletAssumption
<1>2. balance'[source] + g[w] = balance[source] + f[w]
  OBVIOUS
<1>3. Spent(source)' = Spent(source) /\ Credit(source)' = Credit(source)
  BY SameTerms
<1>4. /\ balance[source] \in Nat /\ balance'[source] \in Nat /\ BalanceAtStart[source] \in Nat
      /\ Sum(f, Payouts) \in Int /\ Sum(Spent(source), Postings) \in Int /\ Credit(source) \in Nat
  BY TermsType, WalletAssumption DEF TypeOK
<1>5. balance[source] + Sum(f, Payouts) + Sum(Spent(source), Postings)
        = BalanceAtStart[source] + Credit(source)
  BY DEF Books
<1> HIDE DEF f, g
<1>6. Sum(g, Payouts) = Sum(f, Payouts) - f[w] + g[w]
  BY ONLY <1>1, SumChange, w \in Payouts
<1>7. balance'[source] + Sum(g, Payouts) + Sum(Spent(source), Postings)
        = BalanceAtStart[source] + Credit(source)
  BY <1>1, <1>2, <1>4, <1>5, <1>6
<1> QED
  BY <1>3, <1>7 DEF g

\* ... and so does a posting that is paid for.
LEMMA FundBalances ==
  ASSUME TypeOK, TypeOK', Books, NEW p \in Postings, FundPosting(p)
  PROVE  Books'
<1> SUFFICES ASSUME NEW source \in Wallets
             PROVE  balance'[source] + Sum(Taken(source)', Payouts) + Sum(Spent(source)', Postings)
                      = BalanceAtStart[source] + Credit(source)'
  BY DEF Books
<1> DEFINE f == Spent(source)
           g == Spent(source)'
           share == posting[p].draw[source]
<1>1. posting[p] \in Posting /\ share \in Nat
  BY DEF TypeOK, Posting
<1>2. posting' = [posting EXCEPT ![p].phase = "funded"]
  BY DEF FundPosting
<1>3. /\ IsFiniteSet(Postings)
      /\ \A v \in Postings : f[v] \in Int
      /\ \A v \in Postings \ {p} : g[v] = f[v]
      /\ g[p] = f[p] + share
  <2>1. \A v \in Postings : f[v] \in Int
    BY TermsType
  <2>2. \A v \in Postings \ {p} : g[v] = f[v]
    BY <1>2 DEF Spent, TypeOK
  <2>3. f[p] = 0
    BY DEF Spent, FundPosting
  <2>4. posting'[p].phase = "funded" /\ posting'[p].draw = posting[p].draw
    BY <1>1, <1>2 DEF TypeOK, Posting
  <2>5. g[p] = share
    BY <2>4 DEF Spent
  <2> QED
    BY <1>1, <2>1, <2>2, <2>3, <2>5, WalletAssumption
<1>4. balance'[source] = balance[source] - share
  BY DEF FundPosting, Commit, Minus
<1>5. Taken(source)' = Taken(source) /\ Credit(source)' = Credit(source)
  BY SameTerms DEF FundPosting, topUpVars, payoutVars
<1>6. /\ balance[source] \in Nat /\ BalanceAtStart[source] \in Nat
      /\ Sum(f, Postings) \in Int /\ Sum(Taken(source), Payouts) \in Int /\ Credit(source) \in Nat
  BY TermsType, WalletAssumption
<1>7. balance[source] + Sum(Taken(source), Payouts) + Sum(f, Postings)
        = BalanceAtStart[source] + Credit(source)
  BY DEF Books
<1> HIDE DEF f, g, share
<1>8. Sum(g, Postings) = Sum(f, Postings) + share
  BY ONLY <1>1, <1>3, SumRaise, p \in Postings
<1>9. balance'[source] + Sum(Taken(source), Payouts) + Sum(g, Postings)
        = BalanceAtStart[source] + Credit(source)
  BY <1>1, <1>4, <1>6, <1>7, <1>8
<1> QED
  BY <1>5, <1>9 DEF g

\* A top-up is credited by a transaction that knows the balance and the ledger.
LEMMA CreditBalances ==
  ASSUME TypeOK, AttemptsFresh, Books, NEW t \in TopUps, NEW c \in Callers, CommitTopUp(t, c)
  PROVE  Books'
<1> SUFFICES ASSUME NEW source \in Wallets
             PROVE  balance'[source] + Sum(Taken(source)', Payouts) + Sum(Spent(source)', Postings)
                      = BalanceAtStart[source] + Credit(source)'
  BY DEF Books
<1>1. t \notin credited /\ attempt[t][c].base = balance["EMPLOYER"]
  BY DEF CommitTopUp, AttemptsFresh
<1>2. balance'[source] = balance[source] + (IF source = "EMPLOYER" THEN Deposit ELSE 0)
  <2>1. balance' = [balance EXCEPT !["EMPLOYER"] = balance["EMPLOYER"] + Deposit]
    BY <1>1 DEF CommitTopUp
  <2>2. balance[source] \in Nat
    BY DEF TypeOK
  <2> QED
    BY <2>1, <2>2 DEF TypeOK
<1>3. Credit(source)' = Credit(source) + (IF source = "EMPLOYER" THEN Deposit ELSE 0)
  <2>1. IsFiniteSet(credited) /\ Cardinality(credited) \in Nat
    BY FS_Subset, FS_CardinalityType, WalletAssumption DEF TypeOK
  <2>2. Cardinality(credited') = Cardinality(credited) + 1
    BY <1>1, <2>1, FS_AddElement DEF CommitTopUp
  <2>3. \A n \in Nat : Deposit * (n + 1) = Deposit * n + Deposit
    BY WalletAssumption
  <2> QED
    BY <2>1, <2>2, <2>3 DEF Credit
<1>4. Taken(source)' = Taken(source) /\ Spent(source)' = Spent(source)
  BY SameTerms DEF CommitTopUp, payoutVars
<1>5. /\ balance[source] \in Nat /\ BalanceAtStart[source] \in Nat /\ Deposit \in Nat
      /\ Sum(Taken(source), Payouts) \in Int /\ Sum(Spent(source), Postings) \in Int
      /\ Credit(source) \in Nat
  BY TermsType, WalletAssumption
<1>6. balance[source] + Sum(Taken(source), Payouts) + Sum(Spent(source), Postings)
        = BalanceAtStart[source] + Credit(source)
  BY DEF Books
<1> QED
  BY <1>2, <1>3, <1>4, <1>5, <1>6

LEMMA WithdrawalBalances ==
  ASSUME TypeOK, TypeOK', Sent, Books, NEW w \in Payouts, WithdrawalStep(w)
  PROVE  Books'
<1> USE DEF Same, topUpVars
<1> DEFINE q == payout[w]
<1>1. /\ q \in Payout /\ q.amount \in Nat /\ q.source \in Wallets
      /\ ByHand(w) /\ ByProvider(w)
  BY DEF TypeOK, Payout, Sent
<1>2. \A source \in Wallets : balance[source] \in Nat
  BY DEF TypeOK
<1>3. ASSUME UNCHANGED << balance, credited, posting, payout >>
      PROVE  Books'
  BY <1>3, SameTerms DEF Books
<1>4. ASSUME NEW p \in Payout, payout' = [payout EXCEPT ![w] = p],
             UNCHANGED << credited, posting >>,
             \A source \in Wallets :
               balance'[source] + TakenBy(p, source) = balance[source] + TakenBy(q, source)
      PROVE  Books'
  <2>1. payout'[w] = p /\ \A v \in Payouts \ {w} : payout'[v] = payout[v]
    BY <1>4 DEF TypeOK
  <2>2. \A source \in Wallets :
          Taken(source)[w] = TakenBy(q, source) /\ Taken(source)'[w] = TakenBy(p, source)
    BY <2>1 DEF Taken
  <2> HIDE DEF q
  <2> QED
    BY <1>4, <2>1, <2>2, OnePayout
<1>5. ASSUME NEW p \in Payout, payout' = [payout EXCEPT ![w] = p],
             UNCHANGED << balance, credited, posting >>,
             \A source \in Wallets : TakenBy(p, source) = TakenBy(q, source)
      PROVE  Books'
  <2> HIDE DEF q
  <2> QED
    BY <1>4, <1>5
<1>6. ASSUME NEW source \in Wallets, NEW amount \in Amounts, PreviewWithdrawal(w, source, amount)
      PROVE  Books'
  <2> DEFINE p == [q EXCEPT !.status = "previewed", !.source = source, !.amount = amount]
  <2>1. /\ p \in Payout /\ p.status = "previewed" /\ p.mode = q.mode
        /\ q.status = "none" /\ q.mode # "automatic"
    BY <1>1, <1>6, WalletAssumption DEF PreviewWithdrawal, ByProvider, Payout, PayoutStatus
  <2>2. payout' = [payout EXCEPT ![w] = p] /\ UNCHANGED << balance, credited, posting >>
    BY <1>6 DEF PreviewWithdrawal, OnlyPayout
  <2> HIDE DEF p, q
  <2>3. \A s \in Wallets : TakenBy(p, s) = 0 /\ TakenBy(q, s) = 0
    BY <2>1 DEF TakenBy
  <2> QED
    BY <1>5, <2>1, <2>2, <2>3
<1>7. ASSUME NEW status \in PayoutStatus
      PROVE  LET p == [q EXCEPT !.status = status]
             IN  /\ p \in Payout /\ p.status = status /\ p.mode = q.mode
                 /\ p.amount = q.amount /\ p.source = q.source
  BY <1>1 DEF Payout
<1>8. CASE ConfirmWithdrawal(w)
  <2> DEFINE p == [q EXCEPT !.status = "requested"]
  <2>1. /\ p \in Payout /\ p.status = "requested" /\ p.mode = q.mode
        /\ p.amount = q.amount /\ p.source = q.source
    BY <1>7 DEF PayoutStatus
  <2>2. /\ q.status = "previewed" /\ q.mode # "automatic" /\ q.amount <= balance[q.source]
        /\ balance' = Minus(balance, In(q.source, q.amount))
        /\ payout' = [payout EXCEPT ![w] = p] /\ UNCHANGED << credited, posting >>
    BY <1>1, <1>8 DEF ConfirmWithdrawal, Commit, ByProvider
  <2> HIDE DEF p, q
  <2>3. \A s \in Wallets : TakenBy(q, s) = 0 /\ TakenBy(p, s) = IF s = q.source THEN q.amount ELSE 0
    BY <1>1, <2>1, <2>2 DEF TakenBy
  <2>4. balance \in [Wallets -> Nat]
    BY DEF TypeOK
  <2>5. \A s \in Wallets : balance'[s] = balance[s] - (IF s = q.source THEN q.amount ELSE 0)
    <3>1. \A s \in Wallets : Minus(balance, In(q.source, q.amount))[s]
                              = balance[s] - (IF s = q.source THEN q.amount ELSE 0)
      <4>1. q.source \in Wallets /\ q.amount \in Nat
        BY <1>1
      <4>2. PICK source \in Wallets, amount \in Nat : source = q.source /\ amount = q.amount
        BY <4>1
      <4>3. \A s \in Wallets : Minus(balance, In(source, amount))[s]
                                = balance[s] - (IF s = source THEN amount ELSE 0)
        BY ONLY <2>4, ChangesOfOne
      <4> QED
        BY <4>2, <4>3, Zenon
    <3> QED
      BY <2>2, <3>1, Zenon
  <2>6. \A s \in Wallets : balance'[s] + TakenBy(p, s) = balance[s] + TakenBy(q, s)
    BY <1>1, <1>2, <2>3, <2>5
  <2> QED
    BY <1>4, <2>1, <2>2, <2>6
<1>9. ASSUME NEW status \in {"cancelled", "rejected", "failed"}, EndWithRefund(w, status),
             \/ q.mode = "manual" /\ q.status \in {"requested", "approved"}
             \/ q.mode = "automatic" /\ q.status = "processing"
      PROVE  Books'
  <2> DEFINE p == [q EXCEPT !.status = status]
  <2>1. /\ p \in Payout /\ p.status = status /\ p.mode = q.mode
        /\ p.amount = q.amount /\ p.source = q.source
    BY <1>7 DEF PayoutStatus
  <2>2. /\ balance' = Plus(balance, In(q.source, q.amount))
        /\ payout' = [payout EXCEPT ![w] = p] /\ UNCHANGED << credited, posting >>
    BY <1>9 DEF EndWithRefund, Commit
  <2> HIDE DEF p, q
  <2>4. \A s \in Wallets : TakenBy(q, s) = TakenBy(p, s) + (IF s = q.source THEN q.amount ELSE 0)
    BY <1>1, <1>9, <2>1 DEF TakenBy
  <2>5. balance \in [Wallets -> Nat]
    BY DEF TypeOK
  <2>6. \A s \in Wallets : balance'[s] = balance[s] + (IF s = q.source THEN q.amount ELSE 0)
    <3>1. \A s \in Wallets : Plus(balance, In(q.source, q.amount))[s]
                              = balance[s] + (IF s = q.source THEN q.amount ELSE 0)
      <4>1. q.source \in Wallets /\ q.amount \in Nat
        BY <1>1
      <4>2. PICK source \in Wallets, amount \in Nat : source = q.source /\ amount = q.amount
        BY <4>1
      <4>3. \A s \in Wallets : Plus(balance, In(source, amount))[s]
                                = balance[s] + (IF s = source THEN amount ELSE 0)
        BY ONLY <2>5, ChangesOfOne
      <4> QED
        BY <4>2, <4>3, Zenon
    <3> QED
      BY <2>2, <3>1, Zenon
  <2>7. \A s \in Wallets : TakenBy(p, s) \in Int
    BY <1>1, <2>1 DEF TakenBy
  <2>8. \A s \in Wallets : balance'[s] + TakenBy(p, s) = balance[s] + TakenBy(q, s)
    BY <1>1, <1>2, <2>4, <2>6, <2>7
  <2> QED
    BY <1>4, <2>1, <2>2, <2>8
<1>10. CASE CancelPayoutRequest(w) \/ RejectPayout(w)
  BY <1>9, <1>10 DEF CancelPayoutRequest, RejectPayout
<1>11. ASSUME NEW status \in PayoutStatus, payout' = [payout EXCEPT ![w].status = status],
              UNCHANGED << balance, credited, posting >>,
              q.status \in {"requested", "approved", "processing", "paid"} <=>
                status \in {"requested", "approved", "processing", "paid"}
       PROVE  Books'
  <2> DEFINE p == [q EXCEPT !.status = status]
  <2>1. /\ p \in Payout /\ p.status = status /\ p.mode = q.mode
        /\ p.amount = q.amount /\ p.source = q.source
    BY <1>7
  <2>2. payout' = [payout EXCEPT ![w] = p]
    BY <1>11
  <2> HIDE DEF p, q
  <2>3. \A s \in Wallets : TakenBy(p, s) = TakenBy(q, s)
    BY <1>11, <2>1 DEF TakenBy
  <2> QED
    BY <1>5, <1>11, <2>1, <2>2, <2>3
<1>12. CASE ApprovePayout(w) \/ RecordPayoutPaid(w)
  <2>1. PICK status \in {"approved", "paid"} : OnlyPayout(w, [q EXCEPT !.status = status])
    BY <1>12 DEF ApprovePayout, RecordPayoutPaid
  <2>2. q.status \in {"requested", "approved"}
    BY <1>12 DEF ApprovePayout, RecordPayoutPaid
  <2>3. payout' = [payout EXCEPT ![w].status = status] /\ UNCHANGED << balance, credited, posting >>
    BY <2>1 DEF OnlyPayout
  <2>4. status \in PayoutStatus
    BY DEF PayoutStatus
  <2> HIDE DEF q
  <2> QED
    BY <1>11, <2>2, <2>3, <2>4
<1>13. CASE ClaimDispatch(w)
  <2> DEFINE p == [q EXCEPT !.claimed = TRUE]
  <2>1. /\ p \in Payout /\ p.status = q.status /\ p.mode = q.mode
        /\ p.amount = q.amount /\ p.source = q.source
    BY <1>1 DEF Payout
  <2>2. payout' = [payout EXCEPT ![w] = p] /\ UNCHANGED << balance, credited, posting >>
    BY <1>13 DEF ClaimDispatch
  <2> HIDE DEF p, q
  <2>3. \A s \in Wallets : TakenBy(p, s) = TakenBy(q, s)
    BY <2>1 DEF TakenBy
  <2> QED
    BY <1>5, <2>1, <2>2, <2>3
<1>14. ASSUME \/ AbandonDispatch(w)
              \/ SubmitTransfer(w)
              \/ \E answer \in {"refused", "pending"} : ProviderAnswers(w, answer)
              \/ \E result \in {"succeeded", "failed"} : ProviderSettles(w, result)
              \/ LearnRefusal(w)
              \/ LeaveDispatch(w)
              \/ \E by \in Readers \ {"dispatcher"} : ReconcileWithdrawal(w, by)
       PROVE  Books'
  BY <1>3, <1>14
  DEF AbandonDispatch, SubmitTransfer, ProviderAnswers, ProviderSettles, LearnRefusal, LeaveDispatch,
      ReconcileWithdrawal, Dispatch
<1>15. ASSUME NEW result \in {"paid", "failed"}, NEW by \in Readers, FinalizeWithdrawal(w, result, by)
       PROVE  Books'
  <2>1. CASE Processing(w) /\ result = "failed"
    BY <1>9, <1>15, <2>1 DEF FinalizeWithdrawal, Processing
  <2>2. CASE ~ (Processing(w) /\ result = "failed")
    <3> DEFINE status == IF Processing(w) THEN result ELSE q.status
    <3>1. payout' = [payout EXCEPT ![w].status = status] /\ UNCHANGED << balance, credited, posting >>
      BY <1>15, <2>2 DEF FinalizeWithdrawal
    <3>2. Processing(w) => q.status = "processing" /\ result = "paid"
      BY <2>2 DEF Processing
    <3>3. status \in PayoutStatus
      BY <1>1 DEF Payout, PayoutStatus
    <3>4. q.status \in {"requested", "approved", "processing", "paid"} <=>
            status \in {"requested", "approved", "processing", "paid"}
      BY <3>2
    <3> HIDE DEF status, q
    <3> QED
      BY <1>11, <3>1, <3>3, <3>4
  <2> QED
    BY <2>1, <2>2
<1> QED
  BY <1>6, <1>8, <1>10, <1>12, <1>13, <1>14, <1>15 DEF WithdrawalStep

LEMMA BooksKept == WalletInv /\ TypeOK' /\ [Next]_vars => Books'
<1> SUFFICES ASSUME WalletInv, TypeOK', [Next]_vars
             PROVE  Books'
  OBVIOUS
<1> USE DEF WalletInv
<1>1. ASSUME \A source \in Wallets :
               Taken(source)' = Taken(source) /\ Spent(source)' = Spent(source),
             UNCHANGED << balance, credited >>
      PROVE  Books'
  BY <1>1, SameTerms DEF Books
<1>2. ASSUME UNCHANGED << balance, credited, payout, posting >>
      PROVE  Books'
  BY <1>1, <1>2, SameTerms
<1>3. ASSUME NEW t \in TopUps, TopUpStep(t) PROVE Books'
  BY <1>2, <1>3, CreditBalances
  DEF TopUpStep, PayCheckout, CheckTopUp, BeginTopUp, SkipTopUp, ConflictTopUp, OnlyAttempt,
      topUpVars, payoutVars
<1>4. ASSUME NEW p \in Postings, CheckPosting(p) \/ FundPosting(p) \/ RefusePosting(p)
      PROVE  Books'
  <2>1. CASE FundPosting(p)
    BY <2>1, FundBalances
  <2>2. CASE CheckPosting(p) \/ RefusePosting(p)
    <3>1. \A r \in Postings :
            /\ posting'[r].phase = "funded" <=> posting[r].phase = "funded"
            /\ posting[r].phase = "funded" => posting'[r] = posting[r]
      BY <2>2 DEF CheckPosting, RefusePosting, TypeOK, Posting
    <3>2. \A source \in Wallets : Spent(source)' = Spent(source)
      BY <3>1 DEF Spent
    <3>3. UNCHANGED << balance, credited, payout >>
      BY <2>2 DEF CheckPosting, RefusePosting, topUpVars, payoutVars
    <3> QED
      BY <1>1, <3>2, <3>3, SameTerms
  <2> QED
    BY <1>4, <2>1, <2>2
<1>5. CASE Crash
  <2>1. \A r \in Postings :
          /\ posting'[r].phase = "funded" <=> posting[r].phase = "funded"
          /\ posting[r].phase = "funded" => posting'[r] = posting[r]
    BY <1>5 DEF Crash
  <2>2. \A source \in Wallets : Spent(source)' = Spent(source)
    BY <2>1 DEF Spent
  <2>3. UNCHANGED << balance, credited, payout >>
    BY <1>5 DEF Crash, topUpVars
  <2> QED
    BY <1>1, <2>2, <2>3, SameTerms
<1>6. CASE UNCHANGED vars
  BY <1>2, <1>6 DEF vars
<1> QED
  BY <1>3, <1>4, <1>5, <1>6, WithdrawalBalances DEF Next

(* ---- the books at the start --------------------------------------------------- *)

LEMMA SumOfNothing ==
  ASSUME NEW f, NEW S, IsFiniteSet(S), \A x \in S : f[x] = 0
  PROVE  Sum(f, S) = 0
<1>1. Sum(f, S) = Sum(f, {})
  BY SumOfPart
<1> QED
  BY <1>1, SumStep, FS_EmptySet

LEMMA InitInv == Init => WalletInv
<1> SUFFICES ASSUME Init PROVE WalletInv
  OBVIOUS
<1>1. TypeOK
  BY InitType
<1>2. AttemptsFresh
  BY DEF Init, AttemptsFresh, NoAttempt
<1>3. \A w \in Payouts :
        /\ payout[w].mode = "manual" => payout[w].status = "none" /\ payout[w].amount = 0
                                        /\ ~ payout[w].claimed
        /\ payout[w].mode = "automatic" => payout[w].status = "processing"
        /\ payout[w] \in Payout
  <2>1. ASSUME NEW w \in Payouts
        PROVE  \/ payout[w] = NewPayout
               \/ \E source \in Wallets, amount \in Amounts : payout[w] = LegacyPayout(source, amount)
    BY DEF Init
  <2> QED
    BY <1>1, <2>1 DEF NewPayout, LegacyPayout, TypeOK
<1>4. Sent
  BY <1>3 DEF Init, Sent, ByHand, ByProvider, NotSent
<1>5. Books
  <2> SUFFICES ASSUME NEW source \in Wallets
               PROVE  balance[source] + Sum(Taken(source), Payouts) + Sum(Spent(source), Postings)
                        = BalanceAtStart[source] + Credit(source)
    BY DEF Books
  <2>1. \A w \in Payouts : Taken(source)[w] = 0
    BY <1>3 DEF Taken, TakenBy, Payout
  <2>2. \A p \in Postings : Spent(source)[p] = 0
    BY DEF Init, Spent
  <2>3. Sum(Taken(source), Payouts) = 0 /\ Sum(Spent(source), Postings) = 0
    BY <2>1, <2>2, SumOfNothing, WalletAssumption
  <2>4. Credit(source) = 0
    <3>1. Cardinality(credited) = 0
      BY FS_EmptySet DEF Init
    <3> QED
      BY <3>1, WalletAssumption DEF Credit
  <2>5. balance[source] = BalanceAtStart[source] /\ BalanceAtStart[source] \in Nat
    BY WalletAssumption DEF Init
  <2> QED
    BY <2>3, <2>4, <2>5
<1> QED
  BY <1>1, <1>2, <1>4, <1>5 DEF WalletInv

(* ---- the books are what the wallet promises ------------------------------------- *)

\* The share of a withdrawal that comes from a wallet.
Share(source) == [w \in Payouts |-> IF payout[w].source = source THEN payout[w].amount ELSE 0]

Draw(source) == [p \in Postings |-> posting[p].draw[source]]

\* The sums of the model are the sums of the lemmas.
LEMMA FromIsSum ==
  ASSUME NEW source, NEW S \in SUBSET Payouts, IsFiniteSet(S)
  PROVE  From(source, S) = Sum(Share(source), S)
<1> DEFINE P(g) == g = [s \in SUBSET S |->
                          IF s = {} THEN 0
                          ELSE (IF payout[First(s)].source = source THEN payout[First(s)].amount ELSE 0)
                               + g[s \ {First(s)}]]
           chosen == CHOOSE g : P(g)
<1>1. From(source, S) = chosen[S]
  BY DEF From, MapThenSumSet, MapThenFoldSet, First
<1>2. \A g : P(g) <=> IsSum(g, Share(source), S)
  <2>1. \A s \in SUBSET S : s # {} => First(s) \in Payouts
    BY DEF First
  <2>2. \A s \in SUBSET S : s # {} =>
          Share(source)[First(s)] =
            IF payout[First(s)].source = source THEN payout[First(s)].amount ELSE 0
    BY <2>1 DEF Share
  <2> QED
    BY <2>2 DEF IsSum
<1>3. \E g : P(g)
  BY <1>2, SumExists
<1>4. P(chosen)
  <2> HIDE DEF P
  <2> QED
    BY <1>3, Zenon
<1> HIDE DEF P, chosen
<1>5. IsSum(chosen, Share(source), S)
  BY <1>2, <1>4
<1> QED
  BY <1>1, <1>5, SumOfSolution

LEMMA DrawnIsSum ==
  ASSUME NEW source, NEW S \in SUBSET Postings, IsFiniteSet(S)
  PROVE  MapThenSumSet(LAMBDA p : posting[p].draw[source], S) = Sum(Draw(source), S)
<1> DEFINE P(g) == g = [s \in SUBSET S |->
                          IF s = {} THEN 0
                          ELSE posting[First(s)].draw[source] + g[s \ {First(s)}]]
           chosen == CHOOSE g : P(g)
<1>1. MapThenSumSet(LAMBDA p : posting[p].draw[source], S) = chosen[S]
  BY DEF MapThenSumSet, MapThenFoldSet, First
<1>2. \A g : P(g) <=> IsSum(g, Draw(source), S)
  <2>1. \A s \in SUBSET S : s # {} => First(s) \in Postings
    BY DEF First
  <2>2. \A s \in SUBSET S : s # {} => Draw(source)[First(s)] = posting[First(s)].draw[source]
    BY <2>1 DEF Draw
  <2> QED
    BY <2>2 DEF IsSum
<1>3. \E g : P(g)
  BY <1>2, SumExists
<1>4. P(chosen)
  <2> HIDE DEF P
  <2> QED
    BY <1>3, Zenon
<1> HIDE DEF P, chosen
<1>5. IsSum(chosen, Draw(source), S)
  BY <1>2, <1>4
<1> QED
  BY <1>1, <1>5, SumOfSolution

LEMMA BooksAreMoney == TypeOK /\ Books => MoneyAccountedFor
<1> SUFFICES ASSUME TypeOK, Books, NEW source \in Wallets
             PROVE  balance[source] + From(source, Held) + Drawn(source)
                      = BalanceAtStart[source] + From(source, Legacy) + Credit(source)
  BY DEF MoneyAccountedFor, Credit
<1> DEFINE share == Share(source)
           taken == Taken(source)
           draw == Draw(source)
           spent == Spent(source)
           held == [w \in Payouts |-> IF w \in Held THEN share[w] ELSE 0]
           legacy == [w \in Payouts |-> IF w \in Legacy THEN share[w] ELSE 0]
           Funded == {p \in Postings : posting[p].phase = "funded"}
<1>1. /\ IsFiniteSet(Payouts) /\ IsFiniteSet(Postings)
      /\ Held \in SUBSET Payouts /\ Legacy \in SUBSET Payouts /\ Funded \in SUBSET Postings
      /\ IsFiniteSet(Held) /\ IsFiniteSet(Legacy) /\ IsFiniteSet(Funded)
  BY WalletAssumption, FS_Subset DEF Held, Legacy
<1>2. \A w \in Payouts : payout[w].amount \in Nat
  BY DEF TypeOK, Payout
<1>3. \A w \in Payouts : share[w] \in Int /\ taken[w] \in Int /\ held[w] \in Int /\ legacy[w] \in Int
  BY <1>2, TermsType DEF Share
<1>4. \A w \in Payouts : held[w] = taken[w] + legacy[w]
  BY <1>2 DEF Share, Taken, TakenBy, Held, Legacy
<1>5. \A p \in Postings : spent[p] \in Int
  BY TermsType
<1>6. /\ From(source, Held) = Sum(share, Held) /\ From(source, Legacy) = Sum(share, Legacy)
      /\ Drawn(source) = Sum(draw, Funded)
  BY <1>1, FromIsSum, DrawnIsSum DEF Drawn
<1>7. \A p \in Funded : draw[p] = spent[p]
  BY DEF Draw, Spent
<1>8. \A p \in Postings \ Funded : spent[p] = 0
  BY DEF Spent
<1>9. /\ \A w \in Held : held[w] = share[w]
      /\ \A w \in Payouts \ Held : held[w] = 0
      /\ \A w \in Legacy : legacy[w] = share[w]
      /\ \A w \in Payouts \ Legacy : legacy[w] = 0
  BY <1>1
<1>10. balance[source] + Sum(taken, Payouts) + Sum(spent, Postings)
         = BalanceAtStart[source] + Credit(source)
  BY DEF Books
<1>11. /\ balance[source] \in Nat /\ BalanceAtStart[source] \in Nat /\ Credit(source) \in Nat
       /\ Sum(taken, Payouts) \in Int /\ Sum(spent, Postings) \in Int
  BY TermsType, WalletAssumption
<1> HIDE DEF share, taken, draw, spent, held, legacy, Funded
<1>12. Sum(share, Held) = Sum(held, Held) /\ Sum(held, Held) = Sum(held, Payouts)
  <2>1. Sum(held, Payouts) = Sum(held, Held)
    BY ONLY <1>1, <1>3, <1>9, SumOfPart
  <2>2. Sum(held, Held) = Sum(share, Held)
    BY ONLY <1>1, <1>9, SumEqual
  <2> QED
    BY <2>1, <2>2
<1>13. Sum(share, Legacy) = Sum(legacy, Legacy) /\ Sum(legacy, Legacy) = Sum(legacy, Payouts)
  <2>1. Sum(legacy, Payouts) = Sum(legacy, Legacy)
    BY ONLY <1>1, <1>3, <1>9, SumOfPart
  <2>2. Sum(legacy, Legacy) = Sum(share, Legacy)
    BY ONLY <1>1, <1>9, SumEqual
  <2> QED
    BY <2>1, <2>2
<1>14. Sum(draw, Funded) = Sum(spent, Postings)
  <2>1. Sum(spent, Postings) = Sum(spent, Funded)
    BY ONLY <1>1, <1>5, <1>8, SumOfPart
  <2>2. Sum(draw, Funded) = Sum(spent, Funded)
    BY ONLY <1>1, <1>7, SumEqual
  <2> QED
    BY <2>1, <2>2
<1>15. Sum(held, Payouts) = Sum(taken, Payouts) + Sum(legacy, Payouts)
  BY ONLY <1>1, <1>3, <1>4, SumPlus
<1>16. Sum(legacy, Payouts) \in Int
  BY ONLY <1>1, <1>3, SumIsNumber
<1> QED
  BY <1>6, <1>10, <1>11, <1>12, <1>13, <1>14, <1>15, <1>16

(* ---- theorems -------------------------------------------------------------------- *)

(***************************************************************************)
(* In every reachable state the documents are well formed, a transaction   *)
(* that missed no write knows what it overwrites, no withdrawal is with    *)
(* the provider and given back, and the books balance.                     *)
(***************************************************************************)
THEOREM WalletInvariant == Spec => []WalletInv
<1>1. WalletInv /\ [Next]_vars => WalletInv'
  BY NextType, FreshKept, SentAlways, BooksKept DEF WalletInv
<1> QED
  BY InitInv, <1>1, PTL DEF Spec

\* Neither balance is ever overdrawn (TypeOK), however many requests that read
\* a balance are cut short, retried or overtaken before they write it.
THEOREM WalletTypes == Spec => []TypeOK
<1>1. WalletInv => TypeOK
  BY DEF WalletInv
<1> QED
  BY <1>1, WalletInvariant, PTL

(***************************************************************************)
(* Each balance is what it was, plus every top-up once, less the postings  *)
(* paid for and the withdrawals not given back: for any number of them, of *)
(* webhooks and clients that credit the same top-up, and of crashes.       *)
(***************************************************************************)
THEOREM MoneyAccountedForAlways == Spec => []MoneyAccountedFor
<1>1. WalletInv => MoneyAccountedFor
  BY BooksAreMoney DEF WalletInv
<1> QED
  BY <1>1, WalletInvariant, PTL

\* What was given back was not transferred and never will be, and what is
\* marked paid was (finalizeWithdrawal, dispatchWithdrawal).
THEOREM RefundedOrTransferredAlways == Spec => []RefundedOrTransferred
<1>1. WalletInv => RefundedOrTransferred
  BY DEF WalletInv, Sent, ByProvider, NotSent, RefundedOrTransferred, Legacy
<1> QED
  BY <1>1, WalletInvariant, PTL

\* A transfer is sent to the provider only when none was sent for the
\* withdrawal before, whatever crashed in between (dispatchWithdrawal).
THEOREM SubmittedOnceAlways == Spec => SubmittedOnce
<1> DEFINE Once == \A w \in Payouts : dispatcher'[w] = "posted" /\ dispatcher[w] # "posted"
                                        => transfer[w] = "none"
<1>1. WalletInv /\ [Next]_vars => [Once]_vars
  <2> SUFFICES ASSUME WalletInv, Next PROVE Once
    OBVIOUS
  <2> SUFFICES ASSUME NEW w \in Payouts, dispatcher'[w] = "posted", dispatcher[w] # "posted"
               PROVE  transfer[w] = "none"
    OBVIOUS
  <2>1. dispatcher \in [Payouts -> {"none", "claimed", "posted"}] /\ ByProvider(w)
    BY DEF WalletInv, TypeOK, Sent
  <2>2. ASSUME NEW t \in TopUps, TopUpStep(t) PROVE dispatcher' = dispatcher
    BY <2>2
    DEF TopUpStep, PayCheckout, CheckTopUp, BeginTopUp, SkipTopUp, CommitTopUp, ConflictTopUp,
        OnlyAttempt, payoutVars
  <2>3. ASSUME NEW p \in Postings, CheckPosting(p) \/ FundPosting(p) \/ RefusePosting(p)
        PROVE  dispatcher' = dispatcher
    BY <2>3 DEF CheckPosting, FundPosting, RefusePosting, payoutVars
  <2>4. ~ Crash
    BY <2>1 DEF Crash
  <2>5. PICK v \in Payouts : WithdrawalStep(v)
    BY <2>2, <2>3, <2>4 DEF Next
  <2>6. \/ dispatcher' = dispatcher
        \/ \E phase \in {"none", "claimed", dispatcher[v]} : dispatcher' = [dispatcher EXCEPT ![v] = phase]
        \/ SubmitTransfer(v)
    BY <2>5
    DEF WithdrawalStep, PreviewWithdrawal, ConfirmWithdrawal, CancelPayoutRequest, ApprovePayout,
        RejectPayout, RecordPayoutPaid, ClaimDispatch, AbandonDispatch, ProviderAnswers,
        ProviderSettles, LearnRefusal, LeaveDispatch, ReconcileWithdrawal, FinalizeWithdrawal,
        EndWithRefund, OnlyPayout, Dispatch
  <2>7. SubmitTransfer(v) /\ v = w
    BY <2>1, <2>6 DEF SubmitTransfer, Dispatch
  <2> QED
    BY <2>1, <2>7 DEF SubmitTransfer, ByProvider
<1> QED
  BY <1>1, WalletInvariant, PTL DEF Spec, SubmittedOnce

==============================================================================
