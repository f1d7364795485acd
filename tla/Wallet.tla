------------------------------- MODULE Wallet -------------------------------
(***************************************************************************)
(* One account's wallets with everything that moves money in or out of     *)
(* them at the same time: top-ups, withdrawals, and the postings that      *)
(* createJob pays for (controllers/JobController.js).  Any request may be  *)
(* cut short by a crash; what it kept in memory is lost.                   *)
(***************************************************************************)
EXTENDS TopUps, Withdrawals

(* ---- paying for a posting ---------------------------------------------- *)

\* createJob reads the balances and shares the cost out: employer first.
CheckPosting(p) ==
  LET fromEmployer == Smaller(balance["EMPLOYER"], Cost)
  IN  /\ posting[p].phase = "none"
      /\ Cost <= balance["EMPLOYER"] + balance["WORKER"]
      /\ posting' = [posting EXCEPT ![p] = [phase |-> "checked",
           draw |-> Plus(In("EMPLOYER", fromEmployer), In("WORKER", Cost - fromEmployer))]]
      /\ UNCHANGED << balance, attempt, topUpVars, payoutVars, crashes >>

\* Mutant: only the sum of the two balances is checked again.
FundPostingBySum(p) ==
  /\ posting[p].phase = "checked"
  /\ Cost <= balance["EMPLOYER"] + balance["WORKER"]
  /\ posting' = [posting EXCEPT ![p].phase = "funded"]
  /\ Commit(Minus(balance, posting[p].draw))
  /\ UNCHANGED << topUpVars, payoutVars, crashes >>

\* The transaction takes each share only from a balance that still holds it.
FundPosting(p) ==
  /\ posting[p].phase = "checked"
  /\ \A w \in Wallets : posting[p].draw[w] <= balance[w]
  /\ posting' = [posting EXCEPT ![p].phase = "funded"]
  /\ Commit(Minus(balance, posting[p].draw))
  /\ UNCHANGED << topUpVars, payoutVars, crashes >>

RefusePosting(p) ==
  /\ posting[p].phase = "checked"
  /\ \E w \in Wallets : posting[p].draw[w] > balance[w]
  /\ posting' = [posting EXCEPT ![p].phase = "refused"]
  /\ UNCHANGED << balance, attempt, topUpVars, payoutVars, crashes >>

(* ---- the specification -------------------------------------------------- *)

NewPayout == [mode |-> "manual", status |-> "none", amount |-> 0,
              source |-> "WORKER", claimed |-> FALSE]

\* An automatic withdrawal of an earlier policy, reserved and not yet sent.
LegacyPayout(source, amount) ==
  [mode |-> "automatic", status |-> "processing", amount |-> amount,
   source |-> source, claimed |-> FALSE]

Init ==
  /\ balance = BalanceAtStart
  /\ checkout \in [TopUps -> {[provider |-> p, paid |-> FALSE] : p \in {"paymongo", "xendit"}}]
  /\ credited = {}
  /\ attempt = [t \in TopUps |-> [c \in Callers |-> NoAttempt]]
  /\ payout \in [Payouts -> {NewPayout} \cup
       {LegacyPayout(source, amount) : source \in Wallets, amount \in Amounts}]
  /\ transfer = [w \in Payouts |-> "none"]
  /\ dispatcher = [w \in Payouts |-> "none"]
  /\ verdicts = {}
  /\ posting = [p \in Postings |-> [phase |-> "none", draw |-> Nothing]]
  /\ crashes = 0

\* The server stops; what it had written or sent stays.
Crash ==
  /\ crashes < MaxCrashes
  /\ crashes' = crashes + 1
  /\ attempt' = [t \in TopUps |-> [c \in Callers |-> NoAttempt]]
  /\ dispatcher' = [w \in Payouts |-> "none"]
  /\ verdicts' = {}
  /\ posting' = [p \in Postings |->
       IF posting[p].phase = "checked" THEN [phase |-> "none", draw |-> Nothing]
       ELSE posting[p]]
  /\ UNCHANGED << balance, topUpVars, payout, transfer >>

Next ==
  \/ \E t \in TopUps : TopUpStep(t)
  \/ \E w \in Payouts : WithdrawalStep(w)
  \/ \E p \in Postings : CheckPosting(p) \/ FundPosting(p) \/ RefusePosting(p)
  \/ Crash

Spec == Init /\ [][Next]_vars

\* The maintenance run reads the fate of up to ten transfers every fifteen
\* minutes; an instance has fewer.
MaintenanceReconciles(w) ==
  \/ ReconcileWithdrawal(w, "maintenance")
  \/ \E result \in {"paid", "failed"} : FinalizeWithdrawal(w, result, "maintenance")

\* Nothing obliges a client or Finance to act, nor the dispatcher to survive.
FairSpec ==
  /\ Spec
  /\ \A t \in TopUps : WF_vars(WebhookStep(t))
  /\ \A w \in Payouts : WF_vars(MaintenanceReconciles(w))

(* ---- what the wallet promises ------------------------------------------- *)

\* The withdrawals whose amount the wallet has given up, for now or for good.
Held == {w \in Payouts :
  payout[w].status \in {"requested", "approved", "processing", "paid"}}

Legacy == {w \in Payouts : payout[w].mode = "automatic"}

From(source, S) ==
  MapThenSumSet(LAMBDA w : IF payout[w].source = source THEN payout[w].amount ELSE 0, S)

Drawn(source) ==
  MapThenSumSet(LAMBDA p : posting[p].draw[source],
                {p \in Postings : posting[p].phase = "funded"})

(***************************************************************************)
(* Each balance is what it was, plus every top-up once, less every posting *)
(* paid for and every withdrawal that was not given back: whatever         *)
(* webhooks, clients, Finance and the provider do at the same time, no     *)
(* update is lost and a reserved amount returns to its wallet once         *)
(* (applyTopUpToUser, createPayoutRefund, finalizeWithdrawal, createJob).  *)
(***************************************************************************)
MoneyAccountedFor ==
  \A source \in Wallets :
    balance[source] + From(source, Held) + Drawn(source)
      = BalanceAtStart[source] + From(source, Legacy)
        + (IF source = "EMPLOYER" THEN Deposit * Cardinality(credited) ELSE 0)

(***************************************************************************)
(* docs/lifecycle-policy.md: "Unknown outcomes retain reservations".  What *)
(* was given back was not transferred and never will be, and what is       *)
(* marked paid was.                                                        *)
(***************************************************************************)
RefundedOrTransferred ==
  \A w \in Legacy :
    /\ payout[w].status = "failed" =>
         /\ transfer[w] \in {"none", "refused", "failed"}
         /\ dispatcher[w] # "claimed"
    /\ payout[w].status = "paid" => transfer[w] = "succeeded"

(***************************************************************************)
(* A transfer is never sent twice, whatever crashes or times out between   *)
(* claiming the withdrawal and hearing from the provider: an automatic     *)
(* withdrawal is "never blindly resent".                                   *)
(***************************************************************************)
SubmittedOnce ==
  [][\A w \in Payouts : dispatcher'[w] = "posted" /\ dispatcher[w] # "posted"
       => transfer[w] = "none"]_vars

(***************************************************************************)
(* A transfer the provider is done with ends its withdrawal, although the  *)
(* callback may be lost and the dispatcher may crash.                      *)
(***************************************************************************)
TransfersReconciled ==
  \A w \in Payouts : transfer[w] \in {"succeeded", "failed"}
    ~> payout[w].status \in {"paid", "failed"}

(***************************************************************************)
(* A top-up paid at PayMongo reaches the wallet, whether or not the client *)
(* returns, however often the transaction meets a write conflict.          *)
(***************************************************************************)
PaidTopUpsCredited ==
  \A t \in TopUps : checkout[t].paid /\ checkout[t].provider = "paymongo"
    ~> t \in credited

=============================================================================
