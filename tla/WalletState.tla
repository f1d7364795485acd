---------------------------- MODULE WalletState ----------------------------
(***************************************************************************)
(* The two balances of one account, and what is in flight over them: the   *)
(* top-ups a payment provider takes in, the withdrawals that go out, and   *)
(* the postings that are paid from them (models/User.js, PayoutRequest.js, *)
(* Transaction.js).                                                        *)
(*                                                                         *)
(* A MongoDB transaction that reads the account and writes it later aborts *)
(* when somebody else wrote the account in between: Commit marks every     *)
(* transaction that is open on the account as one that missed a write.     *)
(***************************************************************************)
EXTENDS Integers, FiniteSets, FiniteSetsExt

CONSTANTS
  TopUps,        \* checkout sessions
  Payouts,       \* withdrawals
  Postings,      \* job postings of this account
  Deposit,       \* what a top-up adds
  Amounts,       \* what a withdrawal may be for
  Cost,          \* what a posting costs, fees included
  BalanceAtStart,
  MaxTries,      \* attempts of a top-up that meets a write conflict
  MaxCrashes     \* bound on the times the server stops

Wallets == {"EMPLOYER", "WORKER"}

ASSUME WalletAssumption ==
  /\ IsFiniteSet(TopUps) /\ IsFiniteSet(Payouts) /\ IsFiniteSet(Postings)
  /\ Deposit \in Nat \ {0}
  /\ Amounts \subseteq Nat \ {0}
  /\ Cost \in Nat \ {0}
  /\ BalanceAtStart \in [Wallets -> Nat]
  /\ MaxTries \in Nat \ {0}
  /\ MaxCrashes \in Nat

VARIABLES
  balance,     \* employerBalance and workerBalance
  checkout,    \* a checkout session as its provider has it
  credited,    \* top-ups with a TOP_UP row in the ledger
  attempt,     \* the requests that are crediting a top-up
  payout,      \* the PayoutRequest documents
  transfer,    \* a withdrawal's transfer as the provider has it
  dispatcher,  \* the request that submits a transfer
  verdicts,    \* final results read from the provider and not yet applied
  posting,     \* the requests that pay for a posting
  crashes

vars == << balance, checkout, credited, attempt, payout, transfer, dispatcher,
           verdicts, posting, crashes >>

topUpVars == << checkout, credited >>
payoutVars == << payout, transfer, dispatcher, verdicts >>

\* Who credits a top-up: the provider's webhook and the returning client.
Callers == {"webhook", "client"}

\* Who reads a transfer's fate from the provider.
Readers == {"dispatcher", "callback", "maintenance"}

Attempt == [phase : {"none", "checked", "open"}, tries : 0 .. MaxTries,
            seen : BOOLEAN, base : Nat, stale : BOOLEAN]

NoAttempt == [phase |-> "none", tries |-> 0, seen |-> FALSE, base |-> 0,
              stale |-> FALSE]

PayoutStatus == {"none", "previewed", "requested", "approved", "processing",
                 "paid", "rejected", "cancelled", "failed"}

Payout == [mode : {"manual", "automatic"}, status : PayoutStatus,
           amount : Nat, source : Wallets, claimed : BOOLEAN]

TransferStatus == {"none", "submitted", "refused", "pending", "succeeded", "failed"}

Posting == [phase : {"none", "checked", "funded", "refused"},
            draw : [Wallets -> Nat]]

(***************************************************************************)
(* The documents are well formed; neither balance is ever overdrawn.       *)
(***************************************************************************)
TypeOK ==
  /\ balance \in [Wallets -> Nat]
  /\ checkout \in [TopUps -> [provider : {"paymongo", "xendit"}, paid : BOOLEAN]]
  /\ credited \in SUBSET TopUps
  /\ attempt \in [TopUps -> [Callers -> Attempt]]
  /\ payout \in [Payouts -> Payout]
  /\ transfer \in [Payouts -> TransferStatus]
  /\ dispatcher \in [Payouts -> {"none", "claimed", "posted"}]
  /\ verdicts \in SUBSET (Payouts \X {"paid", "failed"} \X Readers)
  /\ posting \in [Postings -> Posting]
  /\ crashes \in 0 .. MaxCrashes

Nothing == [w \in Wallets |-> 0]
In(wallet, amount) == [Nothing EXCEPT ![wallet] = amount]
Plus(f, g) == [w \in Wallets |-> f[w] + g[w]]
Minus(f, g) == [w \in Wallets |-> f[w] - g[w]]
Smaller(x, y) == IF x <= y THEN x ELSE y

\* The account is written: the transactions open on it have missed a write.
Missed(as) ==
  [t \in TopUps |-> [c \in Callers |->
     IF as[t][c].phase = "open" THEN [as[t][c] EXCEPT !.stale = TRUE] ELSE as[t][c]]]

Commit(after) == balance' = after /\ attempt' = Missed(attempt)

=============================================================================
