------------------------------- MODULE TopUps -------------------------------
(***************************************************************************)
(* Crediting a wallet top-up (controllers/PaymentController.js).  The      *)
(* provider's webhook and the client that comes back from the checkout     *)
(* both do it, at the same time and as often as they like; each runs in a  *)
(* transaction that reads the account first and writes it last.  Processes *)
(* are the two callers of each checkout: webhooks of one checkout that     *)
(* overlap do what the webhook and the client do.                          *)
(***************************************************************************)
EXTENDS WalletState

\* The employer pays at the provider.
PayCheckout(t) ==
  /\ ~ checkout[t].paid
  /\ checkout' = [checkout EXCEPT ![t].paid = TRUE]
  /\ UNCHANGED << balance, credited, attempt, payoutVars, posting, crashes >>

\* PayMongo calls back about what was paid; Xendit never does.  A client's
\* confirmation reads the amount of the invoice or the session: an invoice
\* must be paid, and a session without payments names its line items.
Creditable(t, c) ==
  \/ checkout[t].paid /\ (c = "client" \/ checkout[t].provider = "paymongo")
  \/ c = "client" /\ checkout[t].provider = "paymongo"

OnlyAttempt(t, c, a) ==
  /\ attempt' = [attempt EXCEPT ![t][c] = a]
  /\ UNCHANGED << balance, topUpVars, payoutVars, posting, crashes >>

\* handleWebhook and confirmTopUp first look outside any transaction.
CheckTopUp(t, c) ==
  /\ attempt[t][c].phase = "none"
  /\ Creditable(t, c)
  /\ t \notin credited
  /\ OnlyAttempt(t, c, [NoAttempt EXCEPT !.phase = "checked"])

\* applyTopUpToUser begins: the ledger and the account as of now.
BeginTopUp(t, c) ==
  /\ attempt[t][c].phase = "checked"
  /\ OnlyAttempt(t, c, [attempt[t][c] EXCEPT !.phase = "open",
       !.seen = t \in credited, !.base = balance["EMPLOYER"], !.stale = FALSE])

\* The reference is in the ledger already.
SkipTopUp(t, c) ==
  /\ attempt[t][c].phase = "open"
  /\ attempt[t][c].seen
  /\ OnlyAttempt(t, c, NoAttempt)

\* Mutant: the sum is written back whatever happened to the account since.
CommitLastWriter(t, c) ==
  LET a == attempt[t][c]
  IN  /\ a.phase = "open"
      /\ ~ a.seen
      /\ credited' = credited \cup {t}
      /\ balance' = [balance EXCEPT !["EMPLOYER"] = a.base + Deposit]
      /\ attempt' = [Missed(attempt) EXCEPT ![t][c] = NoAttempt]
      /\ UNCHANGED << checkout, payoutVars, posting, crashes >>

\* The sum is written back and the TOP_UP row with it.
CommitTopUp(t, c) ==
  LET a == attempt[t][c]
  IN  /\ a.phase = "open"
      /\ ~ a.seen
      /\ ~ a.stale
      /\ credited' = credited \cup {t}
      /\ balance' = [balance EXCEPT !["EMPLOYER"] = a.base + Deposit]
      /\ attempt' = [Missed(attempt) EXCEPT ![t][c] = NoAttempt]
      /\ UNCHANGED << checkout, payoutVars, posting, crashes >>

\* Mutant: the last attempt is never given up.
ConflictForever(t, c) ==
  LET a == attempt[t][c]
  IN  /\ a.phase = "open"
      /\ ~ a.seen
      /\ a.stale
      /\ a.tries < MaxTries
      /\ OnlyAttempt(t, c, [NoAttempt EXCEPT !.phase = "checked", !.tries = a.tries + 1])

\* A write conflict: the transaction is tried again, a few times.
ConflictTopUp(t, c) ==
  LET a == attempt[t][c]
  IN  /\ a.phase = "open"
      /\ ~ a.seen
      /\ a.stale
      /\ OnlyAttempt(t, c,
           IF a.tries < MaxTries
           THEN [NoAttempt EXCEPT !.phase = "checked", !.tries = a.tries + 1]
           ELSE NoAttempt)

TopUpStep(t) ==
  \/ PayCheckout(t)
  \/ \E c \in Callers :
       \/ CheckTopUp(t, c)
       \/ BeginTopUp(t, c)
       \/ SkipTopUp(t, c)
       \/ CommitTopUp(t, c)
       \/ ConflictTopUp(t, c)

\* The provider repeats a webhook until it is answered.
WebhookStep(t) ==
  \/ CheckTopUp(t, "webhook")
  \/ BeginTopUp(t, "webhook")
  \/ SkipTopUp(t, "webhook")
  \/ CommitTopUp(t, "webhook")
  \/ ConflictTopUp(t, "webhook")

=============================================================================
