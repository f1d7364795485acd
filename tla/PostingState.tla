---------------------------- MODULE PostingState ----------------------------
(***************************************************************************)
(* The records one job posting is made of, and the pure functions on them  *)
(* that every service shares (src/server/lib/hiringState.js and            *)
(* src/server/services/jobFunds.js).                                       *)
(*                                                                         *)
(* A posting is a Job document, its JobApplications, their JobOffers, the  *)
(* Cancellations and FinancialDisputes opened on them, and the rows of the *)
(* Transaction ledger that reference the job.  The ledger is kept as the   *)
(* sums the code reads back from it: what is left of the posting's escrow, *)
(* by the wallet it came from, and what each worker was paid.              *)
(***************************************************************************)
EXTENDS Integers, FiniteSets, FiniteSetsExt

CONSTANTS
  Apps,           \* one application per worker who may apply to the posting
  MaxPositions,   \* bound on job.positionsNeeded
  Salaries,       \* values of job.salary, in the smallest unit of money
  Extras,         \* how far above the salary an offer may go
  Proposals,      \* worker payments a cancellation request may propose
  WalletAtStart,  \* the employer's balances before the posting is paid for
  TopUp,          \* what the employer wallet receives once it is
  PostingFee,     \* non-refundable fee, posting and highlight together
  MaxDisputed,    \* bound on the applications whose parties open a dispute
  PartialClaims,  \* whether a worker may dispute less than all that is unpaid
  Appeals,        \* whether a resolved dispute may be appealed
  Investigators,  \* support staff: the calls on one case that may overlap
  Proposers,      \* Finance staff who propose: likewise
  MaxCalls        \* bound on the calls of staff under way at a time

Wallets == {"EMPLOYER", "WORKER"}

ASSUME AmountsAssumption ==
  /\ MaxPositions \in Nat \ {0}
  /\ Salaries \subseteq Nat \ {0}
  /\ Extras \subseteq Nat
  /\ Proposals \subseteq Nat
  /\ WalletAtStart \in [Wallets -> Nat]
  /\ TopUp \in Nat
  /\ PostingFee \in Nat
  /\ MaxCalls \in Nat

ASSUME ScopeAssumption ==
  /\ IsFiniteSet(Apps)
  /\ MaxDisputed \in Nat
  /\ PartialClaims \in BOOLEAN
  /\ Appeals \in BOOLEAN

VARIABLES
  job,           \* the Job document
  app,           \* its JobApplications, one per worker
  offer,         \* the one active JobOffer an application may have
  cancellation,  \* the assignment Cancellation of an application
  dispute,       \* the latest FinancialDispute of an application
  pot,           \* the posting's remaining escrow, by the wallet it came from
  wallet,        \* the employer's employerBalance and workerBalance
  received,      \* completed PAYOUT rows to the worker of each application
  references,    \* unique ledger references taken by cancelled assignments
  marking,       \* assignments a "mark done" request read and has not settled
  saving         \* what staff who read a case have not saved yet

vars == << job, app, offer, cancellation, dispute, pot, wallet, received,
           references, marking, saving >>

(* ---- the documents ---------------------------------------------------- *)

JobStatus == {"Available", "In Progress", "Closed", "Completed", "Cancelled"}

\* "Applied" stands for Applied, Shortlisted, Interview Scheduled and
\* Interviewed, which no guard modelled here tells apart.
ApplicationStatus == {"None", "Applied", "Offer Sent", "Hired",
  "Position filled", "Rejected", "Withdrawn", "Cancelled"}

WorkStatus == {"Not started", "In Progress", "Submitted", "Changes Requested",
  "Completed", "Cancelled"}

\* The code spells a cancelled assignment's part payment "Partially paid" and
\* a dispute's "Partially Paid": two values, and the guards tell them apart.
PaymentStatus == {"Secured", "Authorized", "Disputed", "Outstanding",
  "Partially Paid", "Partially paid", "Refunded", "Paid"}

SettlementType == {"FULL_REFUND", "COMPLETE_PAYMENT", "PARTIAL_PAYMENT"}

Job == [status : JobStatus, positionsNeeded : 1 .. MaxPositions,
        salary : Salaries, hiredCount : Nat, reservedOfferCount : Nat,
        closedManually : BOOLEAN, cancellationPending : BOOLEAN,
        hireConfirmed : BOOLEAN, archived : BOOLEAN]

Application == [status : ApplicationStatus, workStatus : WorkStatus,
        paymentStatus : PaymentStatus, agreedAmount : Nat, paidAmount : Nat,
        cancellationPending : BOOLEAN, disputePending : BOOLEAN]

Offer == [status : {"none", "pending", "accepted"}, extra : Nat]

Cancellation == [status : {"none", "pending", "staff_review", "resolved"},
        workerPayment : Nat]

Stages == {"UNDER_INVESTIGATION", "FOR_FINANCE_REVIEW",
        "PENDING_FINANCE_APPROVAL", "RESOLVED", "UNDER_APPEAL"}

Settlement == [type : SettlementType, worker : Nat, refund : Nat,
        outstanding : Nat, alreadyPaid : Nat]

NoSettlement == [type |-> "FULL_REFUND", worker |-> 0, refund |-> 0,
        outstanding |-> 0, alreadyPaid |-> 0]

Dispute == [status : {"none", "investigating", "resolved"}, active : BOOLEAN,
        kind : {"other", "cancellation"}, disputedAmount : Nat,
        stage : Stages, assigned : BOOLEAN, settled : BOOLEAN,
        settlement : Settlement, appealed : BOOLEAN]

\* What one call of staff is about to write over the case it read.
Update == [case : Apps, by : Investigators \cup Proposers, stage : Stages,
        restarts : BOOLEAN, settles : BOOLEAN, settlement : Settlement]

References == {"cancellation-payment", "assignment-cancellation-refund"} \X Apps

(***************************************************************************)
(* Every document is well formed: balances never go below zero, no status  *)
(* leaves its enumeration (models/*.js).                                   *)
(***************************************************************************)
TypeOK ==
  /\ job \in Job
  /\ app \in [Apps -> Application]
  /\ offer \in [Apps -> Offer]
  /\ cancellation \in [Apps -> Cancellation]
  /\ dispute \in [Apps -> Dispute]
  /\ pot \in [Wallets -> Nat]
  /\ wallet \in [Wallets -> Nat]
  /\ received \in [Apps -> Nat]
  /\ references \in SUBSET References
  /\ marking \in SUBSET Apps
  /\ saving \in SUBSET Update

(* ---- arithmetic on money ---------------------------------------------- *)

Monus(x, y) == IF x > y THEN x - y ELSE 0
Least(x, y) == IF x <= y THEN x ELSE y

\* The sum of f over S.  SumOver is a natural number by definition, which a
\* proof can use without an induction over S.
RawSum(f, S) == MapThenSumSet(LAMBDA a : f[a], S)
SumOver(f, S) == IF RawSum(f, S) \in Nat THEN RawSum(f, S) ELSE 0

Nothing == [w \in Wallets |-> 0]
FromEmployer(amount) == [w \in Wallets |-> IF w = "EMPLOYER" THEN amount ELSE 0]
Plus(f, g) == [w \in Wallets |-> f[w] + g[w]]
Minus(f, g) == [w \in Wallets |-> f[w] - g[w]]
AmountOf(f) == f["EMPLOYER"] + f["WORKER"]

(* ---- lib/hiringState.js and the counters ------------------------------ *)

TerminalJobStatuses == {"Completed", "Cancelled"}

Hires(as) == {a \in Apps : as[a].status = "Hired"}
ActiveOffers(os) == {a \in Apps : os[a].status \in {"pending", "accepted"}}
Unfinished(as) ==
  {a \in Hires(as) : as[a].workStatus \notin {"Completed", "Cancelled"}}

IsAtCapacity(j) == j.hiredCount + j.reservedOfferCount >= j.positionsNeeded

\* Mutant: capacity decides about a posting that is over, too.
ResolveAnyAvailability(j) ==
  IF j.hiredCount > 0 THEN "In Progress"
  ELSE IF j.closedManually \/ IsAtCapacity(j) THEN "Closed"
  ELSE "Available"

ResolveJobAvailability(j) ==
  IF j.status \in TerminalJobStatuses THEN j.status
  ELSE IF j.hiredCount > 0 THEN "In Progress"
  ELSE IF j.closedManually \/ IsAtCapacity(j) THEN "Closed"
  ELSE "Available"

\* Mutant: only the hires are counted again.
SyncHiresOnly(j, as, os) ==
  LET counted == [j EXCEPT !.hiredCount = Cardinality(Hires(as))]
  IN  IF j.cancellationPending THEN counted
      ELSE [counted EXCEPT !.status = ResolveJobAvailability(counted)]

SyncCapacity(j, as, os) ==
  LET counted == [j EXCEPT !.hiredCount = Cardinality(Hires(as)),
                           !.reservedOfferCount = Cardinality(ActiveOffers(os))]
  IN  IF j.cancellationPending THEN counted
      ELSE [counted EXCEPT !.status = ResolveJobAvailability(counted)]

ActiveDispute(a) == dispute[a].status = "investigating"

(* ---- services/jobFunds.js --------------------------------------------- *)

Unpaid(r) == Monus(r.agreedAmount, r.paidAmount)

RemainingJobFunds == AmountOf(pot)

\* getDisputeMoneySnapshot: what the ledger says of one assignment.
AlreadyPaid(a) == Least(app[a].agreedAmount, received[a])
RemainingAgreed(a) == app[a].agreedAmount - AlreadyPaid(a)

RequiredJobFunds(j, as, os) ==
  LET owed == {a \in Hires(as) : as[a].paymentStatus # "Paid"}
  IN  Monus(j.positionsNeeded, Cardinality(Hires(as))) * j.salary
      + SumOver([a \in Apps |-> Unpaid(as[a])], owed)
      + SumOver([a \in Apps |-> os[a].extra], ActiveOffers(os))

\* Mutant: employer funding is spent first.
SpendEmployerFirst(funds, amount) ==
  LET fromEmployer == Least(funds["EMPLOYER"], amount)
  IN  [w \in Wallets |-> IF w = "EMPLOYER" THEN fromEmployer ELSE amount - fromEmployer]

\* allocateSources without a preferred wallet: worker funding is spent first.
JobSpendingSources(funds, amount) ==
  LET fromWorker == Least(funds["WORKER"], amount)
  IN  [w \in Wallets |-> IF w = "WORKER" THEN fromWorker ELSE amount - fromWorker]

\* Mutant: what is left to return was read before the payment.
ReleaseFundsReadEarly(spent, returned, ends) ==
  /\ \A w \in Wallets : spent[w] + returned[w] <= pot[w]
  /\ pot' = IF ends THEN Nothing ELSE Minus(pot, Plus(spent, returned))
  /\ wallet' = Plus(wallet, IF ends THEN pot ELSE returned)

\* Mutant: everything that is returned goes to the employer wallet.
ReleaseFundsToEmployer(spent, returned, ends) ==
  /\ \A w \in Wallets : spent[w] + returned[w] <= pot[w]
  /\ pot' = IF ends THEN Nothing ELSE Minus(pot, Plus(spent, returned))
  /\ wallet' = Plus(wallet, FromEmployer(AmountOf(IF ends THEN Minus(pot, spent)
                                                  ELSE returned)))

\* What one transaction does to the escrow: spent goes to workers, returned to
\* the employer, and a transaction that ends the posting returns all the rest.
\* A wallet that does not cover its share makes the whole transaction throw.
ReleaseFunds(spent, returned, ends) ==
  /\ \A w \in Wallets : spent[w] + returned[w] <= pot[w]
  /\ pot' = IF ends THEN Nothing ELSE Minus(pot, Plus(spent, returned))
  /\ wallet' = Plus(wallet, IF ends THEN Minus(pot, spent) ELSE returned)

\* Refund of an offer's extra: preferredWallet must still hold all of it.
RefundOfferExtra(a) ==
  ReleaseFunds(Nothing, FromEmployer(offer[a].extra), FALSE)

=============================================================================
