-------------------------- MODULE JobPosting_proofs --------------------------
(***************************************************************************)
(* What holds of JobPosting for every value of its constants, with proofs. *)
(***************************************************************************)
EXTENDS JobPosting, FiniteSetTheorems, TLAPS

(* ---- the helpers ------------------------------------------------------ *)

Money == [Wallets -> Nat]

\* Salaries are amounts of money.
LEMMA SalaryType ==
  ASSUME NEW salary \in Salaries
  PROVE  salary \in Nat
BY AmountsAssumption

(***************************************************************************)
(* Amounts computed from amounts are amounts: never below zero.            *)
(***************************************************************************)
LEMMA MonusType ==
  ASSUME NEW x \in Nat, NEW y \in Nat
  PROVE  /\ Monus(x, y) \in Nat
         /\ Monus(x, y) <= x
         /\ Least(x, y) \in Nat
         /\ Least(x, y) <= x
         /\ Least(x, y) <= y
BY DEF Monus, Least

\* A sum of amounts is an amount.
LEMMA SumType ==
  ASSUME NEW f, NEW S
  PROVE  SumOver(f, S) \in Nat
BY DEF SumOver

\* Sums of sources are sources.
LEMMA MoneyType ==
  ASSUME NEW f \in Money, NEW g \in Money, NEW amount \in Nat
  PROVE  /\ Plus(f, g) \in Money
         /\ FromEmployer(amount) \in Money
         /\ Nothing \in Money
         /\ AmountOf(f) \in Nat
BY DEF Plus, FromEmployer, Nothing, AmountOf, Money, Wallets

\* A payment is shared out over the two wallets, neither share negative.
LEMMA SourcesType ==
  ASSUME NEW f \in [Wallets -> Int], f["WORKER"] \in Nat, NEW amount \in Nat
  PROVE  JobSpendingSources(f, amount) \in Money
BY DEF JobSpendingSources, Least, Money, Wallets

(***************************************************************************)
(* What is left after a payment can be shared out again.                   *)
(***************************************************************************)
LEMMA SpentFirstType ==
  ASSUME NEW funds \in Money, NEW amount \in Nat, NEW returned \in Nat
  PROVE  JobSpendingSources(Minus(funds, JobSpendingSources(funds, amount)), returned)
           \in Money
<1> DEFINE rest == Minus(funds, JobSpendingSources(funds, amount))
<1>1. JobSpendingSources(funds, amount)["WORKER"] = Least(funds["WORKER"], amount)
  BY DEF JobSpendingSources, Wallets
<1>2. funds["WORKER"] \in Nat /\ funds["EMPLOYER"] \in Nat
  BY DEF Money, Wallets
<1>3. rest["WORKER"] \in Nat
  BY <1>1, <1>2 DEF Minus, Wallets, Least
<1>4. rest \in [Wallets -> Int]
  BY <1>2, SourcesType DEF Minus, Wallets, JobSpendingSources, Least, Money
<1> QED
  BY <1>3, <1>4, SourcesType

(***************************************************************************)
(* ReleaseFunds leaves neither the escrow nor a wallet below zero.         *)
(***************************************************************************)
LEMMA ReleaseType ==
  ASSUME TypeOK, NEW spent \in Money, NEW returned \in Money, NEW ends \in BOOLEAN,
         ReleaseFunds(spent, returned, ends)
  PROVE  pot' \in Money /\ wallet' \in Money
<1>1. /\ pot \in Money
      /\ wallet \in Money
      /\ \A w \in Wallets : spent[w] + returned[w] <= pot[w]
  BY DEF TypeOK, Money, ReleaseFunds
<1>2. Minus(pot, Plus(spent, returned)) \in Money
  BY <1>1 DEF Minus, Plus, Money
<1>3. Minus(pot, spent) \in Money
  BY <1>1 DEF Minus, Money
<1>4. pot' \in Money
  BY <1>2, MoneyType, <1>1 DEF ReleaseFunds, Nothing, Money
<1>5. wallet' \in Money
  BY <1>1, <1>3, MoneyType DEF ReleaseFunds
<1> QED
  BY <1>4, <1>5

(***************************************************************************)
(* Counting hires and offers again gives a Job document.                   *)
(***************************************************************************)
LEMMA SyncType ==
  ASSUME NEW j \in Job, NEW as \in [Apps -> Application], NEW os \in [Apps -> Offer]
  PROVE  SyncCapacity(j, as, os) \in Job
<1>1. /\ Cardinality(Hires(as)) \in Nat
      /\ Cardinality(ActiveOffers(os)) \in Nat
  BY ScopeAssumption, FS_Subset, FS_CardinalityType DEF Hires, ActiveOffers
<1> DEFINE counted == [j EXCEPT !.hiredCount = Cardinality(Hires(as)),
                                !.reservedOfferCount = Cardinality(ActiveOffers(os))]
<1>2. counted \in Job
  BY <1>1 DEF Job
<1>3. ResolveJobAvailability(counted) \in JobStatus
  BY <1>2 DEF ResolveJobAvailability, Job, JobStatus
<1>4. [counted EXCEPT !.status = ResolveJobAvailability(counted)] \in Job
  BY <1>2, <1>3 DEF Job
<1> QED
  BY <1>2, <1>4 DEF SyncCapacity

(* ---- every document stays well formed --------------------------------- *)

LEMMA InitType == Init => TypeOK
<1> SUFFICES ASSUME Init PROVE TypeOK
  OBVIOUS
<1>1. PICK positions \in 1 .. MaxPositions, salary \in Salaries :
        CreateJob(positions, salary)
  BY DEF Init
<1> DEFINE escrow == positions * salary
           draw == Least(WalletAtStart["EMPLOYER"], escrow + PostingFee)
           fromEmployer == Least(escrow, Monus(draw, PostingFee))
<1>2. /\ positions \in Nat /\ salary \in Nat
      /\ PostingFee \in Nat /\ TopUp \in Nat
      /\ WalletAtStart["EMPLOYER"] \in Nat /\ WalletAtStart["WORKER"] \in Nat
  BY AmountsAssumption DEF Wallets
<1>3. escrow \in Nat
  BY <1>2
<1>4. /\ draw \in Nat
      /\ draw <= WalletAtStart["EMPLOYER"]
      /\ draw <= escrow + PostingFee
      /\ fromEmployer \in Nat
      /\ fromEmployer <= escrow
  <2>1. /\ escrow + PostingFee \in Nat
        /\ \A x, y \in Nat : Least(x, y) \in Nat /\ Least(x, y) <= x /\ Least(x, y) <= y
        /\ \A x, y \in Nat : Monus(x, y) \in Nat
    <3>1. escrow + PostingFee \in Nat
      BY <1>2, <1>3
    <3> QED
      BY <3>1, MonusType
  <2>2. draw \in Nat /\ draw <= WalletAtStart["EMPLOYER"] /\ draw <= escrow + PostingFee
    BY <1>2, <2>1
  <2>3. Monus(draw, PostingFee) \in Nat
    BY <1>2, <2>1, <2>2
  <2> QED
    BY <1>3, <2>1, <2>2, <2>3
<1>5. draw = WalletAtStart["EMPLOYER"] \/ draw = escrow + PostingFee
  BY DEF Least
<1> HIDE DEF draw, fromEmployer, escrow
<1>6. /\ pot = [w \in Wallets |-> IF w = "EMPLOYER" THEN fromEmployer
                                  ELSE escrow - fromEmployer]
      /\ wallet = [w \in Wallets |-> IF w = "EMPLOYER"
           THEN WalletAtStart[w] - draw + TopUp
           ELSE WalletAtStart[w] - (escrow + PostingFee - draw)]
      /\ escrow + PostingFee <= WalletAtStart["EMPLOYER"] + WalletAtStart["WORKER"]
  BY <1>1 DEF CreateJob, AmountOf, draw, fromEmployer, escrow
<1>7. pot \in [Wallets -> Nat] /\ wallet \in [Wallets -> Nat]
  BY <1>2, <1>3, <1>4, <1>5, <1>6 DEF Wallets
<1>8. job \in Job
  BY <1>1 DEF CreateJob, NewJob, Job, JobStatus
<1>9. /\ app \in [Apps -> Application]
      /\ offer \in [Apps -> Offer]
      /\ cancellation \in [Apps -> Cancellation]
      /\ received \in [Apps -> Nat]
      /\ references \in SUBSET References
      /\ marking \in SUBSET Apps
      /\ saving \in SUBSET Update
  BY DEF Init, NoApplication, NoOffer, Application, ApplicationStatus, WorkStatus,
         PaymentStatus, Offer, Cancellation
<1>10. dispute \in [Apps -> Dispute]
  BY DEF Init, Dispute, Stages, NoSettlement, Settlement, SettlementType
<1> QED
  BY <1>7, <1>8, <1>9, <1>10 DEF TypeOK

(***************************************************************************)
(* Dropping an offer, which five handlers do.                              *)
(***************************************************************************)
LEMMA DropOfferType ==
  ASSUME TypeOK, NEW a \in Apps, DropOffer(a)
  PROVE  TypeOK'
<1>1. offer' \in [Apps -> Offer]
  BY DEF TypeOK, DropOffer, NoOffer, Offer
<1>2. app' \in [Apps -> Application]
  <2>1. app \in [Apps -> Application] /\ app' = ToShortlist(a)
    BY DEF TypeOK, DropOffer
  <2> QED
    BY <2>1 DEF ToShortlist, Application, ApplicationStatus
<1>3. job' \in Job
  BY <1>1, <1>2, SyncType DEF TypeOK, DropOffer
<1>4. FromEmployer(offer[a].extra) \in Money /\ Nothing \in Money
  BY DEF TypeOK, Offer, FromEmployer, Nothing, Money, Wallets
<1>5. pot' \in Money /\ wallet' \in Money
  BY <1>4, ReleaseType DEF DropOffer, RefundOfferExtra
<1> QED
  BY <1>1, <1>2, <1>3, <1>5 DEF TypeOK, DropOffer, Money

\* Applying, offering, answering and hiring keep every document well formed.
LEMMA OfferStepType ==
  ASSUME TypeOK, NEW a \in Apps, OfferStep(a)
  PROVE  TypeOK'
<1>1. CASE ApplyForJob(a)
  BY <1>1 DEF TypeOK, ApplyForJob, Application, ApplicationStatus
<1>2. CASE WithdrawApplication(a)
  <2>1. offer' \in [Apps -> Offer]
    BY <1>2 DEF TypeOK, WithdrawApplication, NoOffer, Offer
  <2>2. app' \in [Apps -> Application]
    BY <1>2 DEF TypeOK, WithdrawApplication, Application, ApplicationStatus
  <2>3. job' \in Job
    BY <1>2, <2>1, <2>2, SyncType DEF TypeOK, WithdrawApplication
  <2>4. FromEmployer(offer[a].extra) \in Money /\ Nothing \in Money
    BY DEF TypeOK, Offer, FromEmployer, Nothing, Money, Wallets
  <2>5. pot' \in Money /\ wallet' \in Money
    BY <1>2, <2>4, ReleaseType DEF WithdrawApplication, RefundOfferExtra
  <2> QED
    BY <1>2, <2>1, <2>2, <2>3, <2>5 DEF TypeOK, WithdrawApplication, Money
<1>3. ASSUME NEW status \in {"Applied", "Rejected"}, UpdateApplicationStatus(a, status)
      PROVE  TypeOK'
  BY <1>3 DEF TypeOK, UpdateApplicationStatus, Application, ApplicationStatus
<1>4. ASSUME NEW extra \in Extras, CreateJobOffer(a, extra)
      PROVE  TypeOK'
  <2>1. extra \in Nat
    BY AmountsAssumption
  <2>2. offer' \in [Apps -> Offer]
    BY <1>4, <2>1 DEF TypeOK, CreateJobOffer, Offer
  <2>3. app' \in [Apps -> Application]
    <3>1. app \in [Apps -> Application] /\ app' = [app EXCEPT ![a].status = "Offer Sent"]
      BY <1>4 DEF TypeOK, CreateJobOffer
    <3> QED
      BY <3>1 DEF Application, ApplicationStatus
  <2>4. job' \in Job
    BY <1>4, <2>2, <2>3, SyncType DEF TypeOK, CreateJobOffer
  <2>5. wallet' \in [Wallets -> Nat]
    <3>1. /\ wallet \in [Wallets -> Nat]
          /\ wallet["EMPLOYER"] >= extra
          /\ wallet' = Minus(wallet, FromEmployer(extra))
      BY <1>4 DEF TypeOK, CreateJobOffer, Affords
    <3> QED
      BY <2>1, <3>1 DEF Minus, FromEmployer, Wallets
  <2>6. pot' \in [Wallets -> Nat]
    <3>1. pot \in [Wallets -> Nat] /\ pot' = Plus(pot, FromEmployer(extra))
      BY <1>4 DEF TypeOK, CreateJobOffer
    <3> QED
      BY <2>1, <3>1 DEF Plus, FromEmployer, Wallets
  <2> QED
    BY <1>4, <2>2, <2>3, <2>4, <2>5, <2>6 DEF TypeOK, CreateJobOffer
<1>5. CASE AcceptJobOffer(a)
  <2>1. offer' \in [Apps -> Offer]
    BY <1>5 DEF TypeOK, AcceptJobOffer, Offer
  <2>2. job' \in Job
    BY <1>5, <2>1, SyncType DEF TypeOK, AcceptJobOffer
  <2> QED
    BY <1>5, <2>1, <2>2 DEF TypeOK, AcceptJobOffer
<1>6. CASE RejectJobOffer(a)
  BY <1>6, DropOfferType DEF RejectJobOffer
<1>7. CASE CancelJobOffer(a)
  BY <1>7, DropOfferType DEF CancelJobOffer
<1>8. CASE ExpireOffer(a)
  BY <1>8, DropOfferType DEF ExpireOffer
<1>9. CASE ConfirmOfferHire(a)
  <2>1. job.salary + offer[a].extra \in Nat
    <3>1. job \in Job /\ offer \in [Apps -> Offer]
      BY DEF TypeOK
    <3>2. job.salary \in Salaries /\ offer[a].extra \in Nat
      BY <3>1 DEF Job, Offer
    <3> QED
      BY <3>2, SalaryType
  <2>2. app' \in [Apps -> Application]
    <3> DEFINE hired == [app[a] EXCEPT !.status = "Hired", !.workStatus = "Not started",
                          !.paymentStatus = "Secured",
                          !.agreedAmount = job.salary + offer[a].extra]
               filled(b) == [app[b] EXCEPT !.status = "Position filled"]
    <3>1. app \in [Apps -> Application]
      BY DEF TypeOK
    <3>2. hired \in Application
      BY <2>1, <3>1 DEF Application, ApplicationStatus, WorkStatus, PaymentStatus
    <3>3. \A b \in Apps : filled(b) \in Application
      BY <3>1 DEF Application, ApplicationStatus
    <3>4. app' = [b \in Apps |-> IF b = a THEN hired
                 ELSE IF /\ job.hiredCount + 1 >= job.positionsNeeded
                         /\ app[b].status \in {"Applied", "Offer Sent"}
                      THEN filled(b) ELSE app[b]]
      BY <1>9 DEF ConfirmOfferHire
    <3> QED
      BY <3>1, <3>2, <3>3, <3>4
  <2>3. offer' \in [Apps -> Offer]
    BY <1>9 DEF TypeOK, ConfirmOfferHire, NoOffer, Offer
  <2>4. job' \in Job
    <3>1. job \in Job
      BY DEF TypeOK
    <3>2. job.hiredCount \in Nat /\ job.reservedOfferCount \in Nat
      BY <3>1 DEF Job
    <3>3. job.hiredCount + 1 \in Nat /\ Monus(job.reservedOfferCount, 1) \in Nat
      <4>1. job.hiredCount + 1 \in Nat
        BY <3>2
      <4> QED
        BY <3>2, <4>1, MonusType
    <3>4. job' = [job EXCEPT !.hiredCount = job.hiredCount + 1,
                             !.reservedOfferCount = Monus(job.reservedOfferCount, 1),
                             !.status = "In Progress", !.hireConfirmed = TRUE]
      BY <1>9 DEF ConfirmOfferHire
    <3> QED
      BY <3>1, <3>3, <3>4 DEF Job, JobStatus
  <2> QED
    BY <1>9, <2>2, <2>3, <2>4 DEF TypeOK, ConfirmOfferHire
<1> QED
  BY <1>1, <1>2, <1>3, <1>4, <1>5, <1>6, <1>7, <1>8, <1>9 DEF OfferStep

(***************************************************************************)
(* What the ledger says of an assignment: amounts, and no more than the    *)
(* agreed one.                                                             *)
(***************************************************************************)
LEMMA SnapshotType ==
  ASSUME TypeOK, NEW a \in Apps
  PROVE  /\ app[a].agreedAmount \in Nat
         /\ app[a].paidAmount \in Nat
         /\ received[a] \in Nat
         /\ AlreadyPaid(a) \in Nat
         /\ AlreadyPaid(a) <= received[a]
         /\ RemainingAgreed(a) \in Nat
         /\ AlreadyPaid(a) + RemainingAgreed(a) = app[a].agreedAmount
         /\ Unpaid(app[a]) \in Nat
<1>1. app[a] \in Application /\ received[a] \in Nat
  BY DEF TypeOK
<1>2. app[a].agreedAmount \in Nat /\ app[a].paidAmount \in Nat
  BY <1>1 DEF Application
<1>3. Unpaid(app[a]) \in Nat
  BY <1>2, MonusType DEF Unpaid
<1> QED
  BY <1>1, <1>2, <1>3 DEF AlreadyPaid, RemainingAgreed, Least

\* One assignment changes, nothing else does.
LEMMA TransitionType ==
  ASSUME TypeOK, NEW a \in Apps, NEW r \in Application, Transition(a, r)
  PROVE  TypeOK'
<1>1. app' \in [Apps -> Application]
  BY DEF TypeOK, Transition
<1> QED
  BY <1>1 DEF TypeOK, Transition

(***************************************************************************)
(* Paying a set of assignments in one transaction.                         *)
(***************************************************************************)
LEMMA SettleType ==
  ASSUME TypeOK, NEW S \in SUBSET Apps, NEW j \in Job, Settle(S, j)
  PROVE  /\ app' \in [Apps -> Application]
         /\ received' \in [Apps -> Nat]
         /\ pot' \in Money /\ wallet' \in Money
         /\ job' \in Job
<1> DEFINE paid(a) == [app[a] EXCEPT !.paymentStatus = "Paid", !.workStatus = "Completed",
                         !.paidAmount = AlreadyPaid(a) + RemainingAgreed(a)]
           total == SumOver([a \in Apps |-> RemainingAgreed(a)], S)
<1>1. app \in [Apps -> Application] /\ pot \in Money /\ received \in [Apps -> Nat]
  BY DEF TypeOK, Money
<1>2. \A a \in Apps : AlreadyPaid(a) + RemainingAgreed(a) \in Nat
                      /\ RemainingAgreed(a) \in Nat /\ received[a] \in Nat
  BY SnapshotType
<1>3. \A a \in Apps : paid(a) \in Application
  <2>1. TAKE a \in Apps
  <2>2. app[a] \in Application /\ AlreadyPaid(a) + RemainingAgreed(a) \in Nat
    BY <1>1, <1>2
  <2> QED
    BY <2>2 DEF Application, PaymentStatus, WorkStatus
<1>4. app' = [a \in Apps |-> IF a \notin S THEN app[a] ELSE paid(a)]
  BY DEF Settle
<1>5. app' \in [Apps -> Application]
  BY <1>1, <1>3, <1>4
<1>6. received' \in [Apps -> Nat]
  <2>1. received' = [a \in Apps |-> received[a] + (IF a \in S THEN RemainingAgreed(a) ELSE 0)]
    BY DEF Settle
  <2> QED
    BY <1>2, <2>1
<1>7. total \in Nat
  BY SumType
<1>8. JobSpendingSources(pot, total) \in Money
  BY <1>1, <1>7, SourcesType DEF Money, Wallets
<1>9. ReleaseFunds(JobSpendingSources(pot, total), Nothing, Finalizes(j, app', offer))
  BY DEF Settle
<1>10. Nothing \in Money
  BY DEF Nothing, Money
<1>11. Finalizes(j, app', offer) \in BOOLEAN
  BY DEF Finalizes
<1>12. pot' \in Money /\ wallet' \in Money
  BY <1>8, <1>9, <1>10, <1>11, ReleaseType
<1>13. job' \in Job
  <2>1. job' = IF Finalizes(j, app', offer) THEN [j EXCEPT !.status = "Completed"] ELSE j
    BY DEF Settle, Finalized
  <2> QED
    BY <2>1 DEF Job, JobStatus
<1> QED
  BY <1>5, <1>6, <1>12, <1>13

\* Working and being paid keep every document well formed.
LEMMA AssignmentStepType ==
  ASSUME TypeOK, NEW a \in Apps, AssignmentStep(a)
  PROVE  TypeOK'
<1>1. app[a] \in Application
  BY DEF TypeOK
<1>2. CASE StartWork(a)
  BY <1>2 DEF TypeOK, StartWork, Application, WorkStatus
<1>3. CASE AuthorizePayment(a)
  <2>1. [app[a] EXCEPT !.paymentStatus = "Authorized"] \in Application
    BY <1>1 DEF Application, PaymentStatus
  <2> QED
    BY <1>3, <2>1, TransitionType DEF AuthorizePayment
<1>4. CASE SubmitWork(a)
  <2>1. [app[a] EXCEPT !.workStatus = "Submitted"] \in Application
    BY <1>1 DEF Application, WorkStatus
  <2> QED
    BY <1>4, <2>1, TransitionType DEF SubmitWork
<1>5. CASE RequestChanges(a)
  <2>1. [app[a] EXCEPT !.workStatus = "Changes Requested"] \in Application
    BY <1>1 DEF Application, WorkStatus
  <2> QED
    BY <1>5, <2>1, TransitionType DEF RequestChanges
<1>6. CASE SettleDirect(a)
  <2>1. job \in Job /\ {a} \in SUBSET Apps
    BY DEF TypeOK
  <2>2. Settle({a}, job)
    BY <1>6 DEF SettleDirect
  <2> QED
    BY <1>6, <2>1, <2>2, SettleType DEF TypeOK, SettleDirect, Money
<1> QED
  BY <1>2, <1>3, <1>4, <1>5, <1>6 DEF AssignmentStep

(***************************************************************************)
(* Cancelling an assignment, whoever decides it.                           *)
(***************************************************************************)
LEMMA CancelledType ==
  ASSUME NEW r \in Application, NEW amount \in Nat
  PROVE  CancelledApplication(r, amount) \in Application
<1>1. r.paidAmount + amount \in Nat
  BY DEF Application
<1>2. CancelledPayment(r.paidAmount + amount, r.agreedAmount) \in PaymentStatus
  BY DEF CancelledPayment, PaymentStatus
<1> QED
  BY <1>1, <1>2 DEF CancelledApplication, Application, ApplicationStatus, WorkStatus

\* A posting that ends is a posting.
LEMMA EndPostingType ==
  ASSUME NEW j \in Job, NEW as
  PROVE  EndPosting(j, as) \in Job /\ EndsPosting(j, as) \in BOOLEAN
BY DEF EndPosting, EndsPosting, Job, JobStatus

\* Cancelling an assignment keeps every document well formed.
LEMMA ResolveType ==
  ASSUME TypeOK, NEW a \in Apps, NEW amount \in Nat, NEW retainBaseFunding \in BOOLEAN,
         ResolveCancelledAssignment(a, amount, retainBaseFunding)
  PROVE  /\ app' \in [Apps -> Application]
         /\ cancellation' \in [Apps -> Cancellation]
         /\ received' \in [Apps -> Nat]
         /\ references' \in SUBSET References
         /\ pot' \in Money /\ wallet' \in Money
         /\ job' \in Job
<1> DEFINE retains == Retains(app[a], retainBaseFunding)
           unused == Monus(Unpaid(app[a]) - amount, IF retains THEN job.salary ELSE 0)
           refund == << "assignment-cancellation-refund", a >>
           returned == IF refund \in references THEN 0 ELSE unused
           spent == JobSpendingSources(pot, amount)
           synced == SyncCapacity(AfterCancelling(job, retains), app', offer)
           ends == EndsPosting(synced, app')
<1>1. /\ job \in Job /\ app \in [Apps -> Application] /\ offer \in [Apps -> Offer]
      /\ cancellation \in [Apps -> Cancellation] /\ received \in [Apps -> Nat]
      /\ references \in SUBSET References /\ pot \in Money
  BY DEF TypeOK, Money
<1>2. amount <= Unpaid(app[a]) /\ Unpaid(app[a]) \in Nat
  BY SnapshotType DEF ResolveCancelledAssignment
<1>3. job.salary \in Nat
  <2>1. job.salary \in Salaries
    BY <1>1 DEF Job
  <2> QED
    BY <2>1, SalaryType
<1>4. unused \in Nat
  BY <1>2, <1>3 DEF Monus
<1>5. app' \in [Apps -> Application]
  BY <1>1, CancelledType DEF ResolveCancelledAssignment
<1>6. cancellation' \in [Apps -> Cancellation]
  BY <1>1 DEF ResolveCancelledAssignment, Cancellation
<1>7. received' \in [Apps -> Nat]
  BY <1>1 DEF ResolveCancelledAssignment
<1>8. references' \in SUBSET References
  BY <1>1 DEF ResolveCancelledAssignment, References
<1>9. synced \in Job
  <2>1. AfterCancelling(job, retains) \in Job
    BY <1>1 DEF AfterCancelling, Job, JobStatus
  <2> QED
    BY <1>1, <1>5, <2>1, SyncType
<1>10. job' \in Job /\ ends \in BOOLEAN
  BY <1>9, EndPostingType DEF ResolveCancelledAssignment
<1>11. spent \in Money
  BY <1>1, SourcesType DEF Money, Wallets
<1>12. returned \in Nat
  BY <1>4
<1>13. ReleaseFunds(spent, JobSpendingSources(Minus(pot, spent), returned), ends)
  BY DEF ResolveCancelledAssignment
<1>14. JobSpendingSources(Minus(pot, spent), returned) \in Money
  BY <1>1, <1>12, SpentFirstType
<1>15. pot' \in Money /\ wallet' \in Money
  BY <1>10, <1>11, <1>13, <1>14, ReleaseType
<1> QED
  BY <1>5, <1>6, <1>7, <1>8, <1>10, <1>15

\* A case as it is opened.
LEMMA NewDisputeType ==
  ASSUME NEW kind \in {"other", "cancellation"}, NEW amount \in Nat
  PROVE  NewDispute(kind, amount) \in Dispute
BY DEF NewDispute, Dispute, Stages, NoSettlement, Settlement, SettlementType

\* A case takes the place of the one before it.
LEMMA OpenCaseType ==
  ASSUME TypeOK, NEW a \in Apps, NEW d \in Dispute, OpenCase(a, d)
  PROVE  dispute' \in [Apps -> Dispute] /\ saving' \in SUBSET Update
BY DEF TypeOK, OpenCase

\* Handing a cancellation to Finance keeps every document well formed.
LEMMA EscalateType ==
  ASSUME TypeOK, NEW a \in Apps, EscalateCancellation(a)
  PROVE  TypeOK'
<1>1. NewDispute("cancellation", Unpaid(app[a])) \in Dispute
  BY SnapshotType, NewDisputeType
<1>2. dispute' \in [Apps -> Dispute] /\ saving' \in SUBSET Update
  BY <1>1, OpenCaseType DEF TypeOK, EscalateCancellation
<1>3. app' \in [Apps -> Application]
  BY DEF TypeOK, EscalateCancellation, Application
<1>4. cancellation' \in [Apps -> Cancellation]
  BY DEF TypeOK, EscalateCancellation, Cancellation
<1> QED
  BY <1>2, <1>3, <1>4 DEF TypeOK, EscalateCancellation

\* So does every step of a cancellation.
LEMMA CancellationStepType ==
  ASSUME TypeOK, NEW a \in Apps, CancellationStep(a)
  PROVE  TypeOK'
<1>1. CASE CancelBeforeStart(a)
  <2>1. ResolveCancelledAssignment(a, 0, TRUE)
    BY <1>1 DEF CancelBeforeStart
  <2> QED
    BY <1>1, <2>1, ResolveType DEF TypeOK, CancelBeforeStart, Money
<1>2. ASSUME NEW workerPayment \in Proposals,
             RequestAssignmentCancellation(a, workerPayment)
      PROVE  TypeOK'
  <2>1. workerPayment \in Nat
    BY AmountsAssumption
  <2>2. cancellation' \in [Apps -> Cancellation]
    BY <1>2, <2>1 DEF TypeOK, RequestAssignmentCancellation, Cancellation
  <2>3. app' \in [Apps -> Application]
    BY <1>2 DEF TypeOK, RequestAssignmentCancellation, Application
  <2> QED
    BY <1>2, <2>2, <2>3 DEF TypeOK, RequestAssignmentCancellation
<1>3. CASE AcceptCancellation(a)
  <2>1. cancellation[a].workerPayment \in Nat
    BY DEF TypeOK, Cancellation
  <2>2. ResolveCancelledAssignment(a, cancellation[a].workerPayment, TRUE)
    BY <1>3 DEF AcceptCancellation
  <2> QED
    BY <1>3, <2>1, <2>2, ResolveType DEF TypeOK, AcceptCancellation, Money
<1>4. CASE RejectCancellation(a)
  BY <1>4, EscalateType DEF RejectCancellation
<1>5. CASE EscalateOverdueCancellation(a)
  BY <1>5, EscalateType DEF EscalateOverdueCancellation
<1> QED
  BY <1>1, <1>2, <1>3, <1>4, <1>5 DEF CancellationStep

(***************************************************************************)
(* Finance's decisions: the shares of what is available.                   *)
(***************************************************************************)
LEMMA AvailableType ==
  ASSUME TypeOK, NEW a \in Apps
  PROVE  /\ Available(a) \in Nat
         /\ Available(a) <= RemainingAgreed(a)
         /\ Available(a) <= dispute[a].disputedAmount
         /\ dispute[a].disputedAmount \in Nat
<1>1. dispute[a].disputedAmount \in Nat
  BY DEF TypeOK, Dispute
<1>2. RemainingJobFunds \in Nat
  <2>1. pot \in Money
    BY DEF TypeOK, Money
  <2> QED
    BY <2>1, MoneyType DEF RemainingJobFunds
<1> QED
  BY <1>1, <1>2, SnapshotType DEF Available, FundsHeld, Least

\* An assignment a decision was made on is an assignment.
LEMMA DecidedType ==
  ASSUME NEW r \in Application, NEW s \in Settlement
  PROVE  DecidedApplication(r, s) \in Application
<1>1. s.alreadyPaid + s.worker \in Nat
  BY DEF Settlement
<1> DEFINE status == DecidedApplication(r, s).paymentStatus
<1> QED
  BY <1>1 DEF DecidedApplication, Application, PaymentStatus, WorkStatus

\* What a call of staff is about to write is well formed...
LEMMA ToStageType ==
  ASSUME NEW a \in Apps, NEW by \in Investigators \cup Proposers, NEW stage \in Stages
  PROVE  ToStage(a, by, stage) \in Update
<1>1. NoSettlement \in Settlement
  BY DEF NoSettlement, Settlement, SettlementType
<1> QED
  BY <1>1 DEF ToStage, Update

\* ... reading the case writes nothing yet...
LEMMA ReadsType ==
  ASSUME TypeOK, NEW u \in Update, Reads(u)
  PROVE  TypeOK'
BY DEF TypeOK, Reads

\* ... and saving it writes just that.
LEMMA SaveStepType ==
  ASSUME TypeOK, NEW u \in saving, SaveCase(u) \/ LoseCase(u)
  PROVE  TypeOK'
<1>1. u \in Update /\ dispute \in [Apps -> Dispute]
  BY DEF TypeOK
<1>2. CASE SaveCase(u)
  <2>1. u.case \in Apps /\ dispute[u.case] \in Dispute
    BY <1>1 DEF Update
  <2>2. Saved(dispute[u.case], u) \in Dispute
    BY <1>1, <2>1 DEF Saved, Update, Dispute
  <2>3. dispute' = [dispute EXCEPT ![u.case] = Saved(dispute[u.case], u)]
    BY <1>2 DEF SaveCase
  <2>4. dispute' \in [Apps -> Dispute]
    BY <1>1, <2>2, <2>3
  <2> QED
    BY <1>2, <2>4 DEF SaveCase, TypeOK
<1>3. CASE LoseCase(u)
  BY <1>3 DEF LoseCase, TypeOK
<1> QED
  BY <1>2, <1>3

\* A proposed settlement shares out an amount, with nothing negative.
LEMMA ProposeType ==
  ASSUME TypeOK, NEW a \in Apps, NEW f \in Proposers, NEW type \in SettlementType,
         ProposeSettlement(a, f, type)
  PROVE  TypeOK'
<1> DEFINE s(share) == [type |-> type, worker |-> share[1], refund |-> share[2],
             alreadyPaid |-> AlreadyPaid(a),
             outstanding |-> IF type = "FULL_REFUND" THEN 0
               ELSE Monus(dispute[a].disputedAmount, share[1] + share[2])]
           u(share) == [ToStage(a, f, "PENDING_FINANCE_APPROVAL") EXCEPT
             !.settles = TRUE, !.settlement = s(share)]
<1>1. PICK share \in Shares(a, type) : Reads(u(share))
  BY DEF ProposeSettlement
<1>2. share[1] \in Nat /\ share[2] \in Nat
  BY AvailableType DEF Shares, SettlementType
<1>3. Monus(dispute[a].disputedAmount, share[1] + share[2]) \in Nat
  <2>1. share[1] + share[2] \in Nat
    BY <1>2
  <2> QED
    BY <2>1, AvailableType, MonusType
<1>4. s(share) \in Settlement
  BY <1>2, <1>3, SnapshotType DEF Settlement
<1>5. u(share) \in Update
  <2>1. ToStage(a, f, "PENDING_FINANCE_APPROVAL") \in Update
    BY ToStageType DEF Stages
  <2> HIDE DEF s
  <2> QED
    BY <1>4, <2>1 DEF Update
<1> HIDE DEF u
<1> QED
  BY <1>1, <1>5, ReadsType

\* Carrying out a decision keeps every document well formed.
LEMMA ApproveType ==
  ASSUME TypeOK, NEW a \in Apps, ApproveSettlement(a)
  PROVE  TypeOK'
<1> DEFINE s == dispute[a].settlement
<1>1. dispute[a] \in Dispute /\ app[a] \in Application /\ pot \in Money /\ job \in Job
  BY DEF TypeOK, Money
<1>2. s \in Settlement /\ s.worker \in Nat /\ s.refund \in Nat
  BY <1>1 DEF Dispute, Settlement
<1>3. dispute' \in [Apps -> Dispute]
  <2>1. NoSettlement \in Settlement
    BY DEF NoSettlement, Settlement, SettlementType
  <2>2. dispute' = [dispute EXCEPT ![a].status = "resolved", ![a].active = FALSE,
                       ![a].stage = "RESOLVED", ![a].settlement = NoSettlement]
    BY DEF ApproveSettlement
  <2>3. [dispute[a] EXCEPT !.status = "resolved", !.active = FALSE,
           !.stage = "RESOLVED", !.settlement = NoSettlement]
          \in Dispute
    BY <1>1, <2>1 DEF Dispute, Stages
  <2>4. dispute \in [Apps -> Dispute]
    BY DEF TypeOK
  <2> QED
    BY <2>2, <2>3, <2>4
<1>4. UNCHANGED << offer, marking, saving >>
  BY DEF ApproveSettlement
<1>5. CASE ClosesAssignment(a, s)
  <2>1. ResolveCancelledAssignment(a, s.worker, FALSE)
    BY <1>5 DEF ApproveSettlement
  <2> QED
    BY <1>2, <1>3, <1>4, <2>1, ResolveType DEF TypeOK, Money
<1>6. CASE ~ ClosesAssignment(a, s)
  <2> DEFINE r == [(IF dispute[a].disputedAmount > 0 THEN DecidedApplication(app[a], s)
                    ELSE app[a]) EXCEPT !.disputePending = FALSE]
             spent == JobSpendingSources(pot, s.worker)
  <2>1. KeepAssignment(a, s)
    BY <1>6 DEF ApproveSettlement
  <2>2. r \in Application
    <3>1. (IF dispute[a].disputedAmount > 0 THEN DecidedApplication(app[a], s)
           ELSE app[a]) \in Application
      BY <1>1, <1>2, DecidedType
    <3> QED
      BY <3>1 DEF Application
  <2>3. app' \in [Apps -> Application]
    BY <2>1, <2>2 DEF KeepAssignment, TypeOK
  <2>4. received' \in [Apps -> Nat]
    BY <1>2, <2>1 DEF KeepAssignment, TypeOK
  <2>5. pot' \in Money /\ wallet' \in Money
    <3>1. ReleaseFunds(spent, JobSpendingSources(Minus(pot, spent), s.refund), FALSE)
      BY <2>1 DEF KeepAssignment
    <3>2. spent \in Money
      <4>1. pot \in [Wallets -> Int] /\ pot["WORKER"] \in Nat
        BY <1>1 DEF Money, Wallets
      <4> HIDE DEF s
      <4> QED
        BY <1>2, <4>1, SourcesType
    <3>3. JobSpendingSources(Minus(pot, spent), s.refund) \in Money
      BY <1>1, <1>2, SpentFirstType
    <3> QED
      BY <3>1, <3>2, <3>3, ReleaseType
  <2>6. job' \in Job
    <3>1. SyncCapacity(job, app', offer) \in Job
      BY <1>1, <2>3, SyncType DEF TypeOK
    <3>2. job' = AfterDecision(r)
      BY <2>1 DEF KeepAssignment
    <3>3. [job EXCEPT !.status = "Completed"] \in Job
      BY <1>1 DEF Job, JobStatus
    <3> HIDE DEF r
    <3> QED
      BY <1>1, <3>1, <3>2, <3>3 DEF AfterDecision
  <2> QED
    BY <1>3, <1>4, <2>1, <2>3, <2>4, <2>5, <2>6 DEF KeepAssignment, TypeOK, Money
<1> QED
  BY <1>5, <1>6

\* So does every step of a dispute.
LEMMA DisputeStepType ==
  ASSUME TypeOK, NEW a \in Apps, DisputeStep(a)
  PROVE  TypeOK'
<1>1. dispute[a] \in Dispute /\ dispute \in [Apps -> Dispute]
  BY DEF TypeOK
<1>2. CASE OpenDispute(a)
  <2> DEFINE contested ==
        IF \/ app[a].paymentStatus \in {"Paid", "Refunded", "Partially paid"}
           \/ app[a].status = "Cancelled" THEN 0 ELSE Unpaid(app[a])
  <2>1. contested \in Nat
    BY SnapshotType
  <2>2. NewDispute("other", contested) \in Dispute
    BY <2>1, NewDisputeType
  <2>3. dispute' \in [Apps -> Dispute] /\ saving' \in SUBSET Update
    BY <1>2, <2>2, OpenCaseType DEF OpenDispute
  <2>4. app' \in [Apps -> Application]
    <3>1. app \in [Apps -> Application] /\ (contested > 0) \in BOOLEAN
      BY DEF TypeOK
    <3>2. app' = [app EXCEPT ![a].disputePending = contested > 0]
      BY <1>2 DEF OpenDispute
    <3> HIDE DEF contested
    <3> QED
      BY <3>1, <3>2 DEF Application
  <2> QED
    BY <1>2, <2>3, <2>4 DEF TypeOK, OpenDispute
<1>3. ASSUME NEW amount \in 1 .. app[a].agreedAmount, OpenPaymentDispute(a, amount)
      PROVE  TypeOK'
  <2>1. amount \in Nat
    BY SnapshotType
  <2>2. dispute' \in [Apps -> Dispute] /\ saving' \in SUBSET Update
    BY <1>3, <2>1, NewDisputeType, OpenCaseType DEF OpenPaymentDispute
  <2>3. app' \in [Apps -> Application]
    <3>1. app \in [Apps -> Application] /\ (FundsHeld(a) > 0) \in BOOLEAN
      BY DEF TypeOK
    <3>2. app' = [app EXCEPT ![a].paymentStatus = "Disputed",
                             ![a].disputePending = FundsHeld(a) > 0]
      BY <1>3 DEF OpenPaymentDispute
    <3> QED
      BY <3>1, <3>2 DEF Application, PaymentStatus
  <2> QED
    BY <1>3, <2>2, <2>3 DEF TypeOK, OpenPaymentDispute
<1>4. ASSUME NEW by \in Investigators,
             \/ AssignSupport(a, by)
             \/ RequestEvidence(a, by)
             \/ CompleteInvestigation(a, by)
      PROVE  TypeOK'
  <2>1. \A stage \in Stages : ToStage(a, by, stage) \in Update
    BY ToStageType
  <2>2. [ToStage(a, by, "UNDER_INVESTIGATION") EXCEPT
           !.restarts = dispute[a].status # "investigating"] \in Update
    BY <2>1 DEF Update, Stages
  <2> QED
    BY <1>4, <2>1, <2>2, ReadsType
       DEF AssignSupport, RequestEvidence, CompleteInvestigation, Stages
<1>6. ASSUME NEW f \in Proposers, NEW type \in SettlementType,
             ProposeSettlement(a, f, type)
      PROVE  TypeOK'
  BY <1>6, ProposeType
<1>7. CASE ApproveSettlement(a)
  BY <1>7, ApproveType
<1>8. CASE SubmitAppeal(a)
  <2>1. dispute' \in [Apps -> Dispute]
    BY <1>1, <1>8 DEF SubmitAppeal, Dispute, Stages
  <2>2. app' \in [Apps -> Application]
    BY <1>8 DEF SubmitAppeal, TypeOK, Application, PaymentStatus
  <2> QED
    BY <1>8, <2>1, <2>2 DEF TypeOK, SubmitAppeal
<1> QED
  BY <1>2, <1>3, <1>4, <1>6, <1>7, <1>8 DEF DisputeStep

(***************************************************************************)
(* The employer's operations on the posting.                               *)
(***************************************************************************)
LEMMA UpdateJobType ==
  ASSUME TypeOK, NEW positions \in 1 .. MaxPositions, NEW salary \in Salaries,
         UpdateJob(positions, salary)
  PROVE  TypeOK'
<1> DEFINE before == job.positionsNeeded * job.salary
           after == positions * salary
           fromEmployer == Least(wallet["EMPLOYER"], after - before)
           added == [w \in Wallets |-> IF w = "EMPLOYER" THEN fromEmployer
                                       ELSE after - before - fromEmployer]
<1>1. job \in Job /\ pot \in Money /\ wallet \in Money
  BY DEF TypeOK, Money
<1>2. before \in Nat /\ after \in Nat
  <2>1. /\ job.positionsNeeded \in 1 .. MaxPositions
        /\ job.salary \in Salaries
    BY <1>1 DEF Job
  <2>2. /\ job.positionsNeeded \in Nat /\ job.salary \in Nat
        /\ positions \in Nat /\ salary \in Nat
    <3>1. MaxPositions \in Nat
      BY AmountsAssumption
    <3>2. job.salary \in Nat /\ salary \in Nat
      BY <2>1, SalaryType
    <3> QED
      BY <2>1, <3>1, <3>2
  <2> QED
    BY <2>2
<1>3. job' \in Job
  BY <1>1 DEF UpdateJob, Job
<1> HIDE DEF before, after
<1>4. CASE after >= before
  <2>1. /\ after - before <= wallet["EMPLOYER"] + wallet["WORKER"]
        /\ wallet' = Minus(wallet, added)
        /\ pot' = Plus(pot, added)
    BY <1>4 DEF UpdateJob, AmountOf, before, after
  <2>2. /\ wallet["EMPLOYER"] \in Nat /\ wallet["WORKER"] \in Nat
        /\ after - before \in Nat
    BY <1>1, <1>2, <1>4 DEF Money, Wallets
  <2>3. /\ added["EMPLOYER"] \in Nat /\ added["WORKER"] \in Nat
        /\ added["EMPLOYER"] <= wallet["EMPLOYER"]
        /\ added["WORKER"] <= wallet["WORKER"]
    BY <2>1, <2>2 DEF Least, Wallets
  <2>4. added \in Money
    BY <2>3 DEF Money, Wallets
  <2> HIDE DEF added
  <2>5. wallet' \in Money
    BY <1>1, <2>1, <2>3, <2>4 DEF Minus, Money, Wallets
  <2>6. pot' \in Money
    BY <1>1, <2>1, <2>4, MoneyType
  <2> QED
    BY <1>3, <2>5, <2>6 DEF UpdateJob, TypeOK, Money
<1>5. CASE ~ (after >= before)
  <2>1. ReleaseFunds(Nothing, JobSpendingSources(pot, before - after), FALSE)
    BY <1>5 DEF UpdateJob, before, after
  <2>2. Nothing \in Money
    BY DEF Nothing, Money
  <2>3. before - after \in Nat
    BY <1>2, <1>5
  <2>4. JobSpendingSources(pot, before - after) \in Money
    BY <1>1, <2>3, SourcesType DEF Money, Wallets
  <2>5. pot' \in Money /\ wallet' \in Money
    BY <2>1, <2>2, <2>4, ReleaseType
  <2> QED
    BY <1>3, <2>5 DEF UpdateJob, TypeOK, Money
<1> QED
  BY <1>4, <1>5

\* So does cancelling the whole posting.
LEMMA RequestPostingCancellationType ==
  ASSUME TypeOK, NEW workerPayment \in Proposals,
         RequestPostingCancellation(workerPayment)
  PROVE  TypeOK'
<1> DEFINE hired == {a \in Hires(app) : app[a].workStatus # "Completed"}
           idle == {a \in hired : app[a].workStatus = "Not started"}
           extras == SumOver([a \in Apps |-> offer[a].extra], ActiveOffers(offer))
           unused == SumOver([a \in Apps |-> Unpaid(app[a])], idle)
           withdrawn == FromEmployer(extras)
           stopped == [job EXCEPT !.cancellationPending = TRUE,
                                  !.closedManually = TRUE, !.status = "Closed"]
           synced == SyncCapacity(stopped, app', offer')
           returned == Plus(withdrawn,
                            JobSpendingSources(Minus(pot, withdrawn), unused))
<1>1. /\ job \in Job /\ pot \in Money /\ app \in [Apps -> Application]
      /\ cancellation \in [Apps -> Cancellation]
      /\ references \in SUBSET References
  BY DEF TypeOK, Money
<1>2. workerPayment \in Nat
  BY AmountsAssumption
<1>3. offer' \in [Apps -> Offer]
  BY DEF RequestPostingCancellation, Offer
<1>4. app' \in [Apps -> Application]
  <2> DEFINE waiting(a) == [app[a] EXCEPT !.cancellationPending = TRUE]
             dropped(a) == [app[a] EXCEPT !.status = "Cancelled"]
  <2>1. app' = [a \in Apps |-> IF a \in idle THEN CancelledApplication(app[a], 0)
           ELSE IF a \in hired THEN waiting(a)
           ELSE IF app[a].status \in {"Applied", "Offer Sent", "Position filled"}
                THEN dropped(a)
           ELSE app[a]]
    BY DEF RequestPostingCancellation
  <2>2. \A a \in Apps : CancelledApplication(app[a], 0) \in Application
    BY <1>1, CancelledType
  <2>3. \A a \in Apps : waiting(a) \in Application /\ dropped(a) \in Application
    BY <1>1 DEF Application, ApplicationStatus
  <2> HIDE DEF waiting, dropped
  <2> QED
    BY <1>1, <2>1, <2>2, <2>3
<1>5. cancellation' \in [Apps -> Cancellation]
  <2>1. cancellation' = [a \in Apps |->
           IF a \in idle THEN [status |-> "resolved", workerPayment |-> 0]
           ELSE IF a \in hired
                THEN [status |-> "pending", workerPayment |-> workerPayment]
           ELSE cancellation[a]]
    BY DEF RequestPostingCancellation
  <2> QED
    BY <1>1, <1>2, <2>1 DEF Cancellation
<1>6. references' \in SUBSET References
  <2>1. references' = references \cup {<< "assignment-cancellation-refund", a >> :
                        a \in {b \in idle : Unpaid(app[b]) > 0}}
    BY DEF RequestPostingCancellation
  <2>2. idle \subseteq Apps
    BY DEF Hires
  <2> HIDE DEF idle
  <2>3. \A a \in idle : << "assignment-cancellation-refund", a >> \in References
    BY <2>2 DEF References
  <2> QED
    BY <1>1, <2>1, <2>3
<1>7. synced \in Job
  <2>1. stopped \in Job
    BY <1>1 DEF Job, JobStatus
  <2> QED
    BY <1>3, <1>4, <2>1, SyncType
<1>8. job' \in Job /\ EndsPosting(synced, app') \in BOOLEAN
  BY <1>7, EndPostingType DEF RequestPostingCancellation
<1>9. extras \in Nat /\ unused \in Nat
  BY SumType
<1>10. withdrawn \in Money
  BY <1>9, <1>1, MoneyType
<1>11. JobSpendingSources(Minus(pot, withdrawn), unused) \in Money
  <2>1. /\ Minus(pot, withdrawn) \in [Wallets -> Int]
        /\ Minus(pot, withdrawn)["WORKER"] \in Nat
    <3>1. withdrawn = [w \in Wallets |-> IF w = "EMPLOYER" THEN extras ELSE 0]
      BY DEF FromEmployer
    <3> HIDE DEF withdrawn, extras
    <3> QED
      <4>1. \A w \in Wallets : pot[w] \in Nat /\ withdrawn[w] \in Nat
        BY <1>1, <1>9, <3>1 DEF Money
      <4>2. withdrawn["WORKER"] = 0
        BY <3>1 DEF Wallets
      <4> QED
        BY <4>1, <4>2 DEF Minus, Wallets
  <2> HIDE DEF withdrawn, unused
  <2> QED
    BY <1>9, <2>1, SourcesType
<1>12. returned \in Money /\ Nothing \in Money
  BY <1>10, <1>11, <1>9, MoneyType
<1>13. ReleaseFunds(Nothing, returned, EndsPosting(synced, app'))
  BY DEF RequestPostingCancellation
<1>14. pot' \in Money /\ wallet' \in Money
  BY <1>8, <1>12, <1>13, ReleaseType
<1>15. UNCHANGED << dispute, received, marking, saving >>
  BY DEF RequestPostingCancellation
<1> QED
  BY <1>3, <1>4, <1>5, <1>6, <1>8, <1>14, <1>15 DEF TypeOK, Money

\* So do the employer's operations on the posting.
LEMMA PostingStepType ==
  ASSUME TypeOK, PostingStep
  PROVE  TypeOK'
<1>1. job \in Job /\ app \in [Apps -> Application] /\ offer \in [Apps -> Offer]
  BY DEF TypeOK
<1>2. ASSUME NEW positions \in 1 .. MaxPositions, NEW salary \in Salaries,
             UpdateJob(positions, salary)
      PROVE  TypeOK'
  BY <1>2, UpdateJobType
<1>3. CASE CloseJob
  <2> DEFINE closed == SyncCapacity([job EXCEPT !.closedManually = TRUE], app, offer)
  <2>1. closed \in Job
    <3>1. [job EXCEPT !.closedManually = TRUE] \in Job
      BY <1>1 DEF Job
    <3> QED
      BY <1>1, <3>1, SyncType
  <2>2. /\ job' = Finalized(closed, app, offer)
        /\ ReleaseFunds(Nothing, Nothing, Finalizes(closed, app, offer))
    BY <1>3 DEF CloseJob
  <2> HIDE DEF closed
  <2>3. job' \in Job
    BY <2>1, <2>2 DEF Finalized, Job, JobStatus
  <2>4. Nothing \in Money /\ Finalizes(closed, app, offer) \in BOOLEAN
    BY DEF Nothing, Money, Finalizes
  <2>5. pot' \in Money /\ wallet' \in Money
    BY <2>2, <2>4, ReleaseType
  <2> QED
    BY <1>3, <2>3, <2>5 DEF CloseJob, TypeOK, Money
<1>4. CASE ReopenJob
  <2>1. [job EXCEPT !.closedManually = FALSE, !.archived = FALSE] \in Job
    BY <1>1 DEF Job
  <2>2. job' \in Job
    BY <1>1, <1>4, <2>1, SyncType DEF ReopenJob
  <2> QED
    BY <1>4, <2>2 DEF ReopenJob, TypeOK
<1>5. CASE ArchiveJob
  <2>1. job' \in Job
    BY <1>1, <1>5 DEF ArchiveJob, Job
  <2> QED
    BY <1>5, <2>1 DEF ArchiveJob, TypeOK
<1>6. CASE BeginMarkDone
  BY <1>6 DEF BeginMarkDone, TypeOK, Hires
<1>7. CASE CommitMarkDone
  <2> DEFINE due == {a \in marking : app[a].paymentStatus # "Paid"}
             closed == [job EXCEPT !.closedManually = TRUE]
  <2>1. due \in SUBSET Apps
    BY DEF TypeOK
  <2>2. closed \in Job
    BY <1>1 DEF Job
  <2>3. /\ Settle(due, closed) /\ marking' = {}
        /\ UNCHANGED << offer, cancellation, dispute, references, saving >>
    BY <1>7 DEF CommitMarkDone
  <2> HIDE DEF due, closed
  <2> QED
    BY <2>1, <2>2, <2>3, SettleType DEF TypeOK, Money
<1>8. CASE AbortMarkDone
  BY <1>8 DEF AbortMarkDone, TypeOK
<1>9. ASSUME NEW workerPayment \in Proposals, RequestPostingCancellation(workerPayment)
      PROVE  TypeOK'
  BY <1>9, RequestPostingCancellationType
<1> QED
  BY <1>2, <1>3, <1>4, <1>5, <1>6, <1>7, <1>8, <1>9 DEF PostingStep

\* Type correctness is inductive on its own.
LEMMA NextType == TypeOK /\ [Next]_vars => TypeOK'
<1> SUFFICES ASSUME TypeOK, [Next]_vars PROVE TypeOK'
  OBVIOUS
<1>1. CASE PostingStep
  BY <1>1, PostingStepType
<1>2. ASSUME NEW a \in Apps,
             OfferStep(a) \/ AssignmentStep(a) \/ CancellationStep(a) \/ DisputeStep(a)
      PROVE  TypeOK'
  BY <1>2, OfferStepType, AssignmentStepType, CancellationStepType, DisputeStepType
<1>3. ASSUME NEW u \in saving, SaveCase(u) \/ LoseCase(u)
      PROVE  TypeOK'
  BY <1>3, SaveStepType
<1>4. CASE UNCHANGED vars
  BY <1>4 DEF vars, TypeOK
<1> QED
  BY <1>1, <1>2, <1>3, <1>4 DEF Next

(***************************************************************************)
(* Every reachable state is well formed: no handler takes the escrow, a    *)
(* wallet or a counter below zero or writes a status outside its           *)
(* enumeration, whatever the applications, amounts and bounds.             *)
(***************************************************************************)
THEOREM TypeCorrect == Spec => []TypeOK
<1>1. Init => TypeOK
  BY InitType
<1>2. TypeOK /\ [Next]_vars => TypeOK'
  BY NextType
<1> QED
  BY <1>1, <1>2, PTL DEF Spec

(* ---- every worker is paid what the assignment says, and no more ------- *)

\* PaidOnce is not inductive: a hire sets the agreed amount, so it must know
\* that nothing was paid before, and a decision on a dispute pays, so it must
\* know that what it decides on is an assignment, and so must the staff's calls
\* that are still to write to a case.
CallsOnAssignments == \A u \in saving : IsAssignment(app[u.case])
PaidInv == TypeOK /\ PaidOnce /\ OnlyAssignments /\ CallsOnAssignments

(***************************************************************************)
(* A step that pays nobody, agrees on no amount and touches cancellations  *)
(* and disputes of assignments only keeps the invariant.                   *)
(***************************************************************************)
LEMMA UnpaidStep ==
  ASSUME PaidInv, TypeOK',
         received' = received, saving' \subseteq saving,
         \A b \in Apps : /\ app'[b].paidAmount = app[b].paidAmount
                         /\ app'[b].agreedAmount = app[b].agreedAmount
                         /\ IsAssignment(app[b]) => IsAssignment(app'[b])
                         /\ ~ IsAssignment(app'[b]) =>
                              /\ cancellation'[b] = cancellation[b]
                              /\ dispute'[b] = dispute[b]
  PROVE  PaidInv'
<1>1. \A u \in saving : u.case \in Apps
  BY DEF PaidInv, TypeOK, Update
<1> QED
  BY <1>1 DEF PaidInv, PaidOnce, OnlyAssignments, CallsOnAssignments

\* The staff's calls stay on assignments while what is one stays one.
LEMMA CallsStay ==
  ASSUME PaidInv, saving' \subseteq saving,
         \A b \in Apps : IsAssignment(app[b]) => IsAssignment(app'[b])
  PROVE  CallsOnAssignments'
<1>1. \A u \in saving : u.case \in Apps
  BY DEF PaidInv, TypeOK, Update
<1> QED
  BY <1>1 DEF PaidInv, CallsOnAssignments

\* Giving up an offer concerns no assignment.
LEMMA DropOfferPaid ==
  ASSUME PaidInv, NEW a \in Apps, DropOffer(a), TypeOK'
  PROVE  PaidInv'
<1>1. app \in [Apps -> Application]
  BY DEF PaidInv, TypeOK
<1>2. /\ app' = ToShortlist(a)
      /\ UNCHANGED << cancellation, dispute, received, saving >>
  BY DEF DropOffer
<1> QED
  BY <1>1, <1>2, UnpaidStep DEF ToShortlist, IsAssignment, Application

\* Nothing was paid on an application before it is hired.
LEMMA OfferStepPaid ==
  ASSUME PaidInv, NEW a \in Apps, OfferStep(a)
  PROVE  PaidInv'
<1>1. TypeOK' /\ app \in [Apps -> Application]
  BY OfferStepType DEF PaidInv, TypeOK
<1>2. CASE ApplyForJob(a)
  BY <1>1, <1>2, UnpaidStep DEF ApplyForJob, IsAssignment, Application
<1>3. CASE WithdrawApplication(a)
  BY <1>1, <1>3, UnpaidStep DEF WithdrawApplication, IsAssignment, Application
<1>4. ASSUME NEW status \in {"Applied", "Rejected"}, UpdateApplicationStatus(a, status)
      PROVE  PaidInv'
  BY <1>1, <1>4, UnpaidStep DEF UpdateApplicationStatus, IsAssignment, Application
<1>5. ASSUME NEW extra \in Extras, CreateJobOffer(a, extra)
      PROVE  PaidInv'
  BY <1>1, <1>5, UnpaidStep DEF CreateJobOffer, IsAssignment, Application
<1>6. CASE AcceptJobOffer(a)
  BY <1>1, <1>6, UnpaidStep DEF AcceptJobOffer
<1>7. CASE RejectJobOffer(a)
  BY <1>1, <1>7, DropOfferPaid DEF RejectJobOffer
<1>8. CASE CancelJobOffer(a)
  BY <1>1, <1>8, DropOfferPaid DEF CancelJobOffer
<1>9. CASE ExpireOffer(a)
  BY <1>1, <1>9, DropOfferPaid DEF ExpireOffer
<1>10. CASE ConfirmOfferHire(a)
  <2>1. ~ IsAssignment(app[a]) /\ received[a] = 0 /\ app[a].paidAmount = 0
    BY <1>10 DEF ConfirmOfferHire, IsAssignment, PaidInv, OnlyAssignments, PaidOnce
  <2>2. UNCHANGED << cancellation, dispute, received, saving >>
    BY <1>10 DEF ConfirmOfferHire
  <2>3. \A b \in Apps \ {a} :
          /\ app'[b].paidAmount = app[b].paidAmount
          /\ app'[b].agreedAmount = app[b].agreedAmount
          /\ IsAssignment(app[b]) => IsAssignment(app'[b])
    BY <1>1, <1>10 DEF ConfirmOfferHire, IsAssignment, Application
  <2>4. IsAssignment(app'[a]) /\ app'[a].paidAmount = app[a].paidAmount
    BY <1>1, <1>10 DEF ConfirmOfferHire, IsAssignment, Application
  <2>5. app'[a].agreedAmount \in Nat
    BY <1>1 DEF TypeOK, Application
  <2>6. CallsOnAssignments'
    BY <2>2, <2>3, <2>4, CallsStay
  <2> QED
    BY <1>1, <2>1, <2>2, <2>3, <2>4, <2>5, <2>6 DEF PaidInv, PaidOnce, OnlyAssignments
<1> QED
  BY <1>2, <1>3, <1>4, <1>5, <1>6, <1>7, <1>8, <1>9, <1>10 DEF OfferStep

(***************************************************************************)
(* A payment brings what was received up to what was agreed.               *)
(***************************************************************************)
LEMMA SettlePaid ==
  ASSUME PaidInv, NEW S \in SUBSET Apps, NEW j \in Job, Settle(S, j), TypeOK',
         \A a \in S : app[a].status = "Hired",
         UNCHANGED << cancellation, dispute, saving >>
  PROVE  PaidInv'
<1>1. app \in [Apps -> Application]
  BY DEF PaidInv, TypeOK
<1>2. \A a \in Apps : received[a] <= app[a].agreedAmount /\ received[a] \in Nat
                      /\ app[a].agreedAmount \in Nat
  BY SnapshotType DEF PaidInv, PaidOnce
<1>3. \A a \in Apps : AlreadyPaid(a) = received[a]
  BY <1>2 DEF AlreadyPaid, Least
<1>4. app' = [a \in Apps |-> IF a \notin S THEN app[a]
                 ELSE [app[a] EXCEPT !.paymentStatus = "Paid",
                         !.workStatus = "Completed",
                         !.paidAmount = AlreadyPaid(a) + RemainingAgreed(a)]]
  BY DEF Settle
<1>5. received' = [a \in Apps |-> received[a] + (IF a \in S THEN RemainingAgreed(a) ELSE 0)]
  BY DEF Settle
<1>6. ASSUME NEW a \in S
      PROVE  /\ app'[a].paidAmount = app[a].agreedAmount
             /\ app'[a].agreedAmount = app[a].agreedAmount
             /\ received'[a] = app[a].agreedAmount
             /\ IsAssignment(app'[a])
  <2>1. a \in Apps /\ app[a] \in Application /\ app[a].status = "Hired"
    BY <1>1
  <2>2. AlreadyPaid(a) = received[a]
        /\ RemainingAgreed(a) = app[a].agreedAmount - received[a]
    BY <1>3, <2>1 DEF RemainingAgreed
  <2>3. received[a] + (app[a].agreedAmount - received[a]) = app[a].agreedAmount
    BY <1>2, <2>1
  <2>4. received'[a] = received[a] + RemainingAgreed(a)
    BY <1>5, <2>1
  <2>5. app'[a] = [app[a] EXCEPT !.paymentStatus = "Paid",
                     !.workStatus = "Completed",
                     !.paidAmount = AlreadyPaid(a) + RemainingAgreed(a)]
    BY <1>4, <2>1
  <2>6. /\ app'[a].paidAmount = AlreadyPaid(a) + RemainingAgreed(a)
        /\ app'[a].agreedAmount = app[a].agreedAmount
        /\ app'[a].status = "Hired"
    BY <2>1, <2>5 DEF Application
  <2> QED
    BY <2>2, <2>3, <2>4, <2>6 DEF IsAssignment
<1>7. ASSUME NEW a \in Apps \ S
      PROVE  app'[a] = app[a] /\ received'[a] = received[a]
  <2>1. app'[a] = app[a]
    BY <1>4
  <2>2. received'[a] = received[a] + 0
    BY <1>5
  <2>3. received[a] + 0 = received[a]
    BY <1>2
  <2> QED
    BY <2>1, <2>2, <2>3
<1>8. CallsOnAssignments'
  BY <1>6, <1>7, CallsStay
<1> QED
  BY <1>2, <1>6, <1>7, <1>8 DEF PaidInv, PaidOnce, OnlyAssignments

\* A direct payment pays what was left, and only then.
LEMMA AssignmentStepPaid ==
  ASSUME PaidInv, NEW a \in Apps, AssignmentStep(a)
  PROVE  PaidInv'
<1>1. TypeOK' /\ app \in [Apps -> Application] /\ job \in Job
  BY AssignmentStepType DEF PaidInv, TypeOK
<1>2. CASE StartWork(a)
  BY <1>1, <1>2, UnpaidStep DEF StartWork, IsAssignment, Application
<1>3. CASE AuthorizePayment(a)
  BY <1>1, <1>3, UnpaidStep DEF AuthorizePayment, Transition, IsAssignment, Application
<1>4. CASE SubmitWork(a)
  BY <1>1, <1>4, UnpaidStep DEF SubmitWork, Transition, IsAssignment, Application
<1>5. CASE RequestChanges(a)
  BY <1>1, <1>5, UnpaidStep DEF RequestChanges, Transition, IsAssignment, Application
<1>6. CASE SettleDirect(a)
  <2>1. /\ Settle({a}, job) /\ app[a].status = "Hired"
        /\ UNCHANGED << cancellation, dispute, saving >>
    BY <1>6 DEF SettleDirect, Settleable
  <2> QED
    BY <1>1, <2>1, SettlePaid
<1> QED
  BY <1>2, <1>3, <1>4, <1>5, <1>6 DEF AssignmentStep

(***************************************************************************)
(* What a cancellation pays is recorded, and is no more than was unpaid.   *)
(***************************************************************************)
LEMMA ResolvePaid ==
  ASSUME PaidInv, NEW a \in Apps, NEW amount \in Nat, NEW retainBaseFunding \in BOOLEAN,
         ResolveCancelledAssignment(a, amount, retainBaseFunding), TypeOK',
         saving' = saving,
         \A b \in Apps \ {a} : dispute'[b] = dispute[b]
  PROVE  PaidInv'
<1>1. /\ app \in [Apps -> Application] /\ received \in [Apps -> Nat]
      /\ cancellation \in [Apps -> Cancellation]
  BY DEF PaidInv, TypeOK
<1>2. /\ amount <= Unpaid(app[a])
      /\ app' = [app EXCEPT ![a] = CancelledApplication(app[a], amount)]
      /\ received' = [received EXCEPT ![a] = received[a] + amount]
      /\ \A b \in Apps \ {a} : cancellation'[b] = cancellation[b]
  BY <1>1 DEF ResolveCancelledAssignment
<1>3. /\ app[a].agreedAmount \in Nat /\ app[a].paidAmount \in Nat
      /\ received[a] = app[a].paidAmount
      /\ app[a].paidAmount <= app[a].agreedAmount
  BY SnapshotType DEF PaidInv, PaidOnce
<1>4. app[a].paidAmount + amount <= app[a].agreedAmount
  BY <1>2, <1>3 DEF Unpaid, Monus
<1>5. /\ app'[a].paidAmount = app[a].paidAmount + amount
      /\ app'[a].agreedAmount = app[a].agreedAmount
      /\ IsAssignment(app'[a])
  BY <1>1, <1>2 DEF CancelledApplication, IsAssignment, Application
<1>6. received'[a] = app[a].paidAmount + amount
  BY <1>1, <1>2, <1>3
<1>7. \A b \in Apps \ {a} : app'[b] = app[b] /\ received'[b] = received[b]
  BY <1>1, <1>2
<1>8. CallsOnAssignments'
  BY <1>5, <1>7, CallsStay
<1> QED
  BY <1>2, <1>4, <1>5, <1>6, <1>7, <1>8 DEF PaidInv, PaidOnce, OnlyAssignments

\* Handing a cancellation to Finance pays nobody.
LEMMA EscalatePaid ==
  ASSUME PaidInv, NEW a \in Apps, EscalateCancellation(a), TypeOK'
  PROVE  PaidInv'
<1>1. /\ app \in [Apps -> Application] /\ cancellation \in [Apps -> Cancellation]
      /\ dispute \in [Apps -> Dispute]
  BY DEF PaidInv, TypeOK
<1>2. IsAssignment(app[a])
  BY DEF EscalateCancellation, PaidInv, OnlyAssignments
<1>3. /\ app' = [app EXCEPT ![a].disputePending = TRUE]
      /\ \A b \in Apps \ {a} : cancellation'[b] = cancellation[b] /\ dispute'[b] = dispute[b]
      /\ received' = received /\ saving' \subseteq saving
  BY <1>1 DEF EscalateCancellation, OpenCase
<1> QED
  BY <1>1, <1>2, <1>3, UnpaidStep DEF IsAssignment, Application

\* Every step of a cancellation keeps the invariant.
LEMMA CancellationStepPaid ==
  ASSUME PaidInv, NEW a \in Apps, CancellationStep(a)
  PROVE  PaidInv'
<1>1. /\ TypeOK' /\ app \in [Apps -> Application]
      /\ cancellation \in [Apps -> Cancellation]
  BY CancellationStepType DEF PaidInv, TypeOK
<1>2. CASE CancelBeforeStart(a)
  BY <1>1, <1>2, ResolvePaid DEF CancelBeforeStart
<1>3. ASSUME NEW workerPayment \in Proposals,
             RequestAssignmentCancellation(a, workerPayment)
      PROVE  PaidInv'
  <2>1. /\ app[a].status = "Hired"
        /\ app' = [app EXCEPT ![a].cancellationPending = TRUE]
        /\ \A b \in Apps \ {a} : cancellation'[b] = cancellation[b]
        /\ UNCHANGED << dispute, received, saving >>
    BY <1>1, <1>3 DEF RequestAssignmentCancellation, Cancellable
  <2> QED
    BY <1>1, <2>1, UnpaidStep DEF IsAssignment, Application
<1>4. CASE AcceptCancellation(a)
  <2>1. cancellation[a].workerPayment \in Nat
    BY <1>1 DEF Cancellation
  <2> QED
    BY <1>1, <1>4, <2>1, ResolvePaid DEF AcceptCancellation
<1>5. CASE RejectCancellation(a)
  BY <1>1, <1>5, EscalatePaid DEF RejectCancellation
<1>6. CASE EscalateOverdueCancellation(a)
  BY <1>1, <1>6, EscalatePaid DEF EscalateOverdueCancellation
<1> QED
  BY <1>2, <1>3, <1>4, <1>5, <1>6 DEF CancellationStep

(***************************************************************************)
(* A call of staff on a case reads it...                                   *)
(***************************************************************************)
LEMMA ReadsPaid ==
  ASSUME PaidInv, NEW u, Reads(u), TypeOK', IsAssignment(app[u.case])
  PROVE  PaidInv'
<1>1. /\ saving' = saving \cup {u}
      /\ UNCHANGED << app, cancellation, dispute, received >>
  BY DEF Reads
<1> QED
  BY <1>1 DEF PaidInv, PaidOnce, OnlyAssignments, CallsOnAssignments

(***************************************************************************)
(* ... and saves it, which moves no money, or does not.                    *)
(***************************************************************************)
LEMMA SaveStepPaid ==
  ASSUME PaidInv, NEW u \in saving, SaveCase(u) \/ LoseCase(u)
  PROVE  PaidInv'
<1>1. TypeOK' /\ dispute \in [Apps -> Dispute] /\ IsAssignment(app[u.case])
  BY SaveStepType DEF PaidInv, TypeOK, CallsOnAssignments
<1>2. /\ \A b \in Apps : b # u.case => dispute'[b] = dispute[b]
      /\ saving' \subseteq saving
      /\ UNCHANGED << app, cancellation, received >>
  BY <1>1 DEF SaveCase, LoseCase
<1> QED
  BY <1>1, <1>2, UnpaidStep

(***************************************************************************)
(* A decision pays what it was proposed to pay: the ledger has not changed *)
(* since, and the share is at most what was left of the agreed amount.     *)
(***************************************************************************)
LEMMA ApprovePaid ==
  ASSUME PaidInv, NEW a \in Apps, ApproveSettlement(a), TypeOK'
  PROVE  PaidInv'
<1> DEFINE s == dispute[a].settlement
<1>1. /\ app \in [Apps -> Application] /\ received \in [Apps -> Nat]
      /\ dispute \in [Apps -> Dispute] /\ TypeOK
  BY DEF PaidInv, TypeOK
<1>2. s \in Settlement
  BY <1>1 DEF Dispute
<1>3. s.worker \in Nat /\ s.refund \in Nat /\ s.alreadyPaid \in Nat
  BY <1>2 DEF Settlement
<1>4. /\ IsAssignment(app[a])
      /\ AlreadyPaid(a) = s.alreadyPaid
      /\ s.worker + s.refund <= Available(a)
      /\ \A b \in Apps \ {a} : dispute'[b] = dispute[b]
      /\ saving' = saving
  BY <1>1 DEF ApproveSettlement, PaidInv, OnlyAssignments
<1>5. CASE ClosesAssignment(a, s)
  <2>1. ResolveCancelledAssignment(a, s.worker, FALSE)
    BY <1>5 DEF ApproveSettlement
  <2> HIDE DEF s
  <2> QED
    BY <1>3, <1>4, <2>1, ResolvePaid
<1>6. CASE ~ ClosesAssignment(a, s)
  <2> DEFINE base == IF dispute[a].disputedAmount > 0 THEN DecidedApplication(app[a], s)
                     ELSE app[a]
  <2>1. /\ app' = [app EXCEPT ![a] = [base EXCEPT !.disputePending = FALSE]]
        /\ received' = [received EXCEPT ![a] = received[a] + s.worker]
        /\ cancellation' = cancellation
    BY <1>6 DEF ApproveSettlement, KeepAssignment
  <2>2. /\ received[a] \in Nat /\ app[a].agreedAmount \in Nat
        /\ app[a].paidAmount = received[a] /\ received[a] <= app[a].agreedAmount
    BY <1>1, SnapshotType DEF PaidInv, PaidOnce
  <2>3. AlreadyPaid(a) = received[a]
    BY <2>2 DEF AlreadyPaid, Least
  <2>4. received[a] + s.worker <= app[a].agreedAmount
    BY <1>1, <1>3, <1>4, <2>2, <2>3, AvailableType, SnapshotType
  <2>5. base \in Application
    BY <1>1, <1>2, DecidedType
  <2>6. /\ base.agreedAmount = app[a].agreedAmount
        /\ base.status = app[a].status
        /\ base.paidAmount = received[a] + s.worker
    <3>1. CASE dispute[a].disputedAmount > 0
      <4>1. s.alreadyPaid = received[a]
        BY <1>4, <2>3
      <4> QED
        BY <1>1, <3>1, <4>1 DEF DecidedApplication, Application
    <3>2. CASE ~ (dispute[a].disputedAmount > 0)
      <4>1. s.worker = 0
        BY <1>1, <1>3, <1>4, <3>2, AvailableType
      <4> QED
        BY <1>1, <2>2, <3>2, <4>1
    <3> QED
      BY <3>1, <3>2
  <2> HIDE DEF base, s
  <2>7. /\ app'[a].agreedAmount = app[a].agreedAmount
        /\ app'[a].paidAmount = received[a] + s.worker
        /\ IsAssignment(app'[a])
    BY <1>1, <1>4, <2>1, <2>5, <2>6 DEF IsAssignment, Application
  <2>8. received'[a] = received[a] + s.worker
    BY <1>1, <2>1
  <2>9. \A b \in Apps \ {a} : app'[b] = app[b] /\ received'[b] = received[b]
    BY <1>1, <2>1
  <2>10. CallsOnAssignments'
    BY <1>4, <2>7, <2>9, CallsStay
  <2> QED
    BY <1>4, <2>1, <2>4, <2>7, <2>8, <2>9, <2>10 DEF PaidInv, PaidOnce, OnlyAssignments
<1> QED
  BY <1>5, <1>6

\* Every step of a dispute keeps the invariant.
LEMMA DisputeStepPaid ==
  ASSUME PaidInv, NEW a \in Apps, DisputeStep(a)
  PROVE  PaidInv'
<1>1. /\ TypeOK' /\ app \in [Apps -> Application] /\ dispute \in [Apps -> Dispute]
  BY DisputeStepType DEF PaidInv, TypeOK
<1>2. CASE OpenDispute(a)
  <2>1. /\ IsAssignment(app[a])
        /\ \E pending : app' = [app EXCEPT ![a].disputePending = pending]
        /\ \A b \in Apps \ {a} : dispute'[b] = dispute[b]
        /\ UNCHANGED << cancellation, received >> /\ saving' \subseteq saving
    BY <1>1, <1>2 DEF OpenDispute, OpenCase, IsAssignment
  <2> QED
    BY <1>1, <2>1, UnpaidStep DEF IsAssignment, Application
<1>3. ASSUME NEW amount \in 1 .. app[a].agreedAmount, OpenPaymentDispute(a, amount)
      PROVE  PaidInv'
  <2>1. /\ IsAssignment(app[a])
        /\ \E pending : app' = [app EXCEPT ![a].paymentStatus = "Disputed",
                                           ![a].disputePending = pending]
        /\ \A b \in Apps \ {a} : dispute'[b] = dispute[b]
        /\ UNCHANGED << cancellation, received >> /\ saving' \subseteq saving
    BY <1>1, <1>3 DEF OpenPaymentDispute, OpenCase, IsAssignment
  <2> QED
    BY <1>1, <2>1, UnpaidStep DEF IsAssignment, Application
<1>4. ASSUME NEW by \in Investigators,
             \/ AssignSupport(a, by)
             \/ RequestEvidence(a, by)
             \/ CompleteInvestigation(a, by)
      PROVE  PaidInv'
  <2>1. IsAssignment(app[a])
    BY <1>4 DEF AssignSupport, RequestEvidence, CompleteInvestigation, PaidInv,
                OnlyAssignments
  <2>2. PICK u : Reads(u) /\ u.case = a
    BY <1>4 DEF AssignSupport, RequestEvidence, CompleteInvestigation, ToStage
  <2> QED
    BY <1>1, <2>1, <2>2, ReadsPaid
<1>6. ASSUME NEW f \in Proposers, NEW type \in SettlementType,
             ProposeSettlement(a, f, type)
      PROVE  PaidInv'
  <2>1. IsAssignment(app[a])
    BY <1>6 DEF ProposeSettlement, PaidInv, OnlyAssignments
  <2> DEFINE s(share) == [type |-> type, worker |-> share[1], refund |-> share[2],
               alreadyPaid |-> AlreadyPaid(a),
               outstanding |-> IF type = "FULL_REFUND" THEN 0
                 ELSE Monus(dispute[a].disputedAmount, share[1] + share[2])]
             u(share) == [ToStage(a, f, "PENDING_FINANCE_APPROVAL") EXCEPT
               !.settles = TRUE, !.settlement = s(share)]
  <2>2. PICK share \in Shares(a, type) : Reads(u(share))
    BY <1>6 DEF ProposeSettlement
  <2>3. u(share).case = a
    BY Zenon DEF ToStage
  <2> HIDE DEF u
  <2> QED
    BY <1>1, <2>1, <2>2, <2>3, ReadsPaid
<1>7. CASE ApproveSettlement(a)
  BY <1>1, <1>7, ApprovePaid
<1>8. CASE SubmitAppeal(a)
  <2>1. /\ IsAssignment(app[a])
        /\ app' = [app EXCEPT ![a].paymentStatus = "Disputed"]
        /\ \A b \in Apps \ {a} : dispute'[b] = dispute[b]
        /\ UNCHANGED << cancellation, received, saving >>
    BY <1>1, <1>8 DEF SubmitAppeal, PaidInv, OnlyAssignments
  <2> QED
    BY <1>1, <2>1, UnpaidStep DEF IsAssignment, Application
<1> QED
  BY <1>2, <1>3, <1>4, <1>6, <1>7, <1>8 DEF DisputeStep

\* Only mark done pays anybody, each assignment what was left.
LEMMA PostingStepPaid ==
  ASSUME PaidInv, PostingStep
  PROVE  PaidInv'
<1>1. TypeOK' /\ app \in [Apps -> Application] /\ job \in Job /\ marking \in SUBSET Apps
  BY PostingStepType DEF PaidInv, TypeOK
<1>2. ASSUME NEW positions \in 1 .. MaxPositions, NEW salary \in Salaries,
             UpdateJob(positions, salary)
      PROVE  PaidInv'
  BY <1>1, <1>2, UnpaidStep DEF UpdateJob
<1>3. CASE CloseJob
  BY <1>1, <1>3, UnpaidStep DEF CloseJob
<1>4. CASE ReopenJob
  BY <1>1, <1>4, UnpaidStep DEF ReopenJob
<1>5. CASE ArchiveJob
  BY <1>1, <1>5, UnpaidStep DEF ArchiveJob
<1>6. CASE BeginMarkDone
  BY <1>1, <1>6, UnpaidStep DEF BeginMarkDone
<1>7. CASE CommitMarkDone
  <2> DEFINE due == {a \in marking : app[a].paymentStatus # "Paid"}
             closed == [job EXCEPT !.closedManually = TRUE]
  <2>1. /\ Settle(due, closed)
        /\ \A a \in due : app[a].status = "Hired"
        /\ UNCHANGED << cancellation, dispute, saving >>
    BY <1>7 DEF CommitMarkDone, Settleable
  <2>2. due \in SUBSET Apps /\ closed \in Job
    BY <1>1 DEF Job
  <2> HIDE DEF due, closed
  <2> QED
    BY <1>1, <2>1, <2>2, SettlePaid
<1>8. CASE AbortMarkDone
  BY <1>1, <1>8, UnpaidStep DEF AbortMarkDone
<1>9. ASSUME NEW workerPayment \in Proposals, RequestPostingCancellation(workerPayment)
      PROVE  PaidInv'
  <2> DEFINE hired == {a \in Hires(app) : app[a].workStatus # "Completed"}
             idle == {a \in hired : app[a].workStatus = "Not started"}
  <2>1. /\ app' = [a \in Apps |->
             IF a \in idle THEN CancelledApplication(app[a], 0)
             ELSE IF a \in hired THEN [app[a] EXCEPT !.cancellationPending = TRUE]
             ELSE IF app[a].status \in {"Applied", "Offer Sent", "Position filled"}
                  THEN [app[a] EXCEPT !.status = "Cancelled"]
             ELSE app[a]]
        /\ UNCHANGED << dispute, received, saving >>
    BY <1>9 DEF RequestPostingCancellation
  <2>2. \A b \in Apps \ hired : cancellation'[b] = cancellation[b]
    BY <1>9 DEF RequestPostingCancellation
  <2>3. \A b \in hired : b \in Apps /\ app[b].status = "Hired"
    BY DEF Hires
  <2>4. \A b \in Apps : CancelledApplication(app[b], 0).paidAmount = app[b].paidAmount
    <3>1. \A b \in Apps : app[b].paidAmount \in Nat
      BY <1>1 DEF Application
    <3> QED
      BY <1>1, <3>1 DEF CancelledApplication, Application
  <2>5. \A b \in Apps :
          /\ CancelledApplication(app[b], 0).agreedAmount = app[b].agreedAmount
          /\ CancelledApplication(app[b], 0).status = "Cancelled"
    BY <1>1 DEF CancelledApplication, Application
  <2> HIDE DEF hired
  <2>6. \A b \in Apps : /\ app'[b].paidAmount = app[b].paidAmount
                        /\ app'[b].agreedAmount = app[b].agreedAmount
                        /\ IsAssignment(app[b]) => IsAssignment(app'[b])
                        /\ b \in hired => IsAssignment(app'[b])
    BY <1>1, <2>1, <2>3, <2>4, <2>5 DEF IsAssignment, Application
  <2> QED
    BY <1>1, <2>1, <2>2, <2>6, UnpaidStep
<1> QED
  BY <1>2, <1>3, <1>4, <1>5, <1>6, <1>7, <1>8, <1>9 DEF PostingStep

\* Nobody was paid on a new posting.
LEMMA InitPaid == Init => PaidInv
<1> SUFFICES ASSUME Init PROVE PaidInv
  OBVIOUS
<1>1. TypeOK
  BY InitType
<1>2. PaidOnce
  <2>1. \A a \in Apps : /\ app[a] = NoApplication
                        /\ received[a] = 0
    BY DEF Init
  <2>2. NoApplication.paidAmount = 0 /\ NoApplication.agreedAmount = 0
    BY DEF NoApplication
  <2> QED
    BY <2>1, <2>2 DEF PaidOnce
<1>3. OnlyAssignments /\ CallsOnAssignments
  BY DEF Init, OnlyAssignments, CallsOnAssignments
<1> QED
  BY <1>1, <1>2, <1>3 DEF PaidInv

\* The invariant is inductive.
LEMMA NextPaid == PaidInv /\ [Next]_vars => PaidInv'
<1> SUFFICES ASSUME PaidInv, [Next]_vars PROVE PaidInv'
  OBVIOUS
<1>1. CASE PostingStep
  BY <1>1, PostingStepPaid
<1>2. ASSUME NEW a \in Apps,
             OfferStep(a) \/ AssignmentStep(a) \/ CancellationStep(a) \/ DisputeStep(a)
      PROVE  PaidInv'
  BY <1>2, OfferStepPaid, AssignmentStepPaid, CancellationStepPaid, DisputeStepPaid
<1>3. ASSUME NEW u \in saving, SaveCase(u) \/ LoseCase(u)
      PROVE  PaidInv'
  BY <1>3, SaveStepPaid
<1>4. CASE UNCHANGED vars
  <2>1. TypeOK'
    BY <1>4, NextType DEF PaidInv
  <2> QED
    BY <1>4, <2>1, UnpaidStep DEF vars
<1> QED
  BY <1>1, <1>2, <1>3, <1>4 DEF Next

(***************************************************************************)
(* The inductive strengthening of PaidOnce and OnlyAssignments always      *)
(* holds, for any number of workers and any amounts.                       *)
(***************************************************************************)
THEOREM PaidInvariant == Spec => []PaidInv
<1>1. Init => PaidInv
  BY InitPaid
<1>2. PaidInv /\ [Next]_vars => PaidInv'
  BY NextPaid
<1> QED
  BY <1>1, <1>2, PTL DEF Spec

(***************************************************************************)
(* Direct payment, mark done, an agreed cancellation and Finance's         *)
(* decision, appeals included, together never pay an assignment more than  *)
(* was agreed, and each is recorded on it.                                 *)
(***************************************************************************)
THEOREM PaidOnceAlways == Spec => []PaidOnce
<1>1. PaidInv => PaidOnce
  BY DEF PaidInv
<1> QED
  BY <1>1, PaidInvariant, PTL

(***************************************************************************)
(* Nobody is hired on an application that was an assignment before.        *)
(***************************************************************************)
THEOREM OnlyAssignmentsAlways == Spec => []OnlyAssignments
<1>1. PaidInv => OnlyAssignments
  BY DEF PaidInv
<1> QED
  BY <1>1, PaidInvariant, PTL

=============================================================================
