----------------------------- MODULE JobPosting -----------------------------
(***************************************************************************)
(* One job posting, from its publication to its end: the composition of    *)
(* the offer, assignment, cancellation and dispute services around one Job *)
(* document, with the employer's operations on the posting itself          *)
(* (controllers/JobController.js).                                         *)
(*                                                                         *)
(* Every action is one MongoDB transaction or one document write, and      *)
(* transactions are taken to be serializable: each writes the Job document *)
(* (fundsVersion) before it moves money, so two of them on one posting     *)
(* conflict.  The handlers that decide on what they read before they write *)
(* are two actions each: "mark done" and the staff's calls on a dispute.   *)
(* deleteJob reads and saves too, and is one: nothing tests what it saves. *)
(***************************************************************************)
EXTENDS JobOffers, Assignments, FinancialDisputes

(* ---- the posting itself ----------------------------------------------- *)

NoApplication == [status |-> "None", workStatus |-> "In Progress",
  paymentStatus |-> "Secured", agreedAmount |-> 0, paidAmount |-> 0,
  cancellationPending |-> FALSE, disputePending |-> FALSE]

NewJob(positions, salary) == [status |-> "Available",
  positionsNeeded |-> positions, salary |-> salary, hiredCount |-> 0,
  reservedOfferCount |-> 0, closedManually |-> FALSE,
  cancellationPending |-> FALSE, hireConfirmed |-> FALSE, archived |-> FALSE]

\* createJob pays fee and escrow out of the employer wallet first, the fee
\* before the escrow, and the rest out of the worker wallet.  The employer tops
\* the wallet up right after, or an offer could never promise an extra.
CreateJob(positions, salary) ==
  LET escrow == positions * salary
      draw == Least(WalletAtStart["EMPLOYER"], escrow + PostingFee)
      fromEmployer == Least(escrow, Monus(draw, PostingFee))
  IN  /\ escrow + PostingFee <= AmountOf(WalletAtStart)
      /\ job = NewJob(positions, salary)
      /\ pot = [w \in Wallets |-> IF w = "EMPLOYER" THEN fromEmployer
                                  ELSE escrow - fromEmployer]
      /\ wallet = [w \in Wallets |-> IF w = "EMPLOYER"
           THEN WalletAtStart[w] - draw + TopUp
           ELSE WalletAtStart[w] - (escrow + PostingFee - draw)]

Init ==
  /\ \E positions \in 1 .. MaxPositions, salary \in Salaries :
       CreateJob(positions, salary)
  /\ app = [a \in Apps |-> NoApplication]
  /\ offer = [a \in Apps |-> NoOffer]
  /\ cancellation = [a \in Apps |-> [status |-> "none", workerPayment |-> 0]]
  /\ dispute = [a \in Apps |-> [status |-> "none", active |-> FALSE,
       kind |-> "other", disputedAmount |-> 0, stage |-> "UNDER_INVESTIGATION",
       assigned |-> FALSE, settled |-> FALSE, settlement |-> NoSettlement,
       appealed |-> FALSE]]
  /\ received = [a \in Apps |-> 0]
  /\ references = {}
  /\ marking = {}
  /\ saving = {}

\* updateJob: before the first hire the posting's size and pay may change, and
\* the escrow follows.
UpdateJob(positions, salary) ==
  LET before == job.positionsNeeded * job.salary
      after == positions * salary
      fromEmployer == Least(wallet["EMPLOYER"], after - before)
      added == [w \in Wallets |-> IF w = "EMPLOYER" THEN fromEmployer
                                  ELSE after - before - fromEmployer]
  IN  /\ ~ job.hireConfirmed
      /\ salary # job.salary => job.hiredCount = 0 /\ job.reservedOfferCount = 0
      /\ ~ job.cancellationPending
      /\ job.status \notin TerminalJobStatuses
      /\ positions >= job.hiredCount + job.reservedOfferCount
      /\ job' = [job EXCEPT !.positionsNeeded = positions, !.salary = salary]
      /\ IF after >= before
         THEN /\ after - before <= AmountOf(wallet)
              /\ wallet' = Minus(wallet, added)
              /\ pot' = Plus(pot, added)
         ELSE ReleaseFunds(Nothing, JobSpendingSources(pot, before - after), FALSE)
      /\ UNCHANGED << app, offer, cancellation, dispute, received,
                      references, marking, saving >>

\* changeJobStatus(Closed), which also finalizes a posting already paid for.
CloseJob ==
  LET closed == SyncCapacity([job EXCEPT !.closedManually = TRUE], app, offer)
  IN  /\ ~ job.cancellationPending
      /\ job.status \notin TerminalJobStatuses
      /\ job' = Finalized(closed, app, offer)
      /\ ReleaseFunds(Nothing, Nothing, Finalizes(closed, app, offer))
      /\ UNCHANGED << app, offer, cancellation, dispute, received,
                      references, marking, saving >>

ReopenJob ==
  /\ job.status \notin TerminalJobStatuses
  /\ ~ job.cancellationPending
  /\ ~ IsAtCapacity(job)
  /\ RemainingJobFunds >= RequiredJobFunds(job, app, offer)
  /\ job' = SyncCapacity([job EXCEPT !.closedManually = FALSE, !.archived = FALSE],
                         app, offer)
  /\ UNCHANGED << app, offer, cancellation, dispute, pot, wallet, received,
                  references, marking, saving >>

\* deleteJob archives.
ArchiveJob ==
  /\ Unfinished(app) = {}
  /\ job.status \in {"Completed", "Cancelled", "Closed"}
  /\ ~ job.cancellationPending
  /\ job' = [job EXCEPT !.archived = TRUE]
  /\ UNCHANGED << app, offer, cancellation, dispute, pot, wallet, received,
                  references, marking, saving >>

(* ---- the specification ------------------------------------------------ *)

OfferStep(a) ==
  \/ ApplyForJob(a)
  \/ WithdrawApplication(a)
  \/ \E status \in {"Applied", "Rejected"} : UpdateApplicationStatus(a, status)
  \/ \E extra \in Extras : CreateJobOffer(a, extra)
  \/ AcceptJobOffer(a)
  \/ RejectJobOffer(a)
  \/ CancelJobOffer(a)
  \/ ExpireOffer(a)
  \/ ConfirmOfferHire(a)

AssignmentStep(a) ==
  \/ StartWork(a)
  \/ AuthorizePayment(a)
  \/ SubmitWork(a)
  \/ RequestChanges(a)
  \/ SettleDirect(a)

CancellationStep(a) ==
  \/ CancelBeforeStart(a)
  \/ \E workerPayment \in Proposals : RequestAssignmentCancellation(a, workerPayment)
  \/ AcceptCancellation(a)
  \/ RejectCancellation(a)
  \/ EscalateOverdueCancellation(a)

DisputeStep(a) ==
  \/ OpenDispute(a)
  \/ \E amount \in 1 .. app[a].agreedAmount : OpenPaymentDispute(a, amount)
  \/ \E s \in Investigators :
       AssignSupport(a, s) \/ RequestEvidence(a, s) \/ CompleteInvestigation(a, s)
  \/ \E f \in Proposers, type \in SettlementType : ProposeSettlement(a, f, type)
  \/ ApproveSettlement(a)
  \/ SubmitAppeal(a)

PostingStep ==
  \/ \E positions \in 1 .. MaxPositions, salary \in Salaries : UpdateJob(positions, salary)
  \/ CloseJob
  \/ ReopenJob
  \/ ArchiveJob
  \/ BeginMarkDone
  \/ CommitMarkDone
  \/ AbortMarkDone
  \/ \E workerPayment \in Proposals : RequestPostingCancellation(workerPayment)

Next ==
  \/ PostingStep
  \/ \E u \in saving : SaveCase(u) \/ LoseCase(u)
  \/ \E a \in Apps :
       OfferStep(a) \/ AssignmentStep(a) \/ CancellationStep(a) \/ DisputeStep(a)

Spec == Init /\ [][Next]_vars

\* The case of an appealed dispute takes the place in the unique index that the
\* escalation of a cancellation request on the same assignment would need.
UnderAppeal(a) == dispute[a].active /\ ~ ActiveDispute(a)
Blocked(a) == cancellation[a].status = "pending" /\ UnderAppeal(a)

\* runMaintenance is started every fifteen minutes and escalates one overdue
\* request after the other; one that throws takes the rest of the run with it.
MaintenanceEscalates(a) ==
  /\ \A b \in Apps : ~ Blocked(b)
  /\ EscalateOverdueCancellation(a)

\* Nothing obliges a person to act.
FairSpec == Spec /\ \A a \in Apps : WF_vars(MaintenanceEscalates(a))

(* ---- what the posting promises ---------------------------------------- *)

Owed(as) ==
  SumOver([a \in Apps |-> Unpaid(as[a])],
          {a \in Hires(as) : as[a].paymentStatus # "Paid"})

OfferExtras == SumOver([a \in Apps |-> offer[a].extra], ActiveOffers(offer))

(***************************************************************************)
(* Whatever is owed on confirmed hires and reserved by active offers is    *)
(* still in escrow, and while the posting recruits so is the pay of every  *)
(* vacancy: no payment, refund, expiry or cancellation ever spends what    *)
(* was promised to somebody else (services/jobFunds.js).  It takes that    *)
(* proposals on one case do not overlap: of two that do, one can be saved  *)
(* after the other was approved, and the case is then decided again.       *)
(***************************************************************************)
Solvent ==
  /\ RemainingJobFunds >= Owed(app) + OfferExtras
  /\ (~ job.closedManually /\ job.status \notin TerminalJobStatuses)
       => RemainingJobFunds >= RequiredJobFunds(job, app, offer)

(***************************************************************************)
(* An offer's extra came from the employer wallet, so the employer wallet's*)
(* share of the escrow can still give every active extra back: spending    *)
(* worker funding first keeps it there (jobFunds.js allocateSources).      *)
(***************************************************************************)
ExtrasRefundable == pot["EMPLOYER"] >= OfferExtras

(***************************************************************************)
(* The counters on the Job document are the documents they count, and a    *)
(* position is never given twice (lib/hiringState.js).                     *)
(***************************************************************************)
CapacityRespected ==
  /\ job.hiredCount = Cardinality(Hires(app))
  /\ job.reservedOfferCount = Cardinality(ActiveOffers(offer))
  /\ job.hiredCount + job.reservedOfferCount <= job.positionsNeeded

(***************************************************************************)
(* What an assignment says was paid is what the ledger paid its worker,    *)
(* through whichever of the four payment paths, and never more than was    *)
(* agreed.                                                                 *)
(***************************************************************************)
PaidOnce ==
  \A a \in Apps : app[a].paidAmount = received[a] /\ received[a] <= app[a].agreedAmount

IsAssignment(r) == r.status \in {"Hired", "Cancelled"}

(***************************************************************************)
(* Money, cancellations and disputes belong to assignments: an application *)
(* that can still be hired was never paid, cancelled or disputed before.   *)
(* No handler makes an assignment an application again.                    *)
(***************************************************************************)
OnlyAssignments ==
  \A a \in Apps : ~ IsAssignment(app[a]) =>
    /\ received[a] = 0
    /\ cancellation[a].status = "none"
    /\ ~ dispute[a].active
    /\ dispute[a].stage = "UNDER_INVESTIGATION"

(***************************************************************************)
(* No money is made or lost between the employer's wallets, the escrow and *)
(* the workers, and none moves from one wallet to the other on its way     *)
(* through escrow: what comes back to a wallet once left it.               *)
(***************************************************************************)
MoneyConserved ==
  /\ AmountOf(wallet) + RemainingJobFunds + SumOver(received, Apps) + PostingFee
       = AmountOf(WalletAtStart) + TopUp
  /\ \A w \in Wallets :
       wallet[w] + pot[w] <= Plus(WalletAtStart, FromEmployer(TopUp))[w]

(***************************************************************************)
(* A posting that is over keeps nothing: no escrow, no offer, no hire      *)
(* still at work or unpaid, no cancellation waiting.                       *)
(***************************************************************************)
NothingLeftBehind ==
  job.status \in TerminalJobStatuses =>
    /\ RemainingJobFunds = 0
    /\ ActiveOffers(offer) = {}
    /\ Unfinished(app) = {}
    /\ ~ job.cancellationPending

(***************************************************************************)
(* A posting being cancelled waits for an assignment that can still be     *)
(* resolved, and every cancellation that waits is on a live assignment     *)
(* (jobLifecycle.js finishPostingCancellation).                            *)
(***************************************************************************)
CancellationCanFinish ==
  /\ job.cancellationPending => Unfinished(app) # {}
  /\ \A a \in Apps : app[a].cancellationPending =>
       /\ cancellation[a].status \in {"pending", "staff_review"}
       /\ cancellation[a].status = "staff_review" => dispute[a].active

(***************************************************************************)
(* A posting that is over stays over, and an assignment that was cancelled *)
(* or paid in full is never taken up again.                                *)
(***************************************************************************)
OutcomesKept ==
  [][ /\ job.status \in TerminalJobStatuses => job'.status = job.status
      /\ \A a \in Apps :
           /\ app[a].status = "Cancelled" => app'[a].status = "Cancelled"
           /\ app[a].workStatus = "Completed" => app'[a].workStatus = "Completed" ]_vars

(***************************************************************************)
(* While an assignment is disputed or its cancellation waits, nothing but  *)
(* the decision itself pays its worker or changes its work.                *)
(***************************************************************************)
HeldUntilDecided ==
  [][ \A a \in Apps :
        (\/ ActiveDispute(a) /\ dispute'[a].status = "investigating"
         \/ cancellation[a].status \in {"pending", "staff_review"}
              /\ cancellation'[a] = cancellation[a]
              /\ dispute'[a] = dispute[a])
        => received'[a] = received[a] /\ app'[a].workStatus = app[a].workStatus ]_vars

(***************************************************************************)
(* An unanswered cancellation request does not wait forever: the           *)
(* maintenance run hands it to Finance (services/maintenance.js), unless   *)
(* some request is blocked by an appeal, which stops the run.              *)
(***************************************************************************)
RequestsAnswered ==
  \A a \in Apps : cancellation[a].status = "pending"
     ~> cancellation[a].status # "pending" \/ \E b \in Apps : Blocked(b)

(* ---- the account the posting implements -------------------------------- *)

StillOwed(a) ==
  IF app[a].status = "Hired" /\ app[a].paymentStatus # "Paid"
  THEN Unpaid(app[a]) ELSE 0

Account == INSTANCE Escrow WITH
  Workers <- Apps,
  escrow <- RemainingJobFunds,
  employer <- AmountOf(wallet),
  paid <- received,
  owed <- [a \in Apps |-> StillOwed(a)],
  closed <- job.status \in TerminalJobStatuses

(***************************************************************************)
(* With its documents and ledger forgotten, the posting is the account of  *)
(* module Escrow: whatever handler runs, a worker is paid only out of what *)
(* a confirmed hire promised that worker, the promise never grows, the     *)
(* employer gets back only what nobody is owed, and a posting that is over *)
(* is settled and never moves money again.  Like Solvent, it takes that    *)
(* proposals on one case do not overlap.                                   *)
(***************************************************************************)
AccountKept == Account!Spec

(* ---- what the documents say of disputes ------------------------------- *)

(***************************************************************************)
(* docs/lifecycle-policy.md: a whole-post cancellation "resolves each      *)
(* hired assignment", and "Remaining secured funds are returned".  Once    *)
(* the posting being cancelled waits for nobody, its escrow is therefore   *)
(* empty.  The code resumes the posting only from                          *)
(* resolveCancelledAssignment: a dispute decided by full payment leaves it *)
(* waiting for nobody, with the pay of its vacancies still in escrow.      *)
(***************************************************************************)
PostingCancellationEnds ==
  job.cancellationPending /\ Unfinished(app) = {} => RemainingJobFunds = 0

(***************************************************************************)
(* docs/lifecycle-policy.md: "Contested unpaid funds are held; unrelated   *)
(* assignments continue."  The pay of assignments nobody disputes stays in *)
(* escrow whatever becomes of the disputed ones.  After a partial claim    *)
(* was refunded, settleApplicationPayment pays the full amount again, out  *)
(* of what the others were promised.                                       *)
(***************************************************************************)
UnrelatedFundsKept ==
  LET unrelated == {a \in Hires(app) : /\ dispute[a].status = "none"
                                       /\ app[a].paymentStatus # "Paid"}
  IN  RemainingJobFunds >= SumOver([a \in Apps |-> Unpaid(app[a])], unrelated)

(***************************************************************************)
(* lib/hiringState.js: terminal job statuses "must never be overwritten".  *)
(* An appeal reopens the case of a posting that is over, and the decision  *)
(* on it writes "Closed" over "Cancelled" (resolveCancelledAssignment).    *)
(***************************************************************************)
OverStaysOver ==
  [][job.status \in TerminalJobStatuses => job'.status = job.status]_vars

(***************************************************************************)
(* services/financialDisputeSettlement.js tells Finance to "create a new   *)
(* settlement" when a proposal cannot be approved: a case Finance has on   *)
(* its desk can be proposed on.  Assigning an investigator while a         *)
(* proposal waits sends the case round again with the proposal still       *)
(* there, which can then be neither approved nor replaced.                 *)
(***************************************************************************)
CaseDecidable ==
  \A a \in Apps :
    dispute[a].active /\ dispute[a].stage = "FOR_FINANCE_REVIEW"
      => ~ dispute[a].settled

=============================================================================
