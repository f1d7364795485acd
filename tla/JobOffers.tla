------------------------------ MODULE JobOffers ------------------------------
(***************************************************************************)
(* Applications and formal offers, up to the confirmed hire                *)
(* (controllers/JobApplicationController.js, JobOfferController.js and     *)
(* services/offerLifecycle.js).  Each action is one transaction.           *)
(* Deadlines are left out: an offer may be answered, cancelled or expired  *)
(* whenever the rest of its guard holds, and the posting's own deadline    *)
(* may never come.                                                         *)
(***************************************************************************)
EXTENDS PostingState

Recruiting ==
  /\ ~ job.cancellationPending
  /\ ~ job.closedManually
  /\ ~ job.archived

NoOffer == [status |-> "none", extra |-> 0]

\* An application loses its active offer; the status it had decides what next.
ToShortlist(a) ==
  IF app[a].status = "Offer Sent" THEN [app EXCEPT ![a].status = "Applied"] ELSE app

DropOffer(a) ==
  /\ offer' = [offer EXCEPT ![a] = NoOffer]
  /\ app' = ToShortlist(a)
  /\ RefundOfferExtra(a)
  /\ job' = SyncCapacity(job, app', offer')
  /\ UNCHANGED << cancellation, dispute, received, references, marking,
                  saving >>

ApplyForJob(a) ==
  /\ app[a].status = "None"
  /\ Recruiting
  /\ job.status \in {"Available", "In Progress"}
  /\ ~ IsAtCapacity(job)
  /\ app' = [app EXCEPT ![a].status = "Applied"]
  /\ UNCHANGED << job, offer, cancellation, dispute, pot, wallet, received,
                  references, marking, saving >>

WithdrawApplication(a) ==
  /\ app[a].status = "Applied"
  /\ app' = [app EXCEPT ![a].status = "Withdrawn"]
  /\ offer' = [offer EXCEPT ![a] = NoOffer]
  /\ RefundOfferExtra(a)
  /\ job' = SyncCapacity(job, app', offer')
  /\ UNCHANGED << cancellation, dispute, received, references, marking,
                  saving >>

\* Mutant: a cancelled assignment may be moved, too.
UpdateAnyStatus(a, status) ==
  /\ app[a].status \notin {"None", "Hired", "Position filled"}
  /\ a \notin ActiveOffers(offer)
  /\ app' = [app EXCEPT ![a].status = status]
  /\ UNCHANGED << job, offer, cancellation, dispute, pot, wallet, received,
                  references, marking, saving >>

\* The employer moves an application by hand, a withdrawn or rejected one too.
UpdateApplicationStatus(a, status) ==
  /\ app[a].status \notin {"None", "Hired", "Cancelled", "Position filled"}
  /\ a \notin ActiveOffers(offer)
  /\ app' = [app EXCEPT ![a].status = status]
  /\ UNCHANGED << job, offer, cancellation, dispute, pot, wallet, received,
                  references, marking, saving >>

\* Mutant: both wallets together may pay for an extra.
AffordsTogether(extra) == AmountOf(wallet) >= extra

Affords(extra) == wallet["EMPLOYER"] >= extra

CreateJobOffer(a, extra) ==
  /\ Recruiting
  /\ job.status \notin TerminalJobStatuses
  /\ app[a].status \notin {"None", "Hired", "Rejected", "Withdrawn", "Cancelled",
                           "Position filled"}
  /\ RemainingJobFunds >= RequiredJobFunds(job, app, offer)
  /\ a \notin ActiveOffers(offer)
  /\ ~ IsAtCapacity(job)
  /\ Affords(extra)
  /\ wallet' = Minus(wallet, FromEmployer(extra))
  /\ pot' = Plus(pot, FromEmployer(extra))
  /\ offer' = [offer EXCEPT ![a] = [status |-> "pending", extra |-> extra]]
  /\ app' = [app EXCEPT ![a].status = "Offer Sent"]
  /\ job' = SyncCapacity(job, app', offer')
  /\ UNCHANGED << cancellation, dispute, received, references, marking,
                  saving >>

Answerable(a) ==
  /\ offer[a].status = "pending"
  /\ ~ job.cancellationPending
  /\ job.status \notin TerminalJobStatuses

AcceptJobOffer(a) ==
  /\ Answerable(a)
  /\ offer' = [offer EXCEPT ![a].status = "accepted"]
  /\ job' = SyncCapacity(job, app, offer')
  /\ UNCHANGED << app, cancellation, dispute, pot, wallet, received,
                  references, marking, saving >>

RejectJobOffer(a) ==
  /\ Answerable(a)
  /\ DropOffer(a)

CancelJobOffer(a) ==
  /\ a \in ActiveOffers(offer)
  /\ DropOffer(a)

\* The maintenance run expires an unanswered offer, but only out of funds that
\* no other vacancy, assignment or offer needs.
ExpireOffer(a) ==
  /\ offer[a].status = "pending"
  /\ ~ job.cancellationPending
  /\ ~ app[a].cancellationPending
  /\ ~ app[a].disputePending
  /\ ~ ActiveDispute(a)
  /\ DropOffer(a)
  /\ RemainingJobFunds - offer[a].extra >= RequiredJobFunds(job, app, offer')

ConfirmOfferHire(a) ==
  /\ offer[a].status = "accepted"
  /\ app[a].status = "Offer Sent"
  /\ Recruiting
  /\ job.status \notin TerminalJobStatuses
  /\ job.hiredCount < job.positionsNeeded
  /\ LET full == job.hiredCount + 1 >= job.positionsNeeded
         hired(r) == [r EXCEPT !.status = "Hired", !.workStatus = "Not started",
                               !.paymentStatus = "Secured",
                               !.agreedAmount = job.salary + offer[a].extra]
         passed(r) == IF full /\ r.status \in {"Applied", "Offer Sent"}
                      THEN [r EXCEPT !.status = "Position filled"] ELSE r
     IN  app' = [b \in Apps |-> IF b = a THEN hired(app[a]) ELSE passed(app[b])]
  /\ offer' = [offer EXCEPT ![a] = NoOffer]
  /\ job' = [job EXCEPT !.hiredCount = @ + 1,
                        !.reservedOfferCount = Monus(@, 1),
                        !.status = "In Progress", !.hireConfirmed = TRUE]
  /\ UNCHANGED << cancellation, dispute, pot, wallet, received, references,
                  marking, saving >>

=============================================================================
