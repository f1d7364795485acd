----------------------------- MODULE Assignments -----------------------------
(***************************************************************************)
(* A hired worker's assignment: starting, submitting and paying the work   *)
(* (controllers/LifecycleController.js, ApplicationPaymentController.js    *)
(* and services/applicationSettlement.js).                                 *)
(***************************************************************************)
EXTENDS PostingState

StartWork(a) ==
  /\ app[a].status = "Hired"
  /\ app[a].workStatus = "Not started"
  /\ ~ app[a].cancellationPending
  /\ ~ job.cancellationPending
  /\ job.status \notin TerminalJobStatuses
  /\ ~ ActiveDispute(a)
  /\ app' = [app EXCEPT ![a].workStatus = "In Progress"]
  /\ UNCHANGED << job, offer, cancellation, dispute, pot, wallet, received,
                  references, marking, saving >>

\* The guard authorizePayment, submitWork and requestChanges share.
Movable(a) ==
  /\ app[a].status = "Hired"
  /\ ~ app[a].cancellationPending
  /\ ~ job.cancellationPending
  /\ job.status \notin TerminalJobStatuses
  /\ ~ ActiveDispute(a)
  /\ app[a].paymentStatus \notin {"Paid", "Disputed", "Refunded"}

Transition(a, r) ==
  /\ Movable(a)
  /\ app' = [app EXCEPT ![a] = r]
  /\ UNCHANGED << job, offer, cancellation, dispute, pot, wallet, received,
                  references, marking, saving >>

AuthorizePayment(a) ==
  Transition(a, [app[a] EXCEPT !.paymentStatus = "Authorized"])

SubmitWork(a) ==
  /\ app[a].workStatus \in {"In Progress", "Changes Requested", "Submitted"}
  /\ Transition(a, [app[a] EXCEPT !.workStatus = "Submitted"])

RequestChanges(a) ==
  /\ app[a].workStatus = "Submitted"
  /\ Transition(a, [app[a] EXCEPT !.workStatus = "Changes Requested"])

(* ---- payment ---------------------------------------------------------- *)

\* Mutant: offers still out do not keep the posting open.
FinalizesDespiteOffers(j, as, os) ==
  /\ ~ j.cancellationPending
  /\ j.status \notin TerminalJobStatuses
  /\ Hires(as) # {}
  /\ j.closedManually \/ Cardinality(Hires(as)) >= j.positionsNeeded
  /\ \A h \in Hires(as) : as[h].paymentStatus = "Paid" /\ as[h].workStatus = "Completed"

\* finalizeSettledJob: every hire is paid and recruitment is over.
Finalizes(j, as, os) ==
  /\ ~ j.cancellationPending
  /\ j.status \notin TerminalJobStatuses
  /\ Hires(as) # {}
  /\ j.closedManually \/ Cardinality(Hires(as)) >= j.positionsNeeded
  /\ \A h \in Hires(as) : as[h].paymentStatus = "Paid" /\ as[h].workStatus = "Completed"
  /\ ActiveOffers(os) = {}

Finalized(j, as, os) ==
  IF Finalizes(j, as, os) THEN [j EXCEPT !.status = "Completed"] ELSE j

\* Mutant: the payment status alone tells whether an assignment is disputed.
SettleableByStatus(a) ==
  /\ app[a].status = "Hired"
  /\ app[a].paymentStatus # "Disputed"
  /\ ~ app[a].cancellationPending
  /\ app[a].workStatus = "Submitted"
  /\ RemainingAgreed(a) > 0

\* Mutant: a request to cancel the assignment does not hold its payment.
SettleableWhileCancelling(a) ==
  /\ app[a].status = "Hired"
  /\ app[a].paymentStatus # "Disputed"
  /\ ~ ActiveDispute(a)
  /\ app[a].workStatus = "Submitted"
  /\ RemainingAgreed(a) > 0

\* What settleApplicationPayment requires of an assignment not yet paid.
Settleable(a) ==
  /\ app[a].status = "Hired"
  /\ app[a].paymentStatus # "Disputed"
  /\ ~ app[a].cancellationPending
  /\ ~ ActiveDispute(a)
  /\ app[a].workStatus = "Submitted"
  /\ RemainingAgreed(a) > 0

\* The payments of the assignments in S, made in one transaction; j is the job
\* as that transaction has it by then.
Settle(S, j) ==
  LET owed(a) == RemainingAgreed(a)
      total == SumOver([a \in Apps |-> owed(a)], S)
      ends == Finalizes(j, app', offer)
  IN  /\ app' = [a \in Apps |-> IF a \notin S THEN app[a]
                 ELSE [app[a] EXCEPT !.paymentStatus = "Paid",
                         !.workStatus = "Completed",
                         !.paidAmount = AlreadyPaid(a) + owed(a)]]
      /\ received' = [a \in Apps |-> received[a] + (IF a \in S THEN owed(a) ELSE 0)]
      /\ ReleaseFunds(JobSpendingSources(pot, total), Nothing, ends)
      /\ job' = Finalized(j, app', offer)

SettleDirect(a) ==
  /\ app[a].paymentStatus # "Paid"
  /\ Settleable(a)
  /\ ~ job.cancellationPending
  /\ job.status \notin TerminalJobStatuses
  /\ Settle({a}, job)
  /\ UNCHANGED << offer, cancellation, dispute, references, marking, saving >>

\* changeJobStatus(Completed) reads the hires before its transaction begins...
BeginMarkDone ==
  /\ marking = {}
  /\ Hires(app) # {}
  /\ \A h \in Hires(app) : app[h].workStatus \in {"Submitted", "Completed"}
  /\ marking' = Hires(app)
  /\ UNCHANGED << job, app, offer, cancellation, dispute, pot, wallet,
                  received, references, saving >>

\* ... and settles exactly those, in one transaction, whatever they are by now.
CommitMarkDone ==
  LET due == {a \in marking : app[a].paymentStatus # "Paid"}
      closed == [job EXCEPT !.closedManually = TRUE]
  IN  /\ marking # {}
      /\ ~ job.cancellationPending
      /\ ~ job.archived
      /\ job.status # "Cancelled"
      /\ ActiveOffers(offer) = {}
      /\ \A a \in marking : app[a].status = "Hired"
      /\ due # {} => job.status # "Completed"
      /\ \A a \in due : Settleable(a)
      /\ Settle(due, closed)
      /\ marking' = {}
      /\ UNCHANGED << offer, cancellation, dispute, references, saving >>

\* The transaction throws, or the server stops between the read and it.
AbortMarkDone ==
  /\ marking # {}
  /\ marking' = {}
  /\ UNCHANGED << job, app, offer, cancellation, dispute, pot, wallet,
                  received, references, saving >>

=============================================================================
