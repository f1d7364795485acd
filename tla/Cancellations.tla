---------------------------- MODULE Cancellations ----------------------------
(***************************************************************************)
(* Cancelling one assignment or the whole posting                          *)
(* (services/jobLifecycle.js, services/maintenance.js).                    *)
(***************************************************************************)
EXTENDS PostingState

NewDispute(kind, amount) ==
  [status |-> "investigating", active |-> TRUE, kind |-> kind,
   disputedAmount |-> amount, stage |-> "UNDER_INVESTIGATION",
   assigned |-> FALSE, settled |-> FALSE, settlement |-> NoSettlement,
   appealed |-> FALSE]

\* An application keeps its latest case: a new one takes the place of a resolved
\* one, and of what staff had still to save of that.
OpenCase(a, d) ==
  /\ dispute' = [dispute EXCEPT ![a] = d]
  /\ saving' = {u \in saving : u.case # a}

(***************************************************************************)
(* resolveCancelledAssignment pays the worker, returns what the assignment *)
(* no longer needs, and closes recruitment unless the position was never   *)
(* begun.  It ends the whole posting when that was waiting for this        *)
(* assignment (finishPostingCancellation).                                 *)
(***************************************************************************)
CancelledPayment(paid, agreed) ==
  IF paid = agreed THEN "Paid" ELSE IF paid > 0 THEN "Partially paid" ELSE "Refunded"

\* Mutant: the payment is not recorded on the assignment.
CancelledUnrecorded(r, amount) ==
  [r EXCEPT !.status = "Cancelled", !.workStatus = "Cancelled",
            !.cancellationPending = FALSE, !.disputePending = FALSE,
            !.paymentStatus = CancelledPayment(r.paidAmount + amount, r.agreedAmount)]

CancelledApplication(r, amount) ==
  [r EXCEPT !.status = "Cancelled", !.workStatus = "Cancelled",
            !.cancellationPending = FALSE, !.disputePending = FALSE,
            !.paidAmount = @ + amount,
            !.paymentStatus = CancelledPayment(r.paidAmount + amount, r.agreedAmount)]

\* Mutant: a completed hire keeps the posting waiting.
EndsWithoutHires(j, as) == j.cancellationPending /\ Hires(as) = {}

\* finishPostingCancellation waits for every hire to be finished with.
EndsPosting(j, as) == j.cancellationPending /\ Unfinished(as) = {}

EndPosting(j, as) ==
  IF EndsPosting(j, as)
  THEN [j EXCEPT !.status = "Cancelled", !.cancellationPending = FALSE] ELSE j

\* The job after an assignment is cancelled, before its counters are synced.
AfterCancelling(j, retains) ==
  IF retains \/ j.cancellationPending THEN j
  ELSE [j EXCEPT !.closedManually = TRUE, !.status = "Closed"]

\* Mutant: a vacancy is kept for an assignment already begun.
RetainsAlways(r, retainBaseFunding) == retainBaseFunding /\ ~ job.cancellationPending

\* Whether the vacancy stays open, with its base pay still in escrow.
Retains(r, retainBaseFunding) ==
  /\ retainBaseFunding
  /\ r.workStatus = "Not started"
  /\ ~ job.cancellationPending

ResolveCancelledAssignment(a, amount, retainBaseFunding) ==
  LET r == app[a]
      payment == << "cancellation-payment", a >>
      refund == << "assignment-cancellation-refund", a >>
      retains == Retains(r, retainBaseFunding)
      unused == Monus(Unpaid(r) - amount, IF retains THEN job.salary ELSE 0)
      \* a refund whose reference is taken is skipped in silence
      returned == IF refund \in references THEN 0 ELSE unused
      spent == JobSpendingSources(pot, amount)
      synced == SyncCapacity(AfterCancelling(job, retains), app', offer)
  IN  /\ amount <= Unpaid(r)
      /\ r.paymentStatus # "Paid"
      /\ amount > 0 => payment \notin references
      /\ app' = [app EXCEPT ![a] = CancelledApplication(r, amount)]
      /\ cancellation' = [cancellation EXCEPT
           ![a] = [status |-> "resolved", workerPayment |-> amount]]
      /\ received' = [received EXCEPT ![a] = @ + amount]
      /\ references' = references \cup (IF amount > 0 THEN {payment} ELSE {})
                                  \cup (IF unused > 0 THEN {refund} ELSE {})
      /\ ReleaseFunds(spent, JobSpendingSources(Minus(pot, spent), returned),
                      EndsPosting(synced, app'))
      /\ job' = EndPosting(synced, app')

(* ---- one assignment --------------------------------------------------- *)

Cancellable(a) ==
  /\ ~ app[a].cancellationPending
  /\ ~ ActiveDispute(a)
  /\ app[a].status = "Hired"
  /\ app[a].paymentStatus # "Paid"
  /\ app[a].workStatus # "Completed"

\* Before the work starts either party cancels alone, and the worker gets
\* nothing.
CancelBeforeStart(a) ==
  /\ Cancellable(a)
  /\ app[a].workStatus = "Not started"
  /\ ResolveCancelledAssignment(a, 0, TRUE)
  /\ UNCHANGED << offer, dispute, marking, saving >>

RequestAssignmentCancellation(a, workerPayment) ==
  /\ Cancellable(a)
  /\ app[a].workStatus # "Not started"
  /\ workerPayment <= Unpaid(app[a])
  /\ cancellation' = [cancellation EXCEPT
       ![a] = [status |-> "pending", workerPayment |-> workerPayment]]
  /\ app' = [app EXCEPT ![a].cancellationPending = TRUE]
  /\ UNCHANGED << job, offer, dispute, pot, wallet, received, references,
                  marking, saving >>

\* The other party accepts in time.
AcceptCancellation(a) ==
  /\ cancellation[a].status = "pending"
  /\ ~ ActiveDispute(a)
  /\ ResolveCancelledAssignment(a, cancellation[a].workerPayment, TRUE)
  /\ UNCHANGED << offer, dispute, marking, saving >>

\* Mutant: the request waits while any case of the application is open.
EscalateUndisputed(a) ==
  /\ cancellation[a].status = "pending"
  /\ ~ dispute[a].active
  /\ app' = [app EXCEPT ![a].disputePending = TRUE]
  /\ cancellation' = [cancellation EXCEPT ![a].status = "staff_review"]
  /\ OpenCase(a, NewDispute("cancellation", Unpaid(app[a])))
  /\ UNCHANGED << job, offer, pot, wallet, received, references, marking >>

\* escalateCancellation hands the assignment to Finance.  The new dispute is
\* refused by the unique index while another one of the application is active.
EscalateCancellation(a) ==
  /\ cancellation[a].status = "pending"
  /\ ActiveDispute(a) \/ ~ dispute[a].active
  /\ app' = [app EXCEPT ![a].disputePending = TRUE]
  /\ cancellation' = [cancellation EXCEPT ![a].status = "staff_review"]
  /\ IF ActiveDispute(a) THEN UNCHANGED << dispute, saving >>
     ELSE OpenCase(a, NewDispute("cancellation", Unpaid(app[a])))
  /\ UNCHANGED << job, offer, pot, wallet, received, references, marking >>

\* The other party rejects, or accepts after the 72 hours are over.
RejectCancellation(a) ==
  /\ ~ ActiveDispute(a)
  /\ EscalateCancellation(a)

\* The maintenance run, once the 72 hours are over.
EscalateOverdueCancellation(a) == EscalateCancellation(a)

(* ---- the whole posting ------------------------------------------------ *)

(***************************************************************************)
(* requestCancellation without an application: recruitment stops, offers   *)
(* are withdrawn, assignments not begun are cancelled at once and a        *)
(* request with the same proposal goes out for every other one.            *)
(***************************************************************************)
RequestPostingCancellation(workerPayment) ==
  LET hired == {a \in Hires(app) : app[a].workStatus # "Completed"}
      idle == {a \in hired : app[a].workStatus = "Not started"}
      extras == SumOver([a \in Apps |-> offer[a].extra], ActiveOffers(offer))
      unused == SumOver([a \in Apps |-> Unpaid(app[a])], idle)
      withdrawn == FromEmployer(extras)
      stopped == [job EXCEPT !.cancellationPending = TRUE,
                             !.closedManually = TRUE, !.status = "Closed"]
      synced == SyncCapacity(stopped, app', offer')
  IN  /\ job.status \notin TerminalJobStatuses
      /\ ~ job.cancellationPending
      /\ \A a \in Apps : ~ ActiveDispute(a)
      /\ \A a \in hired : Cancellable(a)
      /\ \A a \in hired \ idle : workerPayment <= Unpaid(app[a])
      /\ offer' = [a \in Apps |-> [status |-> "none", extra |-> 0]]
      /\ app' = [a \in Apps |->
           IF a \in idle THEN CancelledApplication(app[a], 0)
           ELSE IF a \in hired THEN [app[a] EXCEPT !.cancellationPending = TRUE]
           ELSE IF app[a].status \in {"Applied", "Offer Sent", "Position filled"}
                THEN [app[a] EXCEPT !.status = "Cancelled"]
           ELSE app[a]]
      /\ cancellation' = [a \in Apps |->
           IF a \in idle THEN [status |-> "resolved", workerPayment |-> 0]
           ELSE IF a \in hired
                THEN [status |-> "pending", workerPayment |-> workerPayment]
           ELSE cancellation[a]]
      /\ references' = references \cup
           {<< "assignment-cancellation-refund", a >> :
              a \in {b \in idle : Unpaid(app[b]) > 0}}
      /\ ReleaseFunds(Nothing,
           Plus(withdrawn, JobSpendingSources(Minus(pot, withdrawn), unused)),
           EndsPosting(synced, app'))
      /\ job' = EndPosting(synced, app')
      /\ UNCHANGED << dispute, received, marking, saving >>

=============================================================================
