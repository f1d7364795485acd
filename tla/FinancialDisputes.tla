-------------------------- MODULE FinancialDisputes --------------------------
(***************************************************************************)
(* A dispute over one assignment, from its opening to Finance's decision   *)
(* and the appeal against it (controllers/LifecycleController.js,          *)
(* ApplicationPaymentController.js, AdminFinanceDisputeController.js,      *)
(* FinancialDisputeController.js and services/financialDispute*.js).       *)
(*                                                                         *)
(* Every dispute modelled has an evidence deadline, as every dispute the   *)
(* code opens has: the settlement path of older records is left out.  The  *)
(* evidence window itself is left out: a proposal waits for it as long as  *)
(* it likes.  An application keeps its latest dispute; opening another one *)
(* forgets the resolved one before it, which can then not be appealed, and *)
(* the calls of staff that would still save that one.                      *)
(***************************************************************************)
EXTENDS Cancellations

(* ---- getDisputeMoneySnapshot ------------------------------------------ *)

\* What is held for one assignment is read from the escrow of the whole job.
FundsHeld(a) == Least(RemainingAgreed(a), RemainingJobFunds)

Available(a) == Least(FundsHeld(a), dispute[a].disputedAmount)

\* Bound: how many applications the parties take to Finance themselves.
MayDispute(a) ==
  Cardinality({b \in Apps \ {a} : dispute[b].status # "none"}) < MaxDisputed

(* ---- opening ---------------------------------------------------------- *)

\* Either party, about any assignment: openDispute in LifecycleController.
OpenDispute(a) ==
  LET settled == \/ app[a].paymentStatus \in {"Paid", "Refunded", "Partially paid"}
                 \/ app[a].status = "Cancelled"
      contested == IF settled THEN 0 ELSE Unpaid(app[a])
  IN  /\ MayDispute(a)
      /\ app[a].status \in {"Hired", "Cancelled"}
      /\ ~ dispute[a].active
      /\ OpenCase(a, NewDispute("other", contested))
      /\ app' = [app EXCEPT ![a].disputePending = contested > 0]
      /\ UNCHANGED << job, offer, cancellation, pot, wallet, received,
                      references, marking >>

\* The worker, about submitted work that is not paid.
OpenPaymentDispute(a, amount) ==
  /\ MayDispute(a)
  /\ app[a].status = "Hired"
  /\ ~ dispute[a].active
  /\ app[a].workStatus = "Submitted"
  /\ app[a].paymentStatus \in {"Secured", "Authorized"}
  /\ amount \in 1 .. RemainingAgreed(a)
  /\ PartialClaims \/ amount = RemainingAgreed(a)
  /\ OpenCase(a, NewDispute("other", amount))
  /\ app' = [app EXCEPT ![a].paymentStatus = "Disputed",
                        ![a].disputePending = FundsHeld(a) > 0]
  /\ UNCHANGED << job, offer, cancellation, pot, wallet, received,
                  references, marking >>

(* ---- support and finance ---------------------------------------------- *)

(***************************************************************************)
(* A handler of staff reads the case, decides on what it read and saves    *)
(* the case later, outside any transaction.  Mongoose then writes what the *)
(* handler changed over whatever the case is by that time.  One person     *)
(* makes one call on a case at a time; the calls of several overlap.       *)
(***************************************************************************)
Reads(update) ==
  /\ \A u \in saving : u.case = update.case => u.by # update.by
  /\ Cardinality(saving) < MaxCalls
  /\ saving' = saving \cup {update}
  /\ UNCHANGED << job, app, offer, cancellation, dispute, pot, wallet, received,
                  references, marking >>

ToStage(a, by, stage) ==
  [case |-> a, by |-> by, stage |-> stage, restarts |-> FALSE,
   settles |-> FALSE, settlement |-> NoSettlement]

\* An assignment to a support agent puts a case back under investigation from
\* whatever stage it has reached.
AssignSupport(a, s) ==
  /\ dispute[a].active
  /\ Reads([ToStage(a, s, "UNDER_INVESTIGATION") EXCEPT
              !.restarts = dispute[a].status # "investigating"])

\* The stages before a case goes to Finance are one here, so that asking for
\* evidence matters only if the case has moved on when it is saved.
RequestEvidence(a, s) ==
  /\ dispute[a].active
  /\ dispute[a].assigned
  /\ dispute[a].stage \notin {"FOR_FINANCE_REVIEW", "PENDING_FINANCE_APPROVAL"}
  /\ Reads(ToStage(a, s, "UNDER_INVESTIGATION"))

CompleteInvestigation(a, s) ==
  /\ dispute[a].active
  /\ dispute[a].assigned
  /\ dispute[a].stage \notin {"FOR_FINANCE_REVIEW", "PENDING_FINANCE_APPROVAL"}
  /\ Reads(ToStage(a, s, "FOR_FINANCE_REVIEW"))

\* The worker's and the employer's share of each kind of decision.
Shares(a, type) ==
  CASE type = "FULL_REFUND" -> {<< 0, Available(a) >>}
    [] type = "COMPLETE_PAYMENT" -> {<< Available(a), 0 >>}
    [] type = "PARTIAL_PAYMENT" ->
         {<< w, Available(a) - w >> : w \in 0 .. Available(a)}

\* A settlement is worked out on the money of the moment the case was read.
\* `settled' stays until an appeal: a decided case keeps its settlement.
ProposeSettlement(a, f, type) ==
  /\ dispute[a].stage = "FOR_FINANCE_REVIEW"
  /\ ~ dispute[a].settled
  /\ \E share \in Shares(a, type) :
       Reads([ToStage(a, f, "PENDING_FINANCE_APPROVAL") EXCEPT
         !.settles = TRUE,
         !.settlement = [type |-> type, worker |-> share[1], refund |-> share[2],
           alreadyPaid |-> AlreadyPaid(a),
           outstanding |-> IF type = "FULL_REFUND" THEN 0
             ELSE Monus(dispute[a].disputedAmount, share[1] + share[2])]])

\* A case that any of these handlers saves is assigned.
Saved(d, u) ==
  [d EXCEPT !.stage = u.stage, !.assigned = TRUE,
            !.status = IF u.restarts THEN "investigating" ELSE @,
            !.settled = u.settles \/ @,
            !.settlement = IF u.settles THEN u.settlement ELSE @]

SaveCase(u) ==
  /\ dispute' = [dispute EXCEPT ![u.case] = Saved(@, u)]
  /\ saving' = saving \ {u}
  /\ UNCHANGED << job, app, offer, cancellation, pot, wallet, received,
                  references, marking >>

\* The save fails, or the server stops before it.
LoseCase(u) ==
  /\ saving' = saving \ {u}
  /\ UNCHANGED << job, app, offer, cancellation, dispute, pot, wallet, received,
                  references, marking >>

\* Mutant: earlier payments are forgotten.
DecidedAfresh(r, s) ==
  LET status == IF s.outstanding > 0 THEN "Outstanding"
                ELSE IF s.type = "FULL_REFUND" THEN "Refunded"
                ELSE IF s.worker >= r.agreedAmount THEN "Paid"
                ELSE "Partially Paid"
  IN  [r EXCEPT !.paymentStatus = status, !.paidAmount = s.worker,
                !.workStatus = IF status = "Paid" THEN "Completed" ELSE @]

\* Mutant: the payment is not recorded on the assignment.
DecidedUnrecorded(r, s) ==
  LET total == s.alreadyPaid + s.worker
  IN  [r EXCEPT !.paymentStatus = IF total >= r.agreedAmount THEN "Paid"
                                  ELSE "Partially Paid",
                !.workStatus = IF total >= r.agreedAmount THEN "Completed" ELSE @]

\* What the decision makes of an assignment that goes on.
DecidedApplication(r, s) ==
  LET total == s.alreadyPaid + s.worker
      status == IF s.outstanding > 0 THEN "Outstanding"
                ELSE IF s.type = "FULL_REFUND" THEN "Refunded"
                ELSE IF total >= r.agreedAmount THEN "Paid"
                ELSE "Partially Paid"
  IN  [r EXCEPT !.paymentStatus = status, !.paidAmount = total,
                !.workStatus = IF status = "Paid" THEN "Completed" ELSE @]

\* Mutant: the last assignment paid completes the posting, full or not.
CompletedByLastPayment(r) ==
  IF r.paymentStatus # "Paid" THEN job
  ELSE IF Unfinished(app') = {} THEN [job EXCEPT !.status = "Completed"]
  ELSE SyncCapacity(job, app', offer)

\* Mutant: a posting the decision does not complete goes on, over or not.
ReopenedByPayment(r) ==
  IF r.paymentStatus # "Paid" THEN job
  ELSE IF Unfinished(app') = {} /\ job.hiredCount >= job.positionsNeeded
       THEN [job EXCEPT !.status = "Completed"]
  ELSE [job EXCEPT !.status = "In Progress"]

\* The job once a decided assignment is paid in full.
AfterDecision(r) ==
  IF r.paymentStatus # "Paid" THEN job
  ELSE IF Unfinished(app') = {} /\ job.hiredCount >= job.positionsNeeded
       THEN [job EXCEPT !.status = "Completed"]
  ELSE SyncCapacity(job, app', offer)

KeepAssignment(a, s) ==
  LET r == [(IF dispute[a].disputedAmount > 0 THEN DecidedApplication(app[a], s)
             ELSE app[a]) EXCEPT !.disputePending = FALSE]
      spent == JobSpendingSources(pot, s.worker)
  IN  /\ app' = [app EXCEPT ![a] = r]
      /\ received' = [received EXCEPT ![a] = @ + s.worker]
      /\ ReleaseFunds(spent, JobSpendingSources(Minus(pot, spent), s.refund), FALSE)
      /\ job' = AfterDecision(r)
      /\ UNCHANGED << cancellation, references >>

\* Mutant: a refund leaves the assignment as it is.
ClosesCancellations(a, s) == dispute[a].kind = "cancellation"

\* A decision that leaves nothing of the assignment unpaid, some of it by a
\* refund, or that decides a cancellation, ends the assignment.
ClosesAssignment(a, s) ==
  \/ dispute[a].kind = "cancellation"
  \/ s.refund > 0 /\ s.worker + s.refund = RemainingAgreed(a)

ApproveSettlement(a) ==
  LET s == dispute[a].settlement
  IN  /\ dispute[a].stage = "PENDING_FINANCE_APPROVAL"
      /\ AlreadyPaid(a) = s.alreadyPaid
      /\ s.worker + s.refund <= Available(a)
      /\ IF ClosesAssignment(a, s)
         THEN ResolveCancelledAssignment(a, s.worker, FALSE)
         ELSE KeepAssignment(a, s)
      /\ dispute' = [dispute EXCEPT ![a].status = "resolved", ![a].active = FALSE,
                       ![a].stage = "RESOLVED", ![a].settlement = NoSettlement]
      /\ UNCHANGED << offer, marking, saving >>

\* One appeal per dispute: the decision is taken back, the money it moved is
\* not, and the status the holds test stays "resolved".
SubmitAppeal(a) ==
  /\ Appeals
  /\ dispute[a].stage = "RESOLVED"
  /\ ~ dispute[a].appealed
  /\ dispute' = [dispute EXCEPT ![a].active = TRUE, ![a].appealed = TRUE,
                                ![a].settled = FALSE, ![a].stage = "UNDER_APPEAL"]
  /\ app' = [app EXCEPT ![a].paymentStatus = "Disputed"]
  /\ UNCHANGED << job, offer, cancellation, pot, wallet, received,
                  references, marking, saving >>

=============================================================================
