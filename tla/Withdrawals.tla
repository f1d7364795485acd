---------------------------- MODULE Withdrawals ----------------------------
(***************************************************************************)
(* Money on its way out (services/withdrawals.js and the Finance handlers  *)
(* of controllers/PaymentController.js).  Every new withdrawal is reviewed *)
(* and transferred by hand; the ones an earlier policy made automatic are  *)
(* still dispatched to the provider and reconciled with it.                *)
(***************************************************************************)
EXTENDS WalletState

Same == << topUpVars, posting, crashes >>

OnlyPayout(w, p) ==
  /\ payout' = [payout EXCEPT ![w] = p]
  /\ UNCHANGED << balance, attempt, transfer, dispatcher, verdicts, Same >>

(* ---- by hand ---------------------------------------------------------- *)

\* The signed preview: nothing is reserved yet.
PreviewWithdrawal(w, source, amount) ==
  /\ payout[w].status = "none"
  /\ amount <= balance[source]
  /\ OnlyPayout(w, [payout[w] EXCEPT !.status = "previewed", !.source = source,
                                     !.amount = amount])

\* One transaction with a guarded debit; a second confirmation of the preview
\* finds the request by its idempotency key and changes nothing.
ConfirmWithdrawal(w) ==
  /\ payout[w].status = "previewed"
  /\ payout[w].amount <= balance[payout[w].source]
  /\ payout' = [payout EXCEPT ![w].status = "requested"]
  /\ Commit(Minus(balance, In(payout[w].source, payout[w].amount)))
  /\ UNCHANGED << transfer, dispatcher, verdicts, Same >>

\* createPayoutRefund, in the transaction that ends the request.
EndWithRefund(w, status) ==
  /\ payout' = [payout EXCEPT ![w].status = status]
  /\ Commit(Plus(balance, In(payout[w].source, payout[w].amount)))
  /\ UNCHANGED << transfer, dispatcher, Same >>

CancelPayoutRequest(w) ==
  /\ payout[w].mode = "manual"
  /\ payout[w].status = "requested"
  /\ EndWithRefund(w, "cancelled")
  /\ UNCHANGED verdicts

ApprovePayout(w) ==
  /\ payout[w].mode = "manual"
  /\ payout[w].status = "requested"
  /\ OnlyPayout(w, [payout[w] EXCEPT !.status = "approved"])

RejectPayout(w) ==
  /\ payout[w].mode = "manual"
  /\ payout[w].status \in {"requested", "approved"}
  /\ EndWithRefund(w, "rejected")
  /\ UNCHANGED verdicts

RecordPayoutPaid(w) ==
  /\ payout[w].mode = "manual"
  /\ payout[w].status = "approved"
  /\ OnlyPayout(w, [payout[w] EXCEPT !.status = "paid"])

(* ---- by the provider --------------------------------------------------- *)

Dispatch(w, phase, sent) ==
  /\ dispatcher' = [dispatcher EXCEPT ![w] = phase]
  /\ transfer' = [transfer EXCEPT ![w] = sent]
  /\ UNCHANGED << balance, attempt, payout, verdicts, Same >>

Processing(w) == payout[w].mode = "automatic" /\ payout[w].status = "processing"

\* Mutant: the claim of a dispatcher that crashed is taken over.
ClaimAgain(w) ==
  /\ Processing(w)
  /\ dispatcher[w] = "none"
  /\ payout' = [payout EXCEPT ![w].claimed = TRUE]
  /\ dispatcher' = [dispatcher EXCEPT ![w] = "claimed"]
  /\ UNCHANGED << balance, attempt, transfer, verdicts, Same >>

\* dispatchWithdrawal claims the withdrawal for good before anything is sent.
ClaimDispatch(w) ==
  /\ Processing(w)
  /\ ~ payout[w].claimed
  /\ payout' = [payout EXCEPT ![w].claimed = TRUE]
  /\ dispatcher' = [dispatcher EXCEPT ![w] = "claimed"]
  /\ UNCHANGED << balance, attempt, transfer, verdicts, Same >>

\* The provider's wallet cannot be read: nothing was submitted.
AbandonDispatch(w) ==
  /\ dispatcher[w] = "claimed"
  /\ dispatcher' = [dispatcher EXCEPT ![w] = "none"]
  /\ verdicts' = verdicts \cup {<< w, "failed", "dispatcher" >>}
  /\ UNCHANGED << balance, attempt, payout, transfer, Same >>

SubmitTransfer(w) ==
  /\ dispatcher[w] = "claimed"
  /\ Dispatch(w, "posted", "submitted")

\* The provider, whenever the request reaches it.
ProviderAnswers(w, answer) ==
  /\ transfer[w] = "submitted"
  /\ answer \in {"refused", "pending"}
  /\ Dispatch(w, dispatcher[w], answer)

ProviderSettles(w, result) ==
  /\ transfer[w] = "pending"
  /\ result \in {"succeeded", "failed"}
  /\ Dispatch(w, dispatcher[w], result)

\* The dispatcher hears that its request was refused.
LearnRefusal(w) ==
  /\ dispatcher[w] = "posted"
  /\ transfer[w] = "refused"
  /\ dispatcher' = [dispatcher EXCEPT ![w] = "none"]
  /\ verdicts' = verdicts \cup {<< w, "failed", "dispatcher" >>}
  /\ UNCHANGED << balance, attempt, payout, transfer, Same >>

\* Accepted, or no answer in time: the outcome is left to reconciliation.
LeaveDispatch(w) ==
  /\ dispatcher[w] = "posted"
  /\ Dispatch(w, "none", transfer[w])

\* Mutant: a transfer the provider does not know has failed.
ReconcileUnknown(w, by) ==
  /\ Processing(w)
  /\ transfer[w] \in {"none", "submitted", "succeeded", "failed"}
  /\ verdicts' = verdicts \cup
       {<< w, IF transfer[w] = "succeeded" THEN "paid" ELSE "failed", by >>}
  /\ UNCHANGED << balance, attempt, payout, transfer, dispatcher, Same >>

\* Mutant: only a dispatcher that waits for its answer is reconciled.
ReconcileWhilePosted(w, by) ==
  /\ Processing(w)
  /\ dispatcher[w] = "posted"
  /\ transfer[w] \in {"succeeded", "failed"}
  /\ verdicts' = verdicts \cup
       {<< w, IF transfer[w] = "succeeded" THEN "paid" ELSE "failed", by >>}
  /\ UNCHANGED << balance, attempt, payout, transfer, dispatcher, Same >>

\* reconcileWithdrawal, by the webhook, Finance or the maintenance run, finds
\* the transfer by its reference and reads its final status.
ReconcileWithdrawal(w, by) ==
  /\ Processing(w)
  /\ transfer[w] \in {"succeeded", "failed"}
  /\ verdicts' = verdicts \cup
       {<< w, IF transfer[w] = "succeeded" THEN "paid" ELSE "failed", by >>}
  /\ UNCHANGED << balance, attempt, payout, transfer, dispatcher, Same >>

\* finalizeWithdrawal: one transaction, nothing when it came too late.
FinalizeWithdrawal(w, result, by) ==
  /\ << w, result, by >> \in verdicts
  /\ verdicts' = verdicts \ {<< w, result, by >>}
  /\ IF Processing(w) /\ result = "failed" THEN EndWithRefund(w, result)
     ELSE /\ payout' = [payout EXCEPT ![w].status = IF Processing(w) THEN result ELSE @]
          /\ UNCHANGED << balance, attempt, transfer, dispatcher, Same >>

WithdrawalStep(w) ==
  \/ \E source \in Wallets, amount \in Amounts : PreviewWithdrawal(w, source, amount)
  \/ ConfirmWithdrawal(w)
  \/ CancelPayoutRequest(w)
  \/ ApprovePayout(w)
  \/ RejectPayout(w)
  \/ RecordPayoutPaid(w)
  \/ ClaimDispatch(w)
  \/ AbandonDispatch(w)
  \/ SubmitTransfer(w)
  \/ \E answer \in {"refused", "pending"} : ProviderAnswers(w, answer)
  \/ \E result \in {"succeeded", "failed"} : ProviderSettles(w, result)
  \/ LearnRefusal(w)
  \/ LeaveDispatch(w)
  \/ \E by \in Readers \ {"dispatcher"} : ReconcileWithdrawal(w, by)
  \/ \E result \in {"paid", "failed"}, by \in Readers : FinalizeWithdrawal(w, result, by)

=============================================================================
