---------------------------- MODULE QrSettlements ---------------------------
(***************************************************************************)
(* QR settlement requests (QrSettlementController.js): the worker asks to  *)
(* be paid for finished work, the employer scans and settles.  Making and  *)
(* settling a request takes several writes outside a transaction; only the *)
(* payment itself is one.                                                  *)
(***************************************************************************)
EXTENDS PaymentState

VARIABLES
  request,   \* status of each request; "made" before it is stored,
             \* "ended" for cancelled and for expired
  call       \* how far the call that settles it has come

qr == << request, call >>

Requests == 1 .. MaxRequests   \* in the order they are made

InitQr ==
  /\ request = [r \in Requests |-> "none"]
  /\ call = [r \in Requests |-> "none"]

Active == {r \in Requests : request[r] = "active"}
Becomes(r, status) == request' = [request EXCEPT ![r] = status]
Goes(r, step) == call' = [call EXCEPT ![r] = step]

\* A new request, or a replacement, first cancels the one that is active.
MakeRequest(r) ==
  /\ request[r] = "none"
  /\ \A q \in Requests : q < r => request[q] # "none"
  /\ mode = "assignment"
  /\ work = "Submitted"
  /\ payment # "Paid"
  /\ request' = [q \in Requests |-> IF q = r THEN "made"
                                    ELSE IF q \in Active THEN "ended" ELSE request[q]]
  /\ UNCHANGED << call, assignment, troubles >>

\* One active request per assignment: the unique index refuses a second.
StoreRequest(r) ==
  /\ request[r] = "made"
  /\ Becomes(r, IF Active = {} THEN "active" ELSE "none")
  /\ UNCHANGED << call, assignment, troubles >>

\* The worker cancels, or ten minutes pass.
EndRequest(r) ==
  /\ request[r] = "active"
  /\ Becomes(r, "ended")
  /\ UNCHANGED << call, assignment, troubles >>

ClaimRequest(r) ==
  /\ request[r] = "active"
  /\ Becomes(r, "settling")
  /\ Goes(r, "check")
  /\ UNCHANGED << assignment, troubles >>

\* validateSettlementState reads the assignment outside the payment.
CheckRequest(r) ==
  /\ call[r] = "check"
  /\ IF work = "Submitted" /\ payment # "Paid"
     THEN Goes(r, "pay") /\ UNCHANGED request
     ELSE Goes(r, "none") /\ Becomes(r, "ended")
  /\ UNCHANGED << assignment, troubles >>

\* An assignment paid in the meantime is answered as paid.
PayRequest(r) ==
  /\ call[r] = "pay"
  /\ Goes(r, "record")
  /\ Settles \/ (payment = "Paid" /\ UNCHANGED assignment)
  /\ UNCHANGED << request, troubles >>

\* The payment is refused, or fails.
RefuseRequest(r) ==
  /\ call[r] = "pay"
  /\ payment # "Paid"
  /\ IF held \/ work # "Submitted" THEN UNCHANGED troubles ELSE Trouble
  /\ Goes(r, "release")
  /\ UNCHANGED << request, assignment >>

RecordRequest(r) ==
  /\ call[r] = "record"
  /\ Becomes(r, "settled")
  /\ Goes(r, "none")
  /\ UNCHANGED << assignment, troubles >>

\* mutant: the error path takes the payment for committed
ReleaseAsSettled(r) ==
  /\ call[r] = "release"
  /\ Becomes(r, "settled")
  /\ Goes(r, "none")
  /\ UNCHANGED << assignment, troubles >>

\* After a failure the request is active again, unless the worker has made
\* another: then the index refuses, and it stays as it is.
ReleaseRequest(r) ==
  /\ call[r] = "release"
  /\ IF Active = {} THEN Becomes(r, "active") ELSE UNCHANGED request
  /\ Goes(r, "none")
  /\ UNCHANGED << assignment, troubles >>

\* The server stops; nothing takes the request up again.
CrashCall(r) ==
  /\ call[r] # "none"
  /\ Trouble
  /\ Goes(r, "none")
  /\ UNCHANGED << request, assignment >>

NextQr ==
  \E r \in Requests :
    \/ MakeRequest(r) \/ StoreRequest(r) \/ EndRequest(r)
    \/ ClaimRequest(r) \/ CheckRequest(r) \/ PayRequest(r) \/ RefuseRequest(r)
    \/ RecordRequest(r) \/ ReleaseRequest(r) \/ CrashCall(r)

=============================================================================
