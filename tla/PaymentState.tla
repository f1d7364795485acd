---------------------------- MODULE PaymentState ----------------------------
(***************************************************************************)
(* One hired assignment on its way to payment: what was proved, what the   *)
(* employer has looked at, what is paid.  It is paid either as a whole or  *)
(* day by day (Job.paymentMode); a part is what is paid at once.           *)
(***************************************************************************)
EXTENDS Integers, FiniteSets, FiniteSetsExt

CONSTANTS
  Days,          \* the work dates of a daily job
  Whole,         \* the only part of an assignment paid at once
  MaxRequests,   \* bound: QR settlement requests
  MaxProofs,     \* bound: submissions of one part
  MaxHolds,      \* bound: times the assignment is held
  Interval,      \* ticks of the clock in twelve hours
  MaxClock,      \* bound: ticks of the clock
  MaxTroubles    \* bound: crashes and errors

ASSUME PaymentAssumption ==
  /\ IsFiniteSet(Days) /\ Days # {}
  /\ Whole \notin Days
  /\ Interval \in Nat \ {0}
  /\ MaxClock \in Nat \ {0}   \* the clock starts at 1
  /\ {MaxRequests, MaxProofs, MaxHolds, MaxTroubles} \subseteq Nat

VARIABLES
  clock,     \* from 1; 0 stands for no time
  mode,      \* how the job is paid
  work,      \* workStatus
  payment,   \* paymentStatus
  held,      \* a cancellation is pending on the assignment
  holds,     \* how often it was held
  proof,     \* the number of the last proof of each part, 0 for none
  seen,      \* the proof the employer reviewed last
  first,     \* firstSubmittedAt
  paid,      \* the parts that are paid
  paidAmount,
  funds,     \* what the posting still holds for the assignment
  balance,   \* what the worker received
  troubles

assignment == << mode, work, payment, held, holds, proof, seen, first, paid,
                 paidAmount, funds, balance >>

AllParts == Days \cup {Whole}
Parts == IF mode = "daily" THEN Days ELSE {Whole}
Amount(p) == IF p = Whole THEN Cardinality(Days) ELSE 1
Agreed == Cardinality(Days)

InitAssignment ==
  /\ clock = 1
  /\ mode \in {"daily", "assignment"}
  /\ work = "In Progress"
  /\ payment = "Secured"
  /\ held = FALSE /\ holds = 0
  /\ proof = [p \in AllParts |-> 0]
  /\ seen = [p \in AllParts |-> 0]
  /\ first = 0
  /\ paid = {}
  /\ paidAmount = 0
  /\ funds = Agreed
  /\ balance = 0
  /\ troubles = 0

Trouble == troubles < MaxTroubles /\ troubles' = troubles + 1

\* What every step of the worker or the employer on the assignment asks for.
Open == ~ held /\ payment # "Paid"

-----------------------------------------------------------------------------
(* Steps of other components that payment has to live with. *)

\* A cancellation is requested, or the request is declined or withdrawn.
Hold ==
  /\ ~ held
  /\ payment # "Paid"
  /\ holds < MaxHolds
  /\ held' = TRUE
  /\ holds' = holds + 1
  /\ UNCHANGED << mode, work, payment, proof, seen, first, paid, paidAmount, funds, balance >>

Lift ==
  /\ held
  /\ held' = FALSE
  /\ UNCHANGED << mode, work, payment, holds, proof, seen, first, paid, paidAmount, funds, balance >>

\* The employer's client loads a proof; a confirmation carries its submittedAt.
Review(p) ==
  /\ p \in Parts
  /\ proof[p] # seen[p]
  /\ seen' = [seen EXCEPT ![p] = proof[p]]
  /\ UNCHANGED << mode, work, payment, held, holds, proof, first, paid, paidAmount, funds, balance >>

-----------------------------------------------------------------------------
(* Work and payment *)

\* The worker proves a part; a daily proof leaves the work status alone.
Submitted(p) ==
  /\ p \in Parts
  /\ Open
  /\ p \notin paid
  /\ work \in {"In Progress", "Changes Requested", "Submitted"}
  /\ proof[p] < MaxProofs
  /\ proof' = [proof EXCEPT ![p] = @ + 1]
  /\ work' = IF mode = "daily" THEN work ELSE "Submitted"
  /\ first' = IF first = 0 THEN clock ELSE first
  /\ UNCHANGED << mode, payment, held, holds, seen, paid, paidAmount, funds, balance >>

RequestChanges ==
  /\ mode = "assignment"
  /\ Open
  /\ work = "Submitted"
  /\ work' = "Changes Requested"
  /\ UNCHANGED << mode, payment, held, holds, proof, seen, first, paid, paidAmount, funds, balance >>

\* A part is credited to the worker out of the posting's funds.
Credited(p) ==
  /\ Amount(p) <= funds
  /\ paidAmount + Amount(p) <= Agreed
  /\ balance' = balance + Amount(p)
  /\ funds' = funds - Amount(p)
  /\ paidAmount' = paidAmount + Amount(p)
  /\ paid' = paid \cup {p}

\* settleApplicationPayment pays what is left of an assignment paid at once.
Settles ==
  /\ mode = "assignment"
  /\ Open
  /\ work = "Submitted"
  /\ Credited(Whole)
  /\ payment' = "Paid"
  /\ work' = "Completed"
  /\ UNCHANGED << mode, held, holds, proof, seen, first >>

\* The card of a proof confirms that proof; the assignment panel and the
\* completion of the posting confirm whatever was submitted last.
SettleFromCard == seen[Whole] = proof[Whole] /\ Settles
SettleFromPanel == Settles

=============================================================================
