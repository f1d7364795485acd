------------------------------- MODULE Escrow -------------------------------
(***************************************************************************)
(* What a posting promises about money, whatever its offers, assignments,  *)
(* cancellations and disputes do: an account that the employer funds, that *)
(* owes each hired worker a fixed amount, pays a worker only out of what   *)
(* that worker is owed, and gives back to the employer only what nobody    *)
(* is owed.  JobPosting implements it.                                     *)
(***************************************************************************)
EXTENDS Integers, FiniteSets, FiniteSetsExt

CONSTANT Workers   \* a finite set: who may be owed money

VARIABLES
  escrow,    \* what the posting holds
  employer,  \* what the employer holds
  paid,      \* what each worker was paid
  owed,      \* what each worker is still owed
  closed     \* whether the account is closed

account == << escrow, employer, paid, owed, closed >>

\* A natural number by definition, so that a proof needs no induction for it.
RawTotal(f) == MapThenSumSet(LAMBDA w : f[w], Workers)
Total(f) == IF RawTotal(f) \in Nat THEN RawTotal(f) ELSE 0

\* What every step keeps: no money is made, and what is owed is there.
Covered ==
  /\ escrow' + employer' + Total(paid') = escrow + employer + Total(paid)
  /\ escrow' >= Total(owed')

Open ==
  /\ escrow \in Nat
  /\ employer \in Nat
  /\ paid = [w \in Workers |-> 0]
  /\ owed = [w \in Workers |-> 0]
  /\ ~ closed

\* The employer adds to the account or takes back what nobody is owed.
Adjust ==
  /\ ~ closed
  /\ Covered
  /\ UNCHANGED << paid, owed, closed >>

\* A worker never owed anything before is promised an amount.
Promise(w) ==
  /\ ~ closed
  /\ owed[w] = 0
  /\ paid[w] = 0
  /\ owed'[w] > 0
  /\ owed' = [owed EXCEPT ![w] = owed'[w]]
  /\ Covered
  /\ UNCHANGED << escrow, employer, paid, closed >>

\* Workers are paid out of what they are owed, claims are given up, and what
\* becomes free may go back to the employer; nothing is added.
Discharge ==
  /\ ~ closed
  /\ \A w \in Workers :
       /\ paid'[w] >= paid[w]
       /\ owed'[w] >= 0
       /\ owed'[w] + (paid'[w] - paid[w]) <= owed[w]
  /\ employer' >= employer
  /\ Covered
  /\ UNCHANGED closed

\* The last payments are made and the rest goes back.
Close ==
  /\ ~ closed
  /\ closed'
  /\ escrow' = 0
  /\ \A w \in Workers :
       /\ paid'[w] >= paid[w]
       /\ paid'[w] - paid[w] <= owed[w]
       /\ owed'[w] = 0
  /\ employer' >= employer
  /\ Covered

Next == Adjust \/ (\E w \in Workers : Promise(w)) \/ Discharge \/ Close

Spec == Open /\ [][Next]_account

=============================================================================
