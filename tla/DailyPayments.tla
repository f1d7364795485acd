--------------------------- MODULE DailyPayments ----------------------------
(***************************************************************************)
(* Long-term work paid day by day (services/dailyPayments.js): the employer *)
(* confirms the proof of one date, and a check every twelve hours reminds  *)
(* the employer of proofs that wait.                                       *)
(***************************************************************************)
EXTENDS PaymentState

VARIABLES
  due,        \* nextReminderAt of each day, 0 for none
  reminders   \* reminders queued in this tick: the day, and when it was due

daily == << due, reminders >>

InitDaily ==
  /\ due = [d \in Days |-> 0]
  /\ reminders = {}

\* A proof of a day is due for review one interval later.
SubmitDay(d) ==
  /\ mode = "daily"
  /\ Submitted(d)
  /\ due' = [due EXCEPT ![d] = clock + Interval]
  /\ UNCHANGED reminders

\* mutant: a day that is paid already is paid again
SettleAnyDay(d) ==
  /\ mode = "daily"
  /\ proof[d] # 0 /\ seen[d] = proof[d]
  /\ Open
  /\ Credited(d)
  /\ payment' = IF paid' = Days THEN "Paid" ELSE "Partially Paid"
  /\ due' = [due EXCEPT ![d] = 0]
  /\ UNCHANGED << mode, work, held, holds, proof, seen, first, reminders >>

\* The employer confirms the proof that was reviewed; a day already paid is
\* answered as paid.  The sum of the paid days must be what was paid.
SettleDay(d) ==
  /\ mode = "daily"
  /\ d \notin paid
  /\ proof[d] # 0 /\ seen[d] = proof[d]
  /\ Open
  /\ Cardinality(paid) = paidAmount
  /\ Credited(d)
  /\ payment' = IF paid' = Days THEN "Paid" ELSE "Partially Paid"
  /\ due' = [due EXCEPT ![d] = 0]
  /\ UNCHANGED << mode, work, held, holds, proof, seen, first, reminders >>

\* mutant: the next reminder is one interval after the last, however late it is
NextDueByOne(d) == due[d] + Interval

\* mutant: the time that passed is counted from the beginning of time
NextDueSinceEpoch(d) == due[d] + (clock \div Interval + 1) * Interval

\* The first time after now on the cadence that started with the proof.
NextDue(d) == due[d] + ((clock - due[d]) \div Interval + 1) * Interval

Pending(d) == d \notin paid /\ proof[d] # 0 /\ due[d] # 0 /\ due[d] <= clock

\* checkPendingDailyPayments, for this assignment.
CheckPending ==
  /\ mode = "daily"
  /\ Open
  /\ \E d \in Days : Pending(d)
  /\ reminders' = reminders \cup
       {[day |-> d, due |-> due[d]] : d \in {e \in Days : Pending(e)}}
  /\ due' = [d \in Days |-> IF Pending(d) THEN NextDue(d) ELSE due[d]]
  /\ UNCHANGED assignment

=============================================================================
