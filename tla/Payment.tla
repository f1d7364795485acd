------------------------------ MODULE Payment -------------------------------
(***************************************************************************)
(* A hired assignment with everything that pays it or asks for its pay:    *)
(* daily confirmations, direct confirmations, QR settlement requests and   *)
(* the reminders.                                                          *)
(***************************************************************************)
EXTENDS DailyPayments, QrSettlements, PaymentReminders

vars == << clock, assignment, daily, qr, reminding, troubles >>

Init ==
  /\ InitAssignment
  /\ InitDaily
  /\ InitQr
  /\ InitReminders

Tick ==
  /\ clock < MaxClock
  /\ clock' = clock + 1
  /\ reminders' = {}
  /\ UNCHANGED << assignment, due, qr, reminding, troubles >>

OnAssignment ==
  /\ \/ Hold \/ Lift \/ RequestChanges
     \/ \E p \in AllParts : Review(p)
  /\ UNCHANGED << clock, daily, qr, reminding, troubles >>

Daily ==
  /\ CheckPending \/ \E d \in Days : SubmitDay(d) \/ SettleDay(d)
  /\ UNCHANGED << clock, qr, reminding, troubles >>

Direct ==
  /\ SettleFromCard \/ SettleFromPanel
  /\ ClearClaim
  /\ UNCHANGED << clock, daily, qr, troubles >>

Submission ==
  /\ SubmitWhole
  /\ UNCHANGED << clock, daily, qr, troubles >>

Qr ==
  /\ NextQr
  /\ IF payment' # payment THEN ClearClaim ELSE UNCHANGED reminding
  /\ UNCHANGED << clock, daily >>

Remind ==
  /\ RemindEmployer
  /\ UNCHANGED << clock, assignment, daily, qr, troubles >>

ClaimMail ==
  /\ \E s \in Stages : ClaimReminder(s)
  /\ UNCHANGED << clock, assignment, daily, qr, troubles >>

Mailing ==
  /\ Mail \/ CrashMailer \/ ClaimEnds
  /\ UNCHANGED << clock, assignment, daily, qr >>

JobsFail ==
  /\ \E j \in Jobs : JobBreaks(j) \/ JobRecovers(j)
  /\ UNCHANGED << clock, assignment, daily, qr >>

Next ==
  \/ Tick \/ OnAssignment \/ Daily \/ Direct \/ Submission \/ Qr
  \/ Remind \/ ClaimMail \/ Mailing \/ JobsFail

Spec == Init /\ [][Next]_vars

\* The maintenance run and the email job are scheduled and reach the assignment
\* while nothing before it fails, a job that has not crashed ends, and a claim
\* ends with time.  Nobody has to pay or to submit, or to mend what fails.
Fairness ==
  /\ WF_vars(Remind /\ "maintenance" \notin failing)
  /\ SF_vars(ClaimMail /\ "mail" \notin failing)
  /\ WF_vars(Mail /\ UNCHANGED << clock, assignment, daily, qr >>)
  /\ WF_vars(ClaimEnds /\ UNCHANGED << clock, assignment, daily, qr >>)

FairSpec == Spec /\ Fairness

-----------------------------------------------------------------------------
(* Properties *)

\* Every variable stays in its domain.
TypeOK ==
  /\ clock \in 1 .. MaxClock
  /\ mode \in {"daily", "assignment"}
  /\ work \in {"In Progress", "Submitted", "Changes Requested", "Completed"}
  /\ payment \in {"Secured", "Partially Paid", "Paid"}
  /\ held \in BOOLEAN /\ holds \in 0 .. MaxHolds
  /\ proof \in [AllParts -> 0 .. MaxProofs]
  /\ seen \in [AllParts -> 0 .. MaxProofs]
  /\ first \in 0 .. MaxClock
  /\ paid \subseteq Parts
  /\ {paidAmount, funds, balance} \subseteq 0 .. Agreed
  /\ troubles \in 0 .. MaxTroubles
  /\ due \in [Days -> 0 .. MaxClock + Interval]
  /\ reminders \subseteq [day : Days, due : 1 .. MaxClock]
  /\ request \in [Requests -> {"none", "made", "active", "settling", "settled",
                               "ended"}]
  /\ call \in [Requests -> {"none", "check", "pay", "record", "release"}]
  /\ stages \subseteq Stages /\ emailed \subseteq Stages
  /\ next \in 0 .. MaxClock + 2 * Day
  /\ claim \in Stages \cup {0}
  /\ mailer \in [at : {"idle", "send", "record"}, stage : Stages \cup {0}]
  /\ failing \subseteq Jobs

\* However the employer confirms, and however often, each part is paid once:
\* the worker's credit, the amount recorded on the assignment and the parts
\* marked paid agree, the posting lost exactly that, and the payment status
\* says which parts are paid (dailyPayments.js:20-46, applicationSettlement.js:33-65).
LedgerAgrees ==
  /\ balance = MapThenSumSet(Amount, paid)
  /\ paidAmount = balance
  /\ funds = Agreed - balance
  /\ payment = IF paid = Parts THEN "Paid" ELSE IF paid = {} THEN "Secured" ELSE "Partially Paid"

\* A request that says settled is a paid assignment, and at most one request
\* can be scanned, through failed, overtaken and repeated settlements
\* (QrSettlementController.js:207-245).
RequestsTruthful ==
  /\ \A r \in Requests : request[r] = "settled" => payment = "Paid"
  /\ Cardinality(Active) <= 1

\* Missed checks are made up for by one reminder of a day, not by one for every
\* interval that was missed, and no time brings two reminders of it (LONG_TERM_DAILY_WORK.md:42).
RemindersSpaced ==
  \A r, s \in reminders :
    r.day = s.day => r = s

\* Work that waits for payment has both of its reminders, in the feed and by
\* email, once enough time has passed since it was first submitted, whatever
\* was submitted again, held, or failed in between (lifecycle-policy.md:59-61),
\* except while the runs of a scheduled job keep failing before they are done
\* with it (maintenance.js:15-41, paymentReviewReminderService.js:269).
RemindersNotLost ==
  \A s \in Stages :
    (Waiting /\ Elapsed >= s)
      ~> ((s \in stages /\ s \in emailed) \/ ~ Waiting \/ failing # {})

=============================================================================
