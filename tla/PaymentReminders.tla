-------------------------- MODULE PaymentReminders --------------------------
(***************************************************************************)
(* Reminders of submitted work that waits for payment, 24 and 48 hours     *)
(* after the first submission.  The maintenance run queues notices in a    *)
(* transaction (maintenance.js); a scheduled job sends emails, each under  *)
(* a claim that is taken before and removed after                          *)
(* (paymentReviewReminderService.js).                                      *)
(*                                                                         *)
(* Both work through many assignments, and an error ends the run: as long  *)
(* as an earlier step or assignment fails, or this one's own email cannot  *)
(* be sent, no run gets past it.                                           *)
(***************************************************************************)
EXTENDS PaymentState

VARIABLES
  stages,    \* reminderStages: the notices that were queued
  next,      \* nextPaymentReminderAt, 0 for none
  emailed,   \* stages whose email is recorded as sent
  claim,     \* the stage the assignment is claimed for, 0 for none
  mailer,    \* what the email job is doing
  failing    \* scheduled jobs whose runs end with an error before they are
             \* done with this assignment

reminding == << stages, next, emailed, claim, mailer, failing >>
mailing == << emailed, claim, mailer >>

Day == 2 * Interval
Stages == {Day, 2 * Day}
Jobs == {"maintenance", "mail"}

InitReminders ==
  /\ stages = {}
  /\ next = 0
  /\ emailed = {}
  /\ claim = 0
  /\ mailer = [at |-> "idle", stage |-> 0]
  /\ failing = {}

Waiting == mode = "assignment" /\ work = "Submitted" /\ Open
Elapsed == clock - first

\* A submission sets the time of the next notice again.
SubmitWhole ==
  /\ mode = "assignment"
  /\ Submitted(Whole)
  /\ next' = IF 2 * Day \in stages THEN next
             ELSE first' + (IF Day \in stages THEN 2 * Day ELSE Day)
  /\ UNCHANGED << stages, mailing, failing >>

\* mutant: after the first notice none is scheduled
NextStageNone(done) == 0

NextStage(done) == IF 2 * Day \in done THEN 0 ELSE first + 2 * Day

\* The part of runMaintenance that reminds the employer.
RemindEmployer ==
  /\ Waiting
  /\ 2 * Day \notin stages
  /\ \/ next # 0 /\ next <= clock
     \/ next = 0 /\ Day \notin stages /\ Elapsed >= Day
  /\ stages' = stages \cup {s \in Stages : Elapsed >= s}
  /\ next' = NextStage(stages')
  /\ UNCHANGED << mailing, failing >>

MailerDoes(at, stage) == mailer' = [at |-> at, stage |-> stage]

\* The stages are taken in their order and share one claim; a claim left by a
\* crash ends with time.
ClaimReminder(s) ==
  /\ mailer.at = "idle"
  /\ Waiting
  /\ Elapsed >= s
  /\ s \notin emailed
  /\ \A r \in Stages : r < s => r \in emailed
  /\ claim = 0
  /\ claim' = s
  /\ MailerDoes("send", s)
  /\ UNCHANGED << stages, next, emailed, failing >>

SendReminder ==
  /\ mailer.at = "send"
  /\ "mail" \notin failing
  /\ MailerDoes("record", mailer.stage)
  /\ UNCHANGED << stages, next, emailed, claim, failing, troubles >>

\* An error releases the claim and ends the job.
SendReminderFails ==
  /\ mailer.at = "send"
  /\ IF "mail" \in failing THEN UNCHANGED troubles ELSE Trouble
  /\ claim' = 0
  /\ MailerDoes("idle", 0)
  /\ UNCHANGED << stages, next, emailed, failing >>

\* The payment removes the claim, and then nothing is recorded.
RecordReminder ==
  /\ mailer.at = "record"
  /\ IF claim = mailer.stage /\ payment # "Paid"
     THEN claim' = 0 /\ emailed' = emailed \cup {mailer.stage}
     ELSE UNCHANGED << claim, emailed >>
  /\ MailerDoes("idle", 0)
  /\ UNCHANGED << stages, next, failing, troubles >>

CrashMailer ==
  /\ mailer.at # "idle"
  /\ Trouble
  /\ MailerDoes("idle", 0)
  /\ UNCHANGED << stages, next, emailed, claim, failing >>

ClaimEnds ==
  /\ claim # 0
  /\ mailer.at = "idle"
  /\ claim' = 0
  /\ UNCHANGED << stages, next, emailed, mailer, failing, troubles >>

\* A step before the reminders, an assignment before this one, or this one's own
\* email begins to fail in every run: an employer without an address, or one the
\* mail service rejects; an offer that cannot be expired.  It matters from
\* when the assignment is due a reminder.
JobBreaks(j) ==
  /\ Waiting
  /\ Elapsed >= Day
  /\ j \notin failing
  /\ Trouble
  /\ failing' = failing \cup {j}
  /\ UNCHANGED << stages, next, mailing >>

JobRecovers(j) ==
  /\ j \in failing
  /\ failing' = failing \ {j}
  /\ UNCHANGED << stages, next, mailing, troubles >>

Mail == SendReminder \/ SendReminderFails \/ RecordReminder

\* A payment of the whole assignment removes the claim.
ClearClaim == claim' = 0 /\ UNCHANGED << stages, next, emailed, mailer, failing >>

=============================================================================
