------------------------- MODULE NotificationOutbox -------------------------
(***************************************************************************)
(* The durable outbox between a committed change and the people told about *)
(* it (services/notificationOutbox.js): a keyed item is claimed under a    *)
(* lease, worked on, and marked delivered or put back with a delay.  Three *)
(* kinds of item: the fan-out of a new posting, which queues one notice    *)
(* per matching worker, batch after batch; a notice, which becomes a feed  *)
(* record and a push; a receipt, which becomes an email.  Left out are the *)
(* notices with payment-received keys, which an earlier version queued and *)
(* this one marks delivered without doing anything (line 34).              *)
(*                                                                         *)
(* Time is abstracted: `ready' says availableAt has passed, and the end of *)
(* a lease or of a delay is an action.  `holder' is the deliverer whose    *)
(* claim was the last: a deliverer's guard on attempts holds exactly when  *)
(* nobody claimed the item after it.                                       *)
(***************************************************************************)
EXTENDS Integers, FiniteSets, FiniteSetsExt

CONSTANTS
  Deliverers,   \* calls of deliverOutbox that may run at once
  Runs,         \* those that scheduled work starts again and again
  None,         \* no deliverer
  Keys,         \* the items each deliverer may claim
  Fanout,       \* the fan-out item of one posting
  Receipts,     \* receipt emails
  LastWorker,   \* workers are 1..LastWorker, in the order of their ids
  Matching,     \* the workers the posting matches
  BatchSize,    \* workers read by one fan-out pass
  MaxTries,     \* attempts at one email before the delivery fails
  MaxTroubles   \* bound: errors of a provider or of the database, crashes of
                \* a deliverer, and leases that end while it still works

Workers == 1 .. LastWorker
Items == {Fanout} \cup Receipts \cup Workers

\* Items have keys of their own (notificationOutbox.js:9), and a process runs
\* finitely many deliverers.
ASSUME OutboxAssumption ==
  /\ Fanout \notin Receipts \cup Workers
  /\ Receipts \cap Workers = {}
  /\ IsFiniteSet(Deliverers)
  /\ Runs \subseteq Deliverers
  /\ None \notin Deliverers
  /\ LastWorker \in Nat
  /\ Matching \subseteq Workers
  /\ BatchSize \in Nat \ {0}
  /\ MaxTries \in Nat \ {0}
  /\ MaxTroubles \in Nat

VARIABLES
  status,      \* of each item
  ready,       \* whether availableAt has passed
  holder,      \* who claimed the item last
  cursor,      \* the last worker the fan-out is known to have reached
  recruiting,  \* whether the posting still recruits
  feed,        \* the feed record of each worker's notice
  copies,      \* sendings of an item a provider accepted
  unsure,      \* sendings a provider answered that the server had to take for
               \* failed: told of an error, or unable to record the answer
  refused,     \* workers whose notice the push service answered but took for
               \* no device
  lapses,      \* leases of an item that ended
  work,        \* what each deliverer is doing
  troubles     \* counts what MaxTroubles bounds

vars == << status, ready, holder, cursor, recruiting, feed, copies, unsure,
           refused, lapses, work, troubles >>
item == << status, ready, holder >>
sent == << feed, copies, unsure, refused >>

Idle == [at |-> "idle"]
Pass(from) == [at |-> "read", item |-> Fanout, from |-> from]
Batch(todo, next) ==
  [at |-> "queue", item |-> Fanout, todo |-> todo, next |-> next]
Job(i, at, tries) == [at |-> at, item |-> i, tries |-> tries]

\* The steps of a notice or a receipt, the last two where the catch puts it back:
\* after an error on the way, and after one of the mark that ends it.
JobSteps == {"send", "feed", "mark", "done", "fail", "undo"}
Works ==
  {Idle} \cup [at : {"read"}, item : {Fanout}, from : 0 .. LastWorker]
         \cup [at : {"queue"}, item : {Fanout}, todo : SUBSET Matching,
               next : 0 .. LastWorker]
         \cup [at : JobSteps, item : Items, tries : 0 .. MaxTries]

Trouble == troubles < MaxTroubles /\ troubles' = troubles + 1

At(d, step) == work[d].at = step
WorksOn(d, i) == d # None /\ work[d] # Idle /\ work[d].item = i

\* The handlers' transactions have queued the fan-out and the receipts.
Init ==
  /\ status = [i \in Items |-> IF i \in Workers THEN "absent" ELSE "pending"]
  /\ ready = [i \in Items |-> i \notin Workers]
  /\ holder = [i \in Items |-> None]
  /\ cursor = 0
  /\ recruiting = TRUE
  /\ feed = [w \in Workers |-> "none"]
  /\ copies = [i \in Items |-> 0]
  /\ unsure = [i \in Items |-> 0]
  /\ refused = {}
  /\ lapses = [i \in Items |-> 0]
  /\ work = [d \in Deliverers |-> Idle]
  /\ troubles = 0

-----------------------------------------------------------------------------
(* Queueing: an upsert by key, so that queueing twice is queueing once. *)

Queued(i) ==
  /\ status' = [status EXCEPT ![i] = IF @ = "absent" THEN "pending" ELSE @]
  /\ ready' = [ready EXCEPT ![i] = IF status[i] = "absent" THEN TRUE ELSE @]
  /\ UNCHANGED holder

CloseRecruitment ==
  /\ recruiting
  /\ recruiting' = FALSE
  /\ UNCHANGED << item, cursor, sent, lapses, work, troubles >>

-----------------------------------------------------------------------------
(* The loop of deliverOutbox. *)

\* mutant: the cursor is read as the first worker of the next batch
FirstStepPastCursor(i) ==
  IF i = Fanout THEN Pass(cursor + 1)
  ELSE Job(i, IF i \in Receipts THEN "send" ELSE "feed", 0)

FirstStep(i) ==
  IF i = Fanout THEN Pass(cursor)
  ELSE Job(i, IF i \in Receipts THEN "send" ELSE "feed", 0)

\* mutant: only pending items are claimed, so a crash keeps an item for ever
ClaimablePending(i) == ready[i] /\ status[i] = "pending"

Claimable(i) == ready[i] /\ status[i] \in {"pending", "delivering"}

\* mutant: the claim does not move availableAt, so there is no lease
LeaseUnseen(d, i) ==
  /\ status' = [status EXCEPT ![i] = "delivering"]
  /\ holder' = [holder EXCEPT ![i] = d]
  /\ UNCHANGED ready

Lease(d, i) ==
  /\ status' = [status EXCEPT ![i] = "delivering"]
  /\ ready' = [ready EXCEPT ![i] = FALSE]
  /\ holder' = [holder EXCEPT ![i] = d]

Claim(d, i) ==
  /\ At(d, "idle")
  /\ i \in Keys[d]
  /\ Claimable(i)
  /\ Lease(d, i)
  /\ work' = [work EXCEPT ![d] = FirstStep(i)]
  /\ UNCHANGED << cursor, recruiting, sent, lapses, troubles >>

Goto(d, w) == work' = [work EXCEPT ![d] = w]

\* Reads the posting and the next workers after the cursor of the claimed item.
ReadBatch(d) ==
  /\ At(d, "read")
  /\ LET after == {w \in Workers : w > work[d].from}
         batch == {w \in after : Cardinality({v \in after : v <= w}) <= BatchSize}
     IN  Goto(d, IF ~ recruiting THEN Job(Fanout, "done", 0)
                 ELSE Batch(batch \cap Matching,
                            IF Cardinality(batch) = BatchSize THEN Max(batch) ELSE 0))
  /\ UNCHANGED << item, cursor, recruiting, sent, lapses, troubles >>

QueueMatch(d) ==
  /\ At(d, "queue")
  /\ work[d].todo # {}
  /\ LET w == Min(work[d].todo)
     IN  Queued(w) /\ Goto(d, [work[d] EXCEPT !.todo = @ \ {w}])
  /\ UNCHANGED << cursor, recruiting, sent, lapses, troubles >>

\* mutant: the cursor is moved without waiting for the notices
EndBatchUnawaited(d) ==
  /\ At(d, "queue")
  /\ work[d].next # 0
  /\ cursor' = work[d].next
  /\ status' = [status EXCEPT ![Fanout] = "pending"]
  /\ ready' = [ready EXCEPT ![Fanout] = TRUE]
  /\ Goto(d, Idle)
  /\ UNCHANGED << holder, recruiting, sent, lapses, troubles >>

MoveCursor(d) ==
  /\ cursor' = work[d].next
  /\ status' = [status EXCEPT ![Fanout] = "pending"]
  /\ ready' = [ready EXCEPT ![Fanout] = TRUE]

\* A full batch moves the cursor and makes the item pending, whoever holds it
\* by now; a short one is the last.
EndBatch(d) ==
  /\ At(d, "queue")
  /\ work[d].todo = {}
  /\ IF work[d].next = 0
     THEN /\ Goto(d, Job(Fanout, "done", 0))
          /\ UNCHANGED << item, cursor >>
     ELSE /\ MoveCursor(d)
          /\ Goto(d, Idle)
          /\ UNCHANGED holder
  /\ UNCHANGED << recruiting, sent, lapses, troubles >>

\* createNotification: the feed record is an upsert by delivery key, and the
\* push is skipped when that record says it was made.
CreateNotification(d) ==
  /\ At(d, "feed")
  /\ LET w == work[d].item
     IN  /\ feed' = [feed EXCEPT ![w] = IF @ = "none" THEN "shown" ELSE @]
         /\ Goto(d, Job(w, IF feed[w] = "pushed" THEN "done" ELSE "send", 0))
  /\ UNCHANGED << item, cursor, recruiting, copies, unsure, refused, lapses, troubles >>

\* The push service or the mail service takes the message.
SendAccepted(d) ==
  /\ At(d, "send")
  /\ LET i == work[d].item
     IN  /\ copies' = [copies EXCEPT ![i] = @ + 1]
         /\ Goto(d, Job(i, IF i \in Receipts THEN "done" ELSE "mark", 0))
  /\ UNCHANGED << item, cursor, recruiting, feed, unsure, refused, lapses, troubles >>

\* The push service answers, but takes the notice for no device: an error for
\* each of them (a device no longer registered, too many messages), or no device
\* to send to.  Nothing tells the caller, which goes on as after a success.
SendRefused(d) ==
  /\ At(d, "send")
  /\ work[d].item \in Workers
  /\ refused' = refused \cup {work[d].item}
  /\ Goto(d, Job(work[d].item, "mark", 0))
  /\ UNCHANGED << item, cursor, recruiting, feed, copies, unsure, lapses, troubles >>

\* mutant: a failed push is logged and the notice counts as delivered
SendFailsQuietly(d) ==
  /\ At(d, "send")
  /\ Trouble
  /\ Goto(d, Job(work[d].item, "done", 0))
  /\ UNCHANGED << item, cursor, recruiting, sent, lapses >>

\* An error reaches the server; the message may have been taken all the same.
\* A receipt is tried again at once while tries are left.
SendFails(d) ==
  /\ At(d, "send")
  /\ Trouble
  /\ LET i == work[d].item
         tries == work[d].tries + 1
     IN  /\ \E taken \in {0, 1} :
              /\ copies' = [copies EXCEPT ![i] = @ + taken]
              /\ unsure' = [unsure EXCEPT ![i] = @ + taken]
         /\ \/ Goto(d, Job(i, "fail", 0))
            \/ /\ i \in Receipts
               /\ tries < MaxTries
               /\ Goto(d, Job(i, "send", tries))
  /\ UNCHANGED << item, cursor, recruiting, feed, refused, lapses >>

MarkPushed(d) ==
  /\ At(d, "mark")
  /\ feed' = [feed EXCEPT ![work[d].item] = "pushed"]
  /\ Goto(d, Job(work[d].item, "done", 0))
  /\ UNCHANGED << item, cursor, recruiting, copies, unsure, refused, lapses, troubles >>

\* Both outcomes are recorded only by the deliverer that claimed last.
Delivered(d) ==
  LET i == work[d].item
  IN  status' = [status EXCEPT ![i] = IF holder[i] = d THEN "delivered" ELSE @]

Done(d) ==
  /\ At(d, "done")
  /\ Delivered(d)
  /\ Goto(d, Idle)
  /\ UNCHANGED << ready, holder, cursor, recruiting, sent, lapses, troubles >>

\* mutant: the failure is recorded by whoever failed
FailUnfenced(d) ==
  /\ work[d].at \in {"fail", "undo"}
  /\ status' = [status EXCEPT ![work[d].item] = "pending"]
  /\ ready' = [ready EXCEPT ![work[d].item] = FALSE]
  /\ Goto(d, Idle)
  /\ UNCHANGED << holder, cursor, recruiting, sent, lapses, troubles >>

Fail(d) ==
  /\ work[d].at \in {"fail", "undo"}
  /\ LET i == work[d].item
     IN  IF holder[i] = d
         THEN /\ status' = [status EXCEPT ![i] = "pending"]
              /\ ready' = [ready EXCEPT ![i] = FALSE]
         ELSE UNCHANGED << status, ready >>
  /\ Goto(d, Idle)
  /\ UNCHANGED << holder, cursor, recruiting, sent, lapses, troubles >>

\* The database reports an error where the deliverer reads or writes, and the
\* item is put back.  A write may have been made all the same: for the steps
\* not named here that is the step, and an error at the next one.
QueryFails(d) ==
  /\ work[d].at \in {"read", "queue", "feed", "mark", "done"}
  /\ Trouble
  /\ LET i == work[d].item
     IN  /\ Goto(d, Job(i, IF At(d, "done") THEN "undo" ELSE "fail", 0))
         /\ unsure' = [unsure EXCEPT ![i] =
              IF At(d, "mark") \/ (At(d, "done") /\ i \in Receipts)
              THEN @ + 1 ELSE @]
  /\ \/ UNCHANGED << status, ready, cursor >>
     \/ /\ At(d, "done")
        /\ Delivered(d)
        /\ UNCHANGED << ready, cursor >>
     \/ /\ At(d, "queue")
        /\ work[d].todo = {}
        /\ work[d].next # 0
        /\ MoveCursor(d)
  /\ UNCHANGED << holder, recruiting, feed, copies, refused, lapses >>

-----------------------------------------------------------------------------
(* Time and failures. *)

BackoffEnds(i) ==
  /\ status[i] = "pending"
  /\ ~ ready[i]
  /\ ready' = [ready EXCEPT ![i] = TRUE]
  /\ UNCHANGED << status, holder, cursor, recruiting, sent, lapses, work, troubles >>

LeaseEnds(i) ==
  /\ status[i] = "delivering"
  /\ ~ ready[i]
  /\ IF WorksOn(holder[i], i)
     THEN Trouble
     ELSE UNCHANGED troubles
  /\ ready' = [ready EXCEPT ![i] = TRUE]
  /\ lapses' = [lapses EXCEPT ![i] = @ + 1]
  /\ UNCHANGED << status, holder, cursor, recruiting, sent, work >>

Crash(d) ==
  /\ ~ At(d, "idle")
  /\ Trouble
  /\ Goto(d, Idle)
  /\ UNCHANGED << item, cursor, recruiting, sent, lapses >>

Work(d) ==
  \/ ReadBatch(d) \/ QueueMatch(d) \/ EndBatch(d)
  \/ CreateNotification(d) \/ SendAccepted(d) \/ SendRefused(d) \/ SendFails(d)
  \/ MarkPushed(d) \/ Done(d) \/ Fail(d) \/ QueryFails(d)

Next ==
  \/ \E i \in Items : BackoffEnds(i) \/ LeaseEnds(i)
  \/ CloseRecruitment
  \/ \E d \in Deliverers : Work(d) \/ Crash(d) \/ (\E i \in Items : Claim(d, i))

Spec == Init /\ [][Next]_vars

\* Leases and delays end by the clock; a deliverer that did not crash goes on;
\* scheduled runs come back and take what is ready.
Fairness ==
  /\ \A i \in Items : WF_vars(BackoffEnds(i) \/ LeaseEnds(i))
  /\ \A d \in Deliverers : WF_vars(Work(d))
  /\ \A d \in Runs : WF_vars(\E i \in Items : Claim(d, i))

FairSpec == Spec /\ Fairness

-----------------------------------------------------------------------------
(* Properties *)

\* Every variable stays in its domain.
TypeOK ==
  /\ status \in [Items -> {"absent", "pending", "delivering", "delivered"}]
  /\ ready \in [Items -> BOOLEAN]
  /\ holder \in [Items -> Deliverers \cup {None}]
  /\ cursor \in 0 .. LastWorker
  /\ recruiting \in BOOLEAN
  /\ feed \in [Workers -> {"none", "shown", "pushed"}]
  /\ copies \in [Items -> Nat]
  /\ unsure \in [Items -> Nat]
  /\ refused \subseteq Workers
  /\ lapses \in [Items -> Nat]
  /\ work \in [Deliverers -> Works]
  /\ troubles \in 0 .. MaxTroubles

\* Overlapping fan-out passes, late ones included, never leave out a worker the
\* posting matches: the cursor only passes workers whose notice is queued, and
\* a fan-out that ended while the posting recruits has queued them all
\* (notificationOutbox.js:24-34, where the cursor is written whoever holds the
\* item).
NobodySkipped ==
  \A w \in Matching :
    w <= cursor \/ (status[Fanout] = "delivered" /\ recruiting) => status[w] # "absent"

\* An item marked delivered reached its recipient as far as it ever will: the
\* notice is in the feed, and the push service took it or said for no device
\* that it would; the receipt's email was taken.  A sending reported as an error
\* or never made does not count, whichever deliverers crashed, failed or were
\* overtaken on the way (notificationOutbox.js:18-42, pushService.js:32-41).
DeliveredReached ==
  /\ \A w \in Workers :
       status[w] = "delivered" => feed[w] = "pushed" /\ (copies[w] > 0 \/ w \in refused)
  /\ \A r \in Receipts : status[r] = "delivered" => copies[r] > 0

\* A recipient is sent the same thing again only after a lease ended, or after
\* the server was told of an error though the message was taken: by the provider,
\* or by the database where the sending was to be recorded
\* (notificationService.js:77-80, notificationOutbox.js:39-42;
\* COMPLETION_EVIDENCE.md:56).
RepeatsExplained ==
  \A i \in Items : copies[i] <= 1 + lapses[i] + unsure[i]

\* A notice or receipt that was delivered is never taken up again, not even by
\* the late failure of a deliverer that lost its lease (notificationOutbox.js:42):
\* only a deliverer that marked it can put it back, when the database reported an
\* error for the mark it had made (lines 39-42).
DeliveredStays ==
  [][\A i \in Items \ {Fanout} :
       status[i] = "delivered"
         => \/ status'[i] = "delivered"
            \/ \E d \in Deliverers : At(d, "undo") /\ work[d].item = i]_vars

\* What was queued is delivered, and every matching worker of a posting that
\* goes on recruiting is told of it, once crashes and errors stop
\* (JOB_NOTIFICATIONS.md:22-25: failed deliveries stay in the outbox and are
\* retried).
EventuallyDelivered ==
  /\ \A i \in Receipts \cup Matching : status[i] = "pending" ~> status[i] = "delivered"
  /\ \A w \in Matching : <>(feed[w] # "none" \/ ~ recruiting)

=============================================================================
