---------------------- MODULE NotificationOutbox_proofs ----------------------
(***************************************************************************)
(* What holds of NotificationOutbox for every value of its constants, with *)
(* proofs.                                                                 *)
(***************************************************************************)
EXTENDS NotificationOutbox, FiniteSetLemmas, TLAPS

(* ---- the helpers ------------------------------------------------------ *)

\* Matching workers are workers, and workers are integers.
LEMMA MatchingType ==
  \A w \in Matching : w \in Workers /\ w \in Items /\ w \in Int /\ w # Fanout
<1>1. Matching \subseteq Workers /\ Fanout \notin Workers
  BY OutboxAssumption
<1>2. \A w \in Workers : w \in Int
  BY OutboxAssumption DEF Workers
<1> QED
  BY <1>1, <1>2 DEF Items

\* The fan-out is neither a notice nor a receipt, and no notice is a receipt.
LEMMA ItemKinds ==
  /\ Fanout \in Items /\ Fanout \notin Receipts /\ Fanout \notin Workers
  /\ \A i \in Items : i # Fanout => (i \in Workers <=> i \notin Receipts)
BY OutboxAssumption DEF Items

\* What a deliverer is doing, by the step it is at.
LEMMA WorkCases ==
  ASSUME NEW w \in Works
  PROVE  /\ w.at = "read" => w.item = Fanout /\ w.from \in 0 .. LastWorker
         /\ w.at = "queue" => /\ w = Batch(w.todo, w.next)
                              /\ w.todo \in SUBSET Matching
                              /\ w.next \in 0 .. LastWorker
         /\ w.at \in JobSteps => /\ w = Job(w.item, w.at, w.tries)
                                                   /\ w.item \in Items
                                                   /\ w.tries \in 0 .. MaxTries
         /\ w.at = "idle" => w = Idle
         /\ w.at # "idle" => w # Idle /\ w.item \in Items
BY DEF Works, Idle, Batch, Job, JobSteps, Items

\* The work records the steps build are work records.
LEMMA WorkTypes ==
  /\ Idle \in Works
  /\ \A from \in 0 .. LastWorker : Pass(from) \in Works
  /\ \A todo \in SUBSET Matching, next \in 0 .. LastWorker : Batch(todo, next) \in Works
  /\ \A i \in Items, at \in JobSteps, tries \in 0 .. MaxTries :
        Job(i, at, tries) \in Works
BY DEF Works, Idle, Pass, Batch, Job

\* The fields of the work records.
LEMMA WorkFields ==
  /\ Idle.at = "idle"
  /\ \A from : /\ Pass(from).at = "read" /\ Pass(from).item = Fanout
               /\ Pass(from).from = from
  /\ \A todo, next : /\ Batch(todo, next).at = "queue" /\ Batch(todo, next).item = Fanout
                     /\ Batch(todo, next).todo = todo /\ Batch(todo, next).next = next
  /\ \A i, at, tries : /\ Job(i, at, tries).at = at /\ Job(i, at, tries).item = i
                       /\ Job(i, at, tries).tries = tries
BY DEF Idle, Pass, Batch, Job

(***************************************************************************)
(* The batch of a fan-out pass is the interval of workers after the one it *)
(* starts from: BatchSize of them, or all that are left.                   *)
(***************************************************************************)
BatchOf(from) ==
  LET after == {w \in Workers : w > from}
  IN  {w \in after : Cardinality({v \in after : v <= w}) <= BatchSize}

LEMMA BatchIsInterval ==
  ASSUME NEW from \in 0 .. LastWorker
  PROVE  /\ \A w \in Workers : w \in BatchOf(from) <=> w > from /\ w <= from + BatchSize
         /\ Cardinality(BatchOf(from)) = BatchSize
              => /\ Max(BatchOf(from)) = from + BatchSize
                 /\ from + BatchSize \in Workers
         /\ Cardinality(BatchOf(from)) # BatchSize
              => \A w \in Workers : w > from => w \in BatchOf(from)
<1> DEFINE after == {w \in Workers : w > from}
<1>1. LastWorker \in Nat /\ BatchSize \in Nat \ {0} /\ from \in Nat
  BY OutboxAssumption
<1>2. ASSUME NEW w \in Workers, w > from
      PROVE  Cardinality({v \in after : v <= w}) = w - from
  <2>1. {v \in after : v <= w} = (from + 1) .. w
    BY <1>1, <1>2 DEF Workers
  <2>2. Cardinality((from + 1) .. w) = w - from
    <3>1. /\ from + 1 \in Int /\ w \in Int
          /\ w - (from + 1) + 1 = w - from
          /\ ~ (from + 1 > w)
      BY <1>1, <1>2 DEF Workers
    <3> QED
      BY <3>1, FS_Interval
  <2> QED
    BY <2>1, <2>2
<1>3. ASSUME NEW w \in Workers
      PROVE  w \in BatchOf(from) <=> w > from /\ w <= from + BatchSize
  <2>1. w \in BatchOf(from)
          <=> w > from /\ Cardinality({v \in after : v <= w}) <= BatchSize
    BY DEF BatchOf
  <2>2. w > from => (w - from <= BatchSize <=> w <= from + BatchSize)
    BY <1>1 DEF Workers
  <2> QED
    BY <2>1, <2>2, <1>2
<1>4. CASE from + BatchSize <= LastWorker
  <2>1. BatchOf(from) = (from + 1) .. (from + BatchSize)
    <3>1. BatchOf(from) \subseteq Workers
      BY DEF BatchOf
    <3>2. (from + 1) .. (from + BatchSize) \subseteq Workers
      BY <1>1, <1>4 DEF Workers
    <3>3. \A w \in Workers : w \in (from + 1) .. (from + BatchSize)
                               <=> w > from /\ w <= from + BatchSize
      BY <1>1 DEF Workers
    <3> QED
      BY <3>1, <3>2, <3>3, <1>3
  <2>2. Cardinality(BatchOf(from)) = BatchSize
    <3>1. /\ from + 1 \in Int /\ from + BatchSize \in Int
          /\ (from + BatchSize) - (from + 1) + 1 = BatchSize
          /\ ~ (from + 1 > from + BatchSize)
      BY <1>1
    <3> QED
      BY <2>1, <3>1, FS_Interval
  <2>3. /\ from + BatchSize \in BatchOf(from)
        /\ \A y \in BatchOf(from) : from + BatchSize >= y
        /\ BatchOf(from) \subseteq Int
    BY <2>1, <1>1
  <2>4. \A x \in BatchOf(from) :
           (\A y \in BatchOf(from) : x >= y) => x = from + BatchSize
    BY <2>3, <1>1
  <2>5. Max(BatchOf(from)) = from + BatchSize
    BY <2>3, <2>4 DEF Max
  <2>6. from + BatchSize \in Workers
    BY <1>1, <1>4 DEF Workers
  <2> QED
    BY <1>3, <2>2, <2>5, <2>6
<1>5. CASE ~ (from + BatchSize <= LastWorker)
  <2>1. BatchOf(from) = (from + 1) .. LastWorker
    <3>1. BatchOf(from) \subseteq Workers /\ (from + 1) .. LastWorker \subseteq Workers
      BY <1>1 DEF BatchOf, Workers
    <3>2. \A w \in Workers : w \in (from + 1) .. LastWorker
                               <=> w > from /\ w <= from + BatchSize
      BY <1>1, <1>5 DEF Workers
    <3> QED
      BY <3>1, <3>2, <1>3
  <2>2. Cardinality(BatchOf(from)) # BatchSize
    <3>1. /\ from + 1 \in Int /\ LastWorker \in Int
          /\ LastWorker - (from + 1) + 1 # BatchSize
          /\ 0 # BatchSize
      BY <1>1, <1>5
    <3> QED
      BY <2>1, <3>1, FS_Interval
  <2>3. \A w \in Workers : w > from => w \in BatchOf(from)
    BY <2>1, <1>1 DEF Workers
  <2> QED
    BY <1>3, <2>2, <2>3
<1> QED
  BY <1>4, <1>5

(* ---- the inductive invariant ------------------------------------------ *)

Told(w) == status[w] # "absent"
Handles(d, i) == work[d] # Idle /\ work[d].item = i

\* A fan-out pass under way only stands past workers whose notice is queued.
PassTrue(d) ==
  /\ At(d, "read") => \A w \in Matching : w <= work[d].from => Told(w)
  /\ At(d, "queue") => \A w \in Matching \ work[d].todo :
                         work[d].next = 0 \/ w <= work[d].next => Told(w)
  /\ At(d, "done") /\ work[d].item = Fanout /\ recruiting => \A w \in Matching : Told(w)

\* So do the cursor and the end of the fan-out.
FanoutTrue ==
  /\ \A w \in Matching : w <= cursor => Told(w)
  /\ status[Fanout] = "delivered" /\ recruiting => \A w \in Matching : Told(w)
  /\ \A d \in Deliverers : PassTrue(d)

\* The push service took the worker's notice, or said for no device that it would.
Answered(w) == copies[w] > 0 \/ w \in refused

\* What a deliverer is about to record happened: a push to be marked was answered,
\* an item to be marked delivered reached its recipient.
JobTrue(d) ==
  LET i == work[d].item
  IN  /\ At(d, "feed") => i \in Workers
      /\ At(d, "send") => i # Fanout
      /\ At(d, "mark") => i \in Workers /\ Answered(i)
      /\ At(d, "done") => /\ i \in Workers => feed[i] = "pushed"
                          /\ i \in Receipts => copies[i] > 0

CarriedTrue ==
  /\ \A w \in Workers : feed[w] = "pushed" => Answered(w)
  /\ \A d \in Deliverers : JobTrue(d)

\* A deliverer that still works on what it claimed last finds it claimed, or has
\* marked it delivered and was told of an error.
HolderTrue ==
  \A d \in Deliverers, i \in Items \ {Fanout} :
    Handles(d, i) /\ holder[i] = d
      => \/ status[i] = "delivering"
         \/ At(d, "undo") /\ status[i] = "delivered"

\* The push of a notice is recorded, and not made again.
Pushed(i) == i \in Workers /\ feed[i] = "pushed"

\* The deliverers that may still have a provider take the item.
Senders(i) ==
  {d \in Deliverers : /\ Handles(d, i)
                      /\ At(d, "send") \/ (At(d, "feed") /\ ~ Pushed(i))}

\* The item can be claimed and sent again although no lease ends meanwhile.
Spare(i) ==
  /\ ~ Pushed(i)
  /\ \/ status[i] \in {"absent", "pending"}
     \/ status[i] = "delivering" /\ ready[i]
     \/ \E d \in Deliverers :
          holder[i] = d /\ Handles(d, i) /\ work[d].at \in {"fail", "undo"}

\* Sendings that were taken and not reported as errors, and those that may still
\* come without another lease ending.
Bounded(i) ==
  copies[i] + Cardinality(Senders(i)) + (IF Spare(i) THEN 1 ELSE 0)
    <= 1 + lapses[i] + unsure[i]

CopiesBounded == copies[Fanout] = 0 /\ \A i \in Items \ {Fanout} : Bounded(i)

OutboxInv == TypeOK /\ FanoutTrue /\ CarriedTrue /\ DeliveredReached /\ HolderTrue /\ CopiesBounded

(* ---- every variable stays in its domain ------------------------------- *)

LEMMA InitType == Init => TypeOK
<1>1. Init => 0 \in 0 .. LastWorker /\ 0 \in 0 .. MaxTroubles
  BY OutboxAssumption
<1>2. Fanout \notin Workers
  BY OutboxAssumption
<1> QED
  BY <1>1, <1>2, WorkTypes DEF Init, TypeOK

LEMMA ReadBatchType ==
  ASSUME TypeOK, NEW d \in Deliverers, ReadBatch(d)
  PROVE  TypeOK'
<1> DEFINE from == work[d].from
           next == IF Cardinality(BatchOf(from)) = BatchSize THEN Max(BatchOf(from)) ELSE 0
<1>1. from \in 0 .. LastWorker
  BY WorkCases DEF TypeOK, ReadBatch, At
<1>2. next \in 0 .. LastWorker
  BY <1>1, BatchIsInterval, OutboxAssumption DEF Workers
<1>3. work' = [work EXCEPT ![d] = IF ~ recruiting THEN Job(Fanout, "done", 0)
                                  ELSE Batch(BatchOf(from) \cap Matching, next)]
  BY DEF ReadBatch, Goto, BatchOf
<1>4. /\ Batch(BatchOf(from) \cap Matching, next) \in Works
      /\ Job(Fanout, "done", 0) \in Works
  <2>1. 0 \in 0 .. MaxTries /\ Fanout \in Items
    BY OutboxAssumption DEF Items
  <2> HIDE DEF next
  <2> QED
    BY <1>2, <2>1, WorkTypes DEF JobSteps
<1> HIDE DEF next
<1>5. work' \in [Deliverers -> Works]
  BY <1>3, <1>4 DEF TypeOK
<1> QED
  BY <1>5 DEF TypeOK, ReadBatch, item, sent

LEMMA QueueMatchType ==
  ASSUME TypeOK, NEW d \in Deliverers, QueueMatch(d)
  PROVE  /\ TypeOK'
         /\ Min(work[d].todo) \in work[d].todo
<1>1. /\ work[d] = Batch(work[d].todo, work[d].next)
      /\ work[d].todo \in SUBSET Matching
      /\ work[d].next \in 0 .. LastWorker
      /\ work[d].todo # {}
  BY WorkCases DEF TypeOK, QueueMatch, At
<1> DEFINE todo == work[d].todo
           w == Min(todo)
<1>2. w \in todo
  <2>1. todo \in SUBSET (1 .. LastWorker)
    BY <1>1, OutboxAssumption DEF Workers
  <2>2. IsFiniteSet(todo)
    <3>1. IsFiniteSet(1 .. LastWorker)
      BY OutboxAssumption, FS_Interval
    <3> QED
      BY <2>1, <3>1, FS_Subset
  <2>3. todo \subseteq Int
    <3>1. \A x \in 1 .. LastWorker : x \in Int
      BY OutboxAssumption
    <3> QED
      BY <2>1, <3>1, Zenon
  <2> HIDE DEF todo
  <2> QED
    BY <1>1, <2>2, <2>3, MinOfIntegers DEF todo
<1>3. work' = [work EXCEPT ![d] = Batch(todo \ {w}, work[d].next)]
  <2>1. [work[d] EXCEPT !.todo = @ \ {w}] = Batch(todo \ {w}, work[d].next)
    BY <1>1 DEF Batch
  <2> QED
    BY <2>1 DEF QueueMatch, Goto
<1>4. Batch(todo \ {w}, work[d].next) \in Works
  BY <1>1, WorkTypes
<1>5. work' \in [Deliverers -> Works]
  BY <1>3, <1>4 DEF TypeOK
<1>6. w \in Items
  BY <1>1, <1>2, OutboxAssumption DEF Items
<1>7. Queued(w)
  BY DEF QueueMatch
<1> HIDE DEF w
<1>8. status' \in [Items -> {"absent", "pending", "delivering", "delivered"}]
  BY <1>7 DEF TypeOK, Queued
<1>9. ready' \in [Items -> BOOLEAN] /\ holder' = holder
  BY <1>7 DEF TypeOK, Queued
<1>10. UNCHANGED << cursor, recruiting, feed, copies, unsure, refused, lapses, troubles >>
  BY DEF QueueMatch, sent
<1>11. TypeOK'
  BY <1>5, <1>8, <1>9, <1>10 DEF TypeOK
<1> QED
  BY <1>2, <1>11 DEF w

LEMMA EndBatchType ==
  ASSUME TypeOK, NEW d \in Deliverers, EndBatch(d)
  PROVE  TypeOK'
<1>1. work[d].next \in 0 .. LastWorker
  BY WorkCases DEF TypeOK, EndBatch, At
<1>2. Job(Fanout, "done", 0) \in Works /\ Idle \in Works
  BY OutboxAssumption, WorkTypes DEF Items, JobSteps
<1>3. work' \in [Deliverers -> Works]
  BY <1>2 DEF TypeOK, EndBatch, Goto
<1> QED
  BY <1>1, <1>3 DEF TypeOK, EndBatch, MoveCursor, item, sent, Items

\* The steps that send, and those that record what was sent.
LEMMA SendType ==
  ASSUME TypeOK, CarriedTrue, NEW d \in Deliverers,
         \/ CreateNotification(d) \/ SendAccepted(d) \/ SendRefused(d) \/ SendFails(d)
         \/ MarkPushed(d) \/ Done(d) \/ Fail(d)
  PROVE  TypeOK'
<1> DEFINE i == work[d].item
           tries == work[d].tries
<1>1. /\ i \in Items
      /\ At(d, "send") => tries \in 0 .. MaxTries
  BY WorkCases
     DEF TypeOK, At, JobSteps, CreateNotification, SendAccepted, SendRefused, SendFails,
         MarkPushed, Done, Fail
<1>2. /\ 0 \in 0 .. MaxTries
      /\ At(d, "send") /\ tries + 1 < MaxTries => tries + 1 \in 0 .. MaxTries
  BY <1>1, OutboxAssumption
<1>3. /\ Idle \in Works
      /\ \A at \in JobSteps : Job(i, at, 0) \in Works
      /\ At(d, "send") /\ tries + 1 < MaxTries => Job(i, "send", tries + 1) \in Works
  BY <1>1, <1>2, WorkTypes DEF JobSteps
<1>4. work' \in [Deliverers -> Works]
  BY <1>3 DEF TypeOK, CreateNotification, SendAccepted, SendRefused, SendFails, MarkPushed,
              Done, Fail, Goto, JobSteps
<1>5. CASE CreateNotification(d)
  <2>1. i \in Workers
    BY <1>5 DEF CreateNotification, CarriedTrue, JobTrue
  <2> QED
    BY <1>4, <1>5, <2>1 DEF TypeOK, CreateNotification, item
<1>6. CASE SendAccepted(d)
  BY <1>1, <1>4, <1>6 DEF TypeOK, SendAccepted, item
<1>7. CASE SendFails(d)
  <2>1. troubles' \in 0 .. MaxTroubles
    BY <1>7, OutboxAssumption DEF TypeOK, SendFails, Trouble
  <2> QED
    BY <1>1, <1>4, <1>7, <2>1 DEF TypeOK, SendFails, item
<1>8. CASE MarkPushed(d)
  BY <1>4, <1>8 DEF TypeOK, MarkPushed, item
<1>9. CASE Done(d)
  BY <1>1, <1>4, <1>9 DEF TypeOK, Done, Delivered, sent
<1>10. CASE Fail(d)
  BY <1>1, <1>4, <1>10 DEF TypeOK, Fail, sent
<1>11. CASE SendRefused(d)
  BY <1>1, <1>4, <1>11 DEF TypeOK, SendRefused, item
<1> QED
  BY <1>5, <1>6, <1>7, <1>8, <1>9, <1>10, <1>11

LEMMA QueryFailsType ==
  ASSUME TypeOK, NEW d \in Deliverers, QueryFails(d)
  PROVE  TypeOK'
<1> DEFINE i == work[d].item
<1>1. i \in Items
  BY WorkCases, WorkFields DEF TypeOK, QueryFails
<1>2. \A at \in JobSteps : Job(i, at, 0) \in Works
  BY <1>1, OutboxAssumption, WorkTypes
<1>3. work' \in [Deliverers -> Works]
  BY <1>2 DEF TypeOK, QueryFails, Goto, JobSteps
<1>4. troubles' \in 0 .. MaxTroubles
  BY OutboxAssumption DEF TypeOK, QueryFails, Trouble
<1>5. unsure' \in [Items -> Nat]
  BY <1>1 DEF TypeOK, QueryFails
<1>6. At(d, "queue") => work[d].next \in 0 .. LastWorker
  BY WorkCases DEF TypeOK, At
<1>7. /\ status' \in [Items -> {"absent", "pending", "delivering", "delivered"}]
      /\ ready' \in [Items -> BOOLEAN]
      /\ cursor' \in 0 .. LastWorker
  BY <1>1, <1>6, ItemKinds DEF TypeOK, QueryFails, Delivered, MoveCursor
<1>8. UNCHANGED << holder, recruiting, feed, copies, refused, lapses >>
  BY DEF QueryFails
<1> QED
  BY <1>3, <1>4, <1>5, <1>7, <1>8 DEF TypeOK

LEMMA ClaimType ==
  ASSUME TypeOK, NEW d \in Deliverers, NEW i \in Items, Claim(d, i)
  PROVE  TypeOK'
<1>1. FirstStep(i) \in Works
  BY OutboxAssumption, WorkTypes DEF TypeOK, FirstStep, JobSteps, Items
<1>2. work' \in [Deliverers -> Works]
  BY <1>1 DEF TypeOK, Claim
<1> QED
  BY <1>2 DEF TypeOK, Claim, Lease, sent

LEMMA NextType ==
  ASSUME TypeOK, CarriedTrue, [Next]_vars
  PROVE  TypeOK'
<1>1. ASSUME NEW i \in Items, BackoffEnds(i) \/ LeaseEnds(i)
      PROVE  TypeOK'
  <2>1. BackoffEnds(i) => TypeOK'
    BY DEF TypeOK, BackoffEnds, sent
  <2>2. LeaseEnds(i) => troubles' \in 0 .. MaxTroubles
    BY OutboxAssumption DEF TypeOK, LeaseEnds, Trouble
  <2>3. LeaseEnds(i) => TypeOK'
    BY <2>2 DEF TypeOK, LeaseEnds, sent
  <2> QED
    BY <1>1, <2>1, <2>3
<1>2. CASE CloseRecruitment
  BY <1>2 DEF TypeOK, CloseRecruitment, item, sent
<1>3. ASSUME NEW d \in Deliverers, Work(d)
      PROVE  TypeOK'
  BY <1>3, ReadBatchType, QueueMatchType, EndBatchType, SendType, QueryFailsType DEF Work
<1>4. ASSUME NEW d \in Deliverers, Crash(d)
      PROVE  TypeOK'
  <2>1. troubles' \in 0 .. MaxTroubles
    BY <1>4, OutboxAssumption DEF TypeOK, Crash, Trouble
  <2> QED
    BY <1>4, <2>1, WorkTypes DEF TypeOK, Crash, Goto, item, sent
<1>5. ASSUME NEW d \in Deliverers, NEW i \in Items, Claim(d, i)
      PROVE  TypeOK'
  BY <1>5, ClaimType
<1>6. CASE UNCHANGED vars
  BY <1>6 DEF TypeOK, vars
<1> QED
  BY <1>1, <1>2, <1>3, <1>4, <1>5, <1>6 DEF Next

(* ---- nobody is skipped ------------------------------------------------ *)

\* What is queued stays queued, and recruitment does not open again.
LEMMA ToldStays ==
  ASSUME TypeOK, CarriedTrue, [Next]_vars
  PROVE  /\ \A w \in Matching : Told(w) => Told(w)'
         /\ recruiting' => recruiting
<1>0. Matching \subseteq Items
  BY OutboxAssumption DEF Items
<1>1. ASSUME NEW i \in Items, BackoffEnds(i) \/ LeaseEnds(i)
      PROVE  UNCHANGED << status, recruiting >>
  BY <1>1 DEF BackoffEnds, LeaseEnds
<1>2. CASE CloseRecruitment
  BY <1>2 DEF CloseRecruitment, item, Told
<1>3. ASSUME NEW d \in Deliverers, QueueMatch(d)
      PROVE  /\ \A w \in Matching : Told(w) => Told(w)'
             /\ recruiting' = recruiting
  <2> DEFINE m == Min(work[d].todo)
  <2>1. status' = [status EXCEPT ![m] = IF status[m] = "absent" THEN "pending" ELSE status[m]]
    BY <1>3 DEF QueueMatch, Queued
  <2> HIDE DEF m
  <2> QED
    BY <1>0, <1>3, <2>1 DEF QueueMatch, Told, TypeOK
<1>4. ASSUME NEW d \in Deliverers, EndBatch(d) \/ Done(d) \/ Fail(d) \/ QueryFails(d)
      PROVE  /\ \A w \in Matching : Told(w) => Told(w)'
             /\ recruiting' = recruiting
  BY <1>0, <1>4 DEF EndBatch, Done, Fail, QueryFails, Delivered, MoveCursor, Told, TypeOK, item
<1>5. ASSUME NEW d \in Deliverers, \/ ReadBatch(d) \/ CreateNotification(d)
                                   \/ SendAccepted(d) \/ SendRefused(d) \/ SendFails(d)
                                   \/ MarkPushed(d) \/ Crash(d)
      PROVE  UNCHANGED << status, recruiting >>
  BY <1>5 DEF ReadBatch, CreateNotification, SendAccepted, SendRefused, SendFails, MarkPushed,
              Crash, item
<1>6. ASSUME NEW d \in Deliverers, NEW i \in Items, Claim(d, i)
      PROVE  /\ \A w \in Matching : Told(w) => Told(w)'
             /\ recruiting' = recruiting
  BY <1>0, <1>6 DEF Claim, Lease, Told, TypeOK
<1>7. CASE UNCHANGED vars
  BY <1>7 DEF vars, Told
<1> QED
  BY <1>1, <1>2, <1>3, <1>4, <1>5, <1>6, <1>7 DEF Next, Work, Told

\* A deliverer that does not move keeps its pass true.
LEMMA OthersPass ==
  ASSUME NEW e \in Deliverers, PassTrue(e), work'[e] = work[e], recruiting' => recruiting,
         \A w \in Matching : Told(w) => Told(w)'
  PROVE  PassTrue(e)'
BY DEF PassTrue, At

\* A step of one deliverer keeps the others' passes true.
LEMMA PassesStay ==
  ASSUME TypeOK, FanoutTrue, recruiting' => recruiting,
         \A w \in Matching : Told(w) => Told(w)',
         NEW d \in Deliverers, NEW w, work' = [work EXCEPT ![d] = w], PassTrue(d)'
  PROVE  \A e \in Deliverers : PassTrue(e)'
<1>1. ASSUME NEW e \in Deliverers, e # d
      PROVE  PassTrue(e)'
  <2>1. work'[e] = work[e] /\ PassTrue(e)
    BY <1>1 DEF TypeOK, FanoutTrue
  <2> QED
    BY <2>1, OthersPass
<1> QED
  BY <1>1

LEMMA ReadBatchPass ==
  ASSUME TypeOK, FanoutTrue, NEW d \in Deliverers, ReadBatch(d)
  PROVE  PassTrue(d)'
<1> DEFINE from == work[d].from
           batch == BatchOf(from)
           next == IF Cardinality(batch) = BatchSize THEN Max(batch) ELSE 0
<1>1. from \in 0 .. LastWorker
  BY WorkCases DEF TypeOK, ReadBatch, At
<1>2. \A w \in Matching : w <= from => Told(w)
  BY DEF ReadBatch, FanoutTrue, PassTrue
<1>3. work'[d] = IF ~ recruiting THEN Job(Fanout, "done", 0) ELSE Batch(batch \cap Matching, next)
  BY DEF ReadBatch, Goto, BatchOf, TypeOK
<1>4. UNCHANGED << status, recruiting >>
  BY DEF ReadBatch, item
<1>5. CASE ~ recruiting
  BY <1>3, <1>4, <1>5, WorkFields DEF PassTrue, At
<1>6. CASE recruiting
  <2>1. /\ work'[d].at = "queue"
        /\ work'[d].todo = batch \cap Matching
        /\ work'[d].next = next
    BY <1>3, <1>6, WorkFields
  <2>2. ASSUME NEW w \in Matching \ batch, next = 0 \/ w <= next
        PROVE  Told(w)
    <3>1. w \in Workers /\ w \in Int /\ from \in Int
      BY <1>1, MatchingType
    <3>2. /\ w \in batch <=> w > from /\ w <= from + BatchSize
          /\ Cardinality(batch) = BatchSize => next = from + BatchSize /\ next > 0
          /\ Cardinality(batch) # BatchSize => (w > from => w \in batch)
      BY <1>1, <3>1, BatchIsInterval, OutboxAssumption DEF Workers
    <3>3. w <= from
      <4> HIDE DEF from, batch, next
      <4>1. CASE Cardinality(batch) = BatchSize
        BY <2>2, <3>1, <3>2, <4>1, OutboxAssumption
      <4>2. CASE Cardinality(batch) # BatchSize
        BY <2>2, <3>1, <3>2, <4>2
      <4> QED
        BY <4>1, <4>2
    <3> QED
      BY <1>2, <3>3
  <2> HIDE DEF from, batch, next
  <2> QED
    BY <1>4, <2>1, <2>2 DEF PassTrue, At, Told
<1> QED
  BY <1>5, <1>6

LEMMA QueueMatchPass ==
  ASSUME TypeOK, FanoutTrue, NEW d \in Deliverers, QueueMatch(d)
  PROVE  PassTrue(d)'
<1> DEFINE todo == work[d].todo
           m == Min(todo)
<1>1. /\ work[d] = Batch(todo, work[d].next)
      /\ todo \in SUBSET Matching
  BY WorkCases DEF TypeOK, QueueMatch, At
<1>2. m \in todo
  BY QueueMatchType
<1>3. work'[d] = Batch(todo \ {m}, work[d].next)
  <2>1. [work[d] EXCEPT !.todo = @ \ {m}] = Batch(todo \ {m}, work[d].next)
    BY <1>1 DEF Batch
  <2> QED
    BY <2>1 DEF QueueMatch, Goto, TypeOK
<1>4. status' = [status EXCEPT ![m] = IF status[m] = "absent" THEN "pending" ELSE status[m]]
  BY DEF QueueMatch, Queued
<1>5. m \in Items
  BY <1>1, <1>2, MatchingType
<1> HIDE DEF m
<1>6. status'[m] # "absent" /\ \A w \in Matching : Told(w) => Told(w)'
  BY <1>4, <1>5, MatchingType DEF TypeOK, Told
<1>7. \A w \in Matching \ todo : work[d].next = 0 \/ w <= work[d].next => Told(w)
  BY DEF FanoutTrue, PassTrue, QueueMatch
<1>8. /\ work'[d].at = "queue"
      /\ work'[d].todo = todo \ {m}
      /\ work'[d].next = work[d].next
  BY <1>3, WorkFields
<1>9. \A w \in Matching \ work'[d].todo : work[d].next = 0 \/ w <= work[d].next => Told(w)'
  BY <1>6, <1>7, <1>8 DEF Told
<1> QED
  BY <1>8, <1>9 DEF PassTrue, At

\* The end of a full batch moves the cursor, the end of a short one ends the
\* fan-out: both find every worker they pass queued.
LEMMA EndBatchPass ==
  ASSUME TypeOK, FanoutTrue, NEW d \in Deliverers, EndBatch(d)
  PROVE  FanoutTrue'
<1>1. /\ work[d].todo = {}
      /\ \A w \in Matching : work[d].next = 0 \/ w <= work[d].next => Told(w)
  BY DEF EndBatch, FanoutTrue, PassTrue
<1>2. \A w \in Matching : Told(w) => Told(w)'
  BY MatchingType DEF EndBatch, MoveCursor, Told, TypeOK, item
<1>3. CASE work[d].next = 0
  <2>1. \A w \in Matching : Told(w)'
    BY <1>1, <1>2, <1>3
  <2>2. work' = [work EXCEPT ![d] = Job(Fanout, "done", 0)] /\ recruiting' = recruiting
    BY <1>3 DEF EndBatch, Goto
  <2>3. PassTrue(d)'
    BY <2>1, <2>2, WorkFields DEF PassTrue, At, TypeOK, Told
  <2>4. \A e \in Deliverers : PassTrue(e)'
    BY <1>2, <2>2, <2>3, PassesStay
  <2> QED
    BY <2>1, <2>4 DEF FanoutTrue, Told
<1>4. CASE work[d].next # 0
  <2>1. \A w \in Matching : w <= cursor' => Told(w)'
    BY <1>1, <1>2, <1>4 DEF EndBatch, MoveCursor
  <2>2. work' = [work EXCEPT ![d] = Idle] /\ recruiting' = recruiting
    BY <1>4 DEF EndBatch, Goto
  <2>3. PassTrue(d)'
    BY <2>2, WorkFields DEF PassTrue, At, TypeOK
  <2>4. \A e \in Deliverers : PassTrue(e)'
    BY <1>2, <2>2, <2>3, PassesStay
  <2>5. status'[Fanout] = "pending"
    BY <1>4 DEF EndBatch, MoveCursor, TypeOK, Items
  <2> QED
    BY <2>1, <2>4, <2>5 DEF FanoutTrue, Told
<1> QED
  BY <1>3, <1>4

\* The other steps of a deliverer do not touch the cursor.
LEMMA JobPass ==
  ASSUME TypeOK, FanoutTrue, CarriedTrue, NEW d \in Deliverers,
         \/ CreateNotification(d) \/ SendAccepted(d) \/ SendRefused(d) \/ SendFails(d)
         \/ MarkPushed(d) \/ Done(d) \/ Fail(d) \/ Crash(d),
         \A w \in Matching : Told(w) => Told(w)'
  PROVE  FanoutTrue'
<1>1. cursor' = cursor /\ recruiting' = recruiting
  BY DEF CreateNotification, SendAccepted, SendRefused, SendFails, MarkPushed, Done, Fail, Crash
<1>2. PICK w : /\ work' = [work EXCEPT ![d] = w]
               /\ \/ w = Idle
                  \/ \E i, t : \E at \in JobSteps :
                       w = Job(i, at, t) /\ i # Fanout
  <2>1. CreateNotification(d) \/ MarkPushed(d) \/ SendAccepted(d) \/ SendRefused(d)
        \/ SendFails(d) => work[d].item # Fanout
    BY OutboxAssumption
       DEF CreateNotification, MarkPushed, SendAccepted, SendRefused, SendFails,
           CarriedTrue, JobTrue
  <2>2. Done(d) \/ Fail(d) \/ Crash(d) => work' = [work EXCEPT ![d] = Idle]
    BY DEF Done, Fail, Crash, Goto
  <2>3. CreateNotification(d) \/ MarkPushed(d) \/ SendAccepted(d) \/ SendRefused(d)
        \/ SendFails(d) => \E t : \E at \in JobSteps :
               work' = [work EXCEPT ![d] = Job(work[d].item, at, t)]
    BY DEF CreateNotification, MarkPushed, SendAccepted, SendRefused, SendFails, Goto,
           JobSteps
  <2> QED
    BY <2>1, <2>2, <2>3
<1>3. PassTrue(d)'
  <2>1. work'[d] = w
    BY <1>2 DEF TypeOK
  <2>2. w.at # "read" /\ w.at # "queue" /\ (w.at = "done" => w.item # Fanout)
    BY <1>2, WorkFields DEF JobSteps
  <2> QED
    BY <2>1, <2>2 DEF PassTrue, At
<1>4. \A e \in Deliverers : PassTrue(e)'
  BY <1>1, <1>2, <1>3, PassesStay
<1>5. ASSUME status'[Fanout] = "delivered", recruiting
      PROVE  \A v \in Matching : Told(v)
  <2>1. CASE status[Fanout] = "delivered"
    BY <1>5, <2>1 DEF FanoutTrue
  <2>2. CASE status[Fanout] # "delivered"
    <3>1. Done(d) /\ work[d].item = Fanout
      <4>1. CreateNotification(d) \/ SendAccepted(d) \/ SendRefused(d) \/ SendFails(d)
            \/ MarkPushed(d) \/ Crash(d) => status' = status
        BY DEF CreateNotification, SendAccepted, SendRefused, SendFails, MarkPushed, Crash, item
      <4>2. Fail(d) => status'[Fanout] \in {status[Fanout], "pending"}
        BY DEF Fail, TypeOK, Items
      <4>3. Done(d) => work[d].item = Fanout \/ status'[Fanout] = status[Fanout]
        BY DEF Done, Delivered, TypeOK, Items
      <4> QED
        BY <1>5, <2>2, <4>1, <4>2, <4>3
    <3> QED
      BY <1>5, <3>1 DEF Done, FanoutTrue, PassTrue
  <2> QED
    BY <2>1, <2>2
<1> QED
  BY <1>1, <1>4, <1>5 DEF FanoutTrue

\* A query that fails leaves a deliverer nothing but to put its item back; the
\* cursor it may have moved stands past queued workers.
LEMMA QueryFailsPass ==
  ASSUME TypeOK, FanoutTrue, NEW d \in Deliverers, QueryFails(d),
         \A w \in Matching : Told(w) => Told(w)'
  PROVE  FanoutTrue'
<1>1. PICK w : /\ work' = [work EXCEPT ![d] = w]
               /\ w.at \in {"fail", "undo"}
  <2>1. PICK at \in {"fail", "undo"} : work' = [work EXCEPT ![d] = Job(work[d].item, at, 0)]
    BY DEF QueryFails, Goto
  <2>2. Job(work[d].item, at, 0).at = at
    BY WorkFields
  <2> QED
    BY <2>1, <2>2
<1>2. recruiting' = recruiting
  BY DEF QueryFails
<1>3. PassTrue(d)'
  <2>1. work'[d] = w
    BY <1>1 DEF TypeOK
  <2> QED
    BY <1>1, <2>1 DEF PassTrue, At
<1>4. \A e \in Deliverers : PassTrue(e)'
  BY <1>1, <1>2, <1>3, PassesStay
<1>5. \A v \in Matching : v <= cursor' => Told(v)
  <2>1. CASE cursor' = cursor
    BY <2>1 DEF FanoutTrue
  <2>2. CASE cursor' # cursor
    <3>1. At(d, "queue") /\ work[d].todo = {} /\ cursor' = work[d].next
      BY <2>2 DEF QueryFails, MoveCursor
    <3> QED
      BY <3>1 DEF FanoutTrue, PassTrue
  <2> QED
    BY <2>1, <2>2
<1>6. ASSUME status'[Fanout] = "delivered", recruiting
      PROVE  \A v \in Matching : Told(v)
  <2>1. CASE status[Fanout] = "delivered"
    BY <1>6, <2>1 DEF FanoutTrue
  <2>2. CASE status[Fanout] # "delivered"
    <3>1. At(d, "done") /\ work[d].item = Fanout
      BY <1>6, <2>2, ItemKinds DEF QueryFails, Delivered, MoveCursor, TypeOK
    <3> QED
      BY <1>6, <3>1 DEF FanoutTrue, PassTrue
  <2> QED
    BY <2>1, <2>2
<1> QED
  BY <1>2, <1>4, <1>5, <1>6 DEF FanoutTrue

LEMMA ClaimPass ==
  ASSUME TypeOK, FanoutTrue, NEW d \in Deliverers, NEW i \in Items, Claim(d, i),
         \A w \in Matching : Told(w) => Told(w)'
  PROVE  FanoutTrue'
<1>1. cursor' = cursor /\ recruiting' = recruiting
  BY DEF Claim
<1>2. work' = [work EXCEPT ![d] = FirstStep(i)] /\ work'[d] = FirstStep(i)
  BY DEF Claim, TypeOK
<1>3. PassTrue(d)'
  BY <1>2, WorkFields DEF FirstStep, PassTrue, At, FanoutTrue
<1>4. \A e \in Deliverers : PassTrue(e)'
  BY <1>1, <1>2, <1>3, PassesStay
<1>5. status'[Fanout] = "delivered" => status[Fanout] = "delivered"
  BY DEF Claim, Lease, TypeOK
<1> QED
  BY <1>1, <1>4, <1>5 DEF FanoutTrue

LEMMA NextFanout ==
  ASSUME TypeOK, FanoutTrue, CarriedTrue, [Next]_vars
  PROVE  FanoutTrue'
<1>1. (\A w \in Matching : Told(w) => Told(w)') /\ (recruiting' => recruiting)
  BY ToldStays
<1>2. ASSUME UNCHANGED << cursor, work >>, status'[Fanout] = "delivered" => status[Fanout] = "delivered"
      PROVE  FanoutTrue'
  BY <1>1, <1>2, OthersPass DEF FanoutTrue
<1>3. ASSUME NEW i \in Items, BackoffEnds(i) \/ LeaseEnds(i)
      PROVE  FanoutTrue'
  BY <1>2, <1>3 DEF BackoffEnds, LeaseEnds
<1>4. CASE CloseRecruitment \/ UNCHANGED vars
  BY <1>2, <1>4 DEF CloseRecruitment, item, vars
<1>5. ASSUME NEW d \in Deliverers, ReadBatch(d) \/ QueueMatch(d)
      PROVE  FanoutTrue'
  <2>1. PassTrue(d)'
    BY <1>5, ReadBatchPass, QueueMatchPass
  <2>2. \E w : work' = [work EXCEPT ![d] = w]
    BY <1>5 DEF ReadBatch, QueueMatch, Goto
  <2>3. \A e \in Deliverers : PassTrue(e)'
    BY <1>1, <2>1, <2>2, PassesStay
  <2>4. cursor' = cursor
    BY <1>5 DEF ReadBatch, QueueMatch
  <2>5. status'[Fanout] = "delivered" => status[Fanout] = "delivered"
    <3>1. ReadBatch(d) => status' = status
      BY DEF ReadBatch, item
    <3>2. QueueMatch(d) =>
            \E m : status' = [status EXCEPT ![m] = IF @ = "absent" THEN "pending" ELSE @]
      BY DEF QueueMatch, Queued
    <3> QED
      BY <1>5, <3>1, <3>2 DEF TypeOK, Items
  <2> QED
    BY <1>1, <2>3, <2>4, <2>5 DEF FanoutTrue
<1>6. ASSUME NEW d \in Deliverers, Work(d) \/ Crash(d)
      PROVE  FanoutTrue'
  BY <1>1, <1>5, <1>6, EndBatchPass, JobPass, QueryFailsPass DEF Work
<1>7. ASSUME NEW d \in Deliverers, NEW i \in Items, Claim(d, i)
      PROVE  FanoutTrue'
  BY <1>1, <1>7, ClaimPass
<1> QED
  BY <1>3, <1>4, <1>6, <1>7 DEF Next

(* ---- what is delivered reached its recipient -------------------------- *)

\* Sendings and answers are not taken back, and a push marked as made stays
\* marked.
SendingsStay ==
  /\ \A i \in Items : copies[i] > 0 => copies'[i] > 0
  /\ refused \subseteq refused'
  /\ \A w \in Workers : feed[w] = "pushed" => feed'[w] = "pushed"

\* A step of one deliverer keeps what the others carry true.
LEMMA JobsStay ==
  ASSUME TypeOK, CarriedTrue, SendingsStay, NEW d \in Deliverers,
         \A e \in Deliverers \ {d} : work'[e] = work[e], JobTrue(d)'
  PROVE  \A e \in Deliverers : JobTrue(e)'
<1>1. ASSUME NEW e \in Deliverers, e # d
      PROVE  JobTrue(e)'
  <2>1. work'[e] = work[e] /\ JobTrue(e)
    BY <1>1 DEF CarriedTrue
  <2>2. work[e].at # "idle" => work[e].item \in Items
    BY WorkCases DEF TypeOK
  <2> QED
    BY <2>1, <2>2 DEF JobTrue, At, Answered, SendingsStay
<1> QED
  BY <1>1

\* A step that leaves the sendings alone and carries nothing to be sent.
LEMMA NothingSent ==
  ASSUME TypeOK, CarriedTrue, UNCHANGED << feed, copies, refused >>, NEW d \in Deliverers,
         \A e \in Deliverers \ {d} : work'[e] = work[e], JobTrue(d)'
  PROVE  CarriedTrue'
<1>1. SendingsStay
  BY DEF SendingsStay
<1>2. \A e \in Deliverers : JobTrue(e)'
  BY <1>1, JobsStay
<1> QED
  BY <1>2 DEF CarriedTrue, Answered

LEMMA SendCarried ==
  ASSUME TypeOK, CarriedTrue, NEW d \in Deliverers,
         \/ CreateNotification(d) \/ SendAccepted(d) \/ SendRefused(d) \/ SendFails(d)
         \/ MarkPushed(d)
  PROVE  CarriedTrue'
<1> DEFINE i == work[d].item
<1>1. i \in Items
  BY WorkCases
     DEF TypeOK, At, JobSteps, CreateNotification, SendAccepted, SendRefused, SendFails,
         MarkPushed
<1>2. JobTrue(d) /\ \A w \in Workers : feed[w] = "pushed" => Answered(w)
  BY DEF CarriedTrue
<1>3. \A e \in Deliverers \ {d} : work'[e] = work[e]
  BY DEF CreateNotification, SendAccepted, SendRefused, SendFails, MarkPushed, Goto, TypeOK
<1>4. CASE CreateNotification(d)
  <2>1. /\ i \in Workers
        /\ feed' = [feed EXCEPT ![i] = IF @ = "none" THEN "shown" ELSE @]
        /\ copies' = copies /\ refused' = refused
        /\ work'[d] = Job(i, IF feed[i] = "pushed" THEN "done" ELSE "send", 0)
    BY <1>2, <1>4 DEF CreateNotification, JobTrue, Goto, TypeOK
  <2>2. SendingsStay /\ \A w \in Workers : feed'[w] = "pushed" => feed[w] = "pushed"
    BY <2>1 DEF SendingsStay, TypeOK
  <2>3. JobTrue(d)'
    BY <2>1, <2>2, WorkFields, ItemKinds, <1>1 DEF JobTrue, At, SendingsStay
  <2>4. \A w \in Workers : feed'[w] = "pushed" => Answered(w)'
    BY <1>2, <2>1, <2>2 DEF Answered
  <2> QED
    BY <1>3, <2>2, <2>3, <2>4, JobsStay DEF CarriedTrue
<1>5. CASE SendAccepted(d)
  <2>1. /\ i # Fanout
        /\ copies' = [copies EXCEPT ![i] = @ + 1]
        /\ feed' = feed /\ refused' = refused
        /\ work'[d] = Job(i, IF i \in Receipts THEN "done" ELSE "mark", 0)
    BY <1>2, <1>5 DEF SendAccepted, JobTrue, Goto, TypeOK
  <2>2. SendingsStay /\ copies'[i] > 0
    BY <1>1, <2>1 DEF SendingsStay, TypeOK
  <2>3. JobTrue(d)'
    BY <1>1, <2>1, <2>2, WorkFields, ItemKinds DEF JobTrue, At, Answered
  <2>4. \A w \in Workers : feed'[w] = "pushed" => Answered(w)'
    BY <1>2, <2>1, <2>2 DEF SendingsStay, Answered, Items
  <2> QED
    BY <1>3, <2>2, <2>3, <2>4, JobsStay DEF CarriedTrue
<1>6. CASE SendFails(d)
  <2>1. /\ i # Fanout
        /\ feed' = feed /\ refused' = refused
        /\ \E at \in {"fail", "send"} : \E t : work'[d] = Job(i, at, t)
    BY <1>2, <1>6 DEF SendFails, JobTrue, Goto, TypeOK
  <2>2. SendingsStay
    <3>1. PICK taken \in {0, 1} : copies' = [copies EXCEPT ![i] = @ + taken]
      BY <1>6 DEF SendFails
    <3> QED
      BY <1>1, <2>1, <3>1 DEF SendingsStay, TypeOK
  <2>3. JobTrue(d)'
    BY <2>1, WorkFields DEF JobTrue, At
  <2>4. \A w \in Workers : feed'[w] = "pushed" => Answered(w)'
    BY <1>2, <2>1, <2>2 DEF SendingsStay, Answered, Items
  <2> QED
    BY <1>3, <2>2, <2>3, <2>4, JobsStay DEF CarriedTrue
<1>7. CASE MarkPushed(d)
  <2>1. /\ i \in Workers
        /\ Answered(i)
        /\ feed' = [feed EXCEPT ![i] = "pushed"]
        /\ copies' = copies /\ refused' = refused
        /\ work'[d] = Job(i, "done", 0)
    BY <1>2, <1>7 DEF MarkPushed, JobTrue, At, Goto, TypeOK
  <2>2. SendingsStay /\ feed'[i] = "pushed"
    BY <2>1 DEF SendingsStay, TypeOK
  <2>3. JobTrue(d)'
    BY <1>1, <2>1, <2>2, WorkFields, ItemKinds DEF JobTrue, At
  <2>4. \A w \in Workers : feed'[w] = "pushed" => Answered(w)'
    BY <1>2, <2>1 DEF TypeOK, Answered
  <2> QED
    BY <1>3, <2>2, <2>3, <2>4, JobsStay DEF CarriedTrue
<1>8. CASE SendRefused(d)
  <2>1. /\ i \in Workers
        /\ refused' = refused \cup {i}
        /\ feed' = feed /\ copies' = copies
        /\ work'[d] = Job(i, "mark", 0)
    BY <1>8 DEF SendRefused, Goto, TypeOK
  <2>2. SendingsStay
    BY <2>1 DEF SendingsStay
  <2>3. JobTrue(d)'
    BY <2>1, WorkFields DEF JobTrue, At, Answered
  <2>4. \A w \in Workers : feed'[w] = "pushed" => Answered(w)'
    BY <1>2, <2>1 DEF Answered
  <2> QED
    BY <1>3, <2>2, <2>3, <2>4, JobsStay DEF CarriedTrue
<1> QED
  BY <1>4, <1>5, <1>6, <1>7, <1>8

LEMMA NextCarried ==
  ASSUME TypeOK, CarriedTrue, [Next]_vars
  PROVE  CarriedTrue'
<1>1. ASSUME UNCHANGED << sent, work >>
      PROVE  CarriedTrue'
  BY <1>1 DEF CarriedTrue, JobTrue, At, Answered, sent
<1>2. ASSUME NEW i \in Items, BackoffEnds(i) \/ LeaseEnds(i)
      PROVE  CarriedTrue'
  BY <1>1, <1>2 DEF BackoffEnds, LeaseEnds
<1>3. CASE CloseRecruitment \/ UNCHANGED vars
  BY <1>1, <1>3 DEF CloseRecruitment, vars, sent
<1>4. ASSUME NEW d \in Deliverers, ReadBatch(d) \/ EndBatch(d)
      PROVE  CarriedTrue'
  <2>1. UNCHANGED sent /\ \A e \in Deliverers \ {d} : work'[e] = work[e]
    BY <1>4 DEF ReadBatch, EndBatch, Goto, TypeOK
  <2>2. \/ work'[d] = Idle
        \/ work'[d] = Job(Fanout, "done", 0)
        \/ \E todo, next : work'[d] = Batch(todo, next)
    BY <1>4 DEF ReadBatch, EndBatch, Goto, TypeOK
  <2>3. JobTrue(d)'
    BY <2>2, WorkFields, ItemKinds DEF JobTrue, At
  <2> QED
    BY <2>1, <2>3, NothingSent DEF sent
<1>5. ASSUME NEW d \in Deliverers, QueueMatch(d)
      PROVE  CarriedTrue'
  <2>1. /\ UNCHANGED sent
        /\ \E w : work' = [work EXCEPT ![d] = w]
    BY <1>5 DEF QueueMatch, Goto
  <2>2. \A e \in Deliverers \ {d} : work'[e] = work[e]
    BY <2>1 DEF TypeOK
  <2>3. \E todo : work'[d] = [work[d] EXCEPT !.todo = todo]
    BY <1>5 DEF QueueMatch, Goto, TypeOK
  <2>4. work'[d].at = "queue"
    <3>1. work[d] = Batch(work[d].todo, work[d].next)
      BY <1>5, WorkCases DEF QueueMatch, At, TypeOK
    <3> QED
      BY <2>3, <3>1 DEF Batch
  <2>5. JobTrue(d)'
    BY <2>4 DEF JobTrue, At
  <2> QED
    BY <2>1, <2>2, <2>5, NothingSent DEF sent
<1>6. ASSUME NEW d \in Deliverers, Done(d) \/ Fail(d) \/ Crash(d)
      PROVE  CarriedTrue'
  <2>1. /\ UNCHANGED sent
        /\ \A e \in Deliverers \ {d} : work'[e] = work[e]
        /\ work'[d] = Idle
    BY <1>6 DEF Done, Fail, Crash, Goto, TypeOK
  <2>2. JobTrue(d)'
    BY <2>1, WorkFields DEF JobTrue, At
  <2> QED
    BY <2>1, <2>2, NothingSent DEF sent
<1>7. ASSUME NEW d \in Deliverers, NEW i \in Items, Claim(d, i)
      PROVE  CarriedTrue'
  <2>1. /\ UNCHANGED sent
        /\ \A e \in Deliverers \ {d} : work'[e] = work[e]
        /\ work'[d] = FirstStep(i)
    BY <1>7 DEF Claim, TypeOK
  <2>2. JobTrue(d)'
    BY <2>1, WorkFields, ItemKinds DEF FirstStep, JobTrue, At
  <2> QED
    BY <2>1, <2>2, NothingSent DEF sent
<1>8. ASSUME NEW d \in Deliverers, QueryFails(d)
      PROVE  CarriedTrue'
  <2>1. /\ UNCHANGED << feed, copies, refused >>
        /\ \A e \in Deliverers \ {d} : work'[e] = work[e]
        /\ \E at \in {"fail", "undo"} : work'[d] = Job(work[d].item, at, 0)
    BY <1>8 DEF QueryFails, Goto, TypeOK
  <2>2. JobTrue(d)'
    BY <2>1, WorkFields DEF JobTrue, At
  <2> QED
    BY <2>1, <2>2, NothingSent
<1> QED
  BY <1>2, <1>3, <1>4, <1>5, <1>6, <1>7, <1>8, SendCarried DEF Next, Work

LEMMA SendingsNeverLost ==
  ASSUME TypeOK, CarriedTrue, [Next]_vars
  PROVE  SendingsStay
<1>1. ASSUME UNCHANGED sent PROVE SendingsStay
  BY <1>1 DEF sent, SendingsStay
<1>2. ASSUME NEW i \in Items, BackoffEnds(i) \/ LeaseEnds(i)
      PROVE  SendingsStay
  BY <1>1, <1>2 DEF BackoffEnds, LeaseEnds
<1>3. CASE CloseRecruitment \/ UNCHANGED vars
  BY <1>1, <1>3 DEF CloseRecruitment, vars, sent
<1>4. ASSUME NEW d \in Deliverers, \/ ReadBatch(d) \/ QueueMatch(d) \/ EndBatch(d)
                                      \/ Done(d) \/ Fail(d) \/ Crash(d)
      PROVE  SendingsStay
  BY <1>1, <1>4 DEF ReadBatch, QueueMatch, EndBatch, Done, Fail, Crash
<1>5. ASSUME NEW d \in Deliverers, NEW i \in Items, Claim(d, i)
      PROVE  SendingsStay
  BY <1>1, <1>5 DEF Claim
<1>6. ASSUME NEW d \in Deliverers, CreateNotification(d) \/ MarkPushed(d)
      PROVE  SendingsStay
  BY <1>6 DEF CreateNotification, MarkPushed, SendingsStay, TypeOK
<1>7. ASSUME NEW d \in Deliverers, SendAccepted(d) \/ SendFails(d)
      PROVE  SendingsStay
  <2>1. PICK taken \in {0, 1} : copies' = [copies EXCEPT ![work[d].item] = @ + taken]
    BY <1>7 DEF SendAccepted, SendFails
  <2>2. feed' = feed /\ refused' = refused
    BY <1>7 DEF SendAccepted, SendFails
  <2> QED
    BY <2>1, <2>2 DEF SendingsStay, TypeOK
<1>8. ASSUME NEW d \in Deliverers, SendRefused(d) \/ QueryFails(d)
      PROVE  SendingsStay
  BY <1>8 DEF SendRefused, QueryFails, SendingsStay
<1> QED
  BY <1>2, <1>3, <1>4, <1>5, <1>6, <1>7, <1>8 DEF Next, Work

\* The ways the status of an item changes.
LEMMA StatusChange ==
  ASSUME TypeOK, [Next]_vars, NEW i \in Items, status'[i] # status[i]
  PROVE  \/ status[i] = "absent" /\ status'[i] = "pending"
         \/ i = Fanout /\ status'[i] = "pending"
         \/ \E d \in Deliverers : Claim(d, i) /\ status'[i] = "delivering"
         \/ \E d \in Deliverers : /\ holder[i] = d /\ work[d].item = i
                                  /\ \/ /\ Done(d) \/ (QueryFails(d) /\ At(d, "done"))
                                        /\ status'[i] = "delivered"
                                     \/ Fail(d) /\ status'[i] = "pending"
<1>1. CASE \E k \in Items : BackoffEnds(k) \/ LeaseEnds(k)
  BY <1>1 DEF BackoffEnds, LeaseEnds
<1>2. CASE CloseRecruitment \/ UNCHANGED vars
  BY <1>2 DEF CloseRecruitment, vars, item
<1>3. ASSUME NEW d \in Deliverers, \/ ReadBatch(d) \/ CreateNotification(d)
                                   \/ SendAccepted(d) \/ SendRefused(d) \/ SendFails(d)
                                   \/ MarkPushed(d) \/ Crash(d)
      PROVE  FALSE
  BY <1>3 DEF ReadBatch, CreateNotification, SendAccepted, SendRefused, SendFails, MarkPushed,
              Crash, item
<1>4. ASSUME NEW d \in Deliverers, QueueMatch(d)
      PROVE  status[i] = "absent" /\ status'[i] = "pending"
  <2>1. \E m : status' = [status EXCEPT ![m] = IF @ = "absent" THEN "pending" ELSE @]
    BY <1>4 DEF QueueMatch, Queued
  <2> QED
    BY <2>1 DEF TypeOK
<1>5. ASSUME NEW d \in Deliverers, EndBatch(d)
      PROVE  i = Fanout /\ status'[i] = "pending"
  BY <1>5 DEF EndBatch, MoveCursor, TypeOK, item
<1>6. ASSUME NEW d \in Deliverers, Done(d)
      PROVE  holder[i] = d /\ work[d].item = i /\ status'[i] = "delivered"
  BY <1>6 DEF Done, Delivered, TypeOK
<1>7. ASSUME NEW d \in Deliverers, Fail(d)
      PROVE  holder[i] = d /\ work[d].item = i /\ status'[i] = "pending"
  BY <1>7 DEF Fail, TypeOK
<1>8. ASSUME NEW d \in Deliverers, NEW k \in Items, Claim(d, k)
      PROVE  k = i /\ status'[i] = "delivering"
  BY <1>8 DEF Claim, Lease, TypeOK
<1>9. ASSUME NEW d \in Deliverers, QueryFails(d)
      PROVE  \/ i = Fanout /\ status'[i] = "pending"
             \/ /\ holder[i] = d /\ work[d].item = i /\ At(d, "done")
                /\ status'[i] = "delivered"
  BY <1>9 DEF QueryFails, Delivered, MoveCursor, TypeOK
<1> QED
  BY <1>1, <1>2, <1>3, <1>4, <1>5, <1>6, <1>7, <1>8, <1>9 DEF Next, Work

LEMMA NextReached ==
  ASSUME TypeOK, CarriedTrue, DeliveredReached, [Next]_vars
  PROVE  DeliveredReached'
<1>1. SendingsStay
  BY SendingsNeverLost
<1>2. ASSUME NEW i \in Items, i # Fanout, status'[i] = "delivered"
      PROVE  i \in Workers => feed'[i] = "pushed" /\ Answered(i)'
  <2> SUFFICES ASSUME i \in Workers PROVE feed'[i] = "pushed" /\ Answered(i)'
    OBVIOUS
  <2>1. feed[i] = "pushed" /\ Answered(i)
    <3>1. CASE status[i] = "delivered"
      BY <3>1 DEF DeliveredReached, Answered
    <3>2. CASE status[i] # "delivered"
      <4>1. PICK d \in Deliverers : At(d, "done") /\ work[d].item = i
        BY <1>2, <3>2, StatusChange DEF Done
      <4> QED
        BY <4>1 DEF CarriedTrue, JobTrue
    <3> QED
      BY <3>1, <3>2
  <2> QED
    BY <1>1, <2>1 DEF SendingsStay, Answered, Items
<1>3. ASSUME NEW i \in Receipts, status'[i] = "delivered"
      PROVE  copies'[i] > 0
  <2>0. i \in Items /\ i # Fanout
    BY ItemKinds DEF Items
  <2>1. copies[i] > 0
    <3>1. CASE status[i] = "delivered"
      BY <3>1 DEF DeliveredReached
    <3>2. CASE status[i] # "delivered"
      <4>1. PICK d \in Deliverers : At(d, "done") /\ work[d].item = i
        BY <1>3, <2>0, <3>2, StatusChange DEF Done
      <4> QED
        BY <4>1 DEF CarriedTrue, JobTrue
    <3> QED
      BY <3>1, <3>2
  <2> QED
    BY <1>1, <2>0, <2>1 DEF SendingsStay
<1>4. \A w \in Workers : w \in Items /\ w # Fanout
  BY ItemKinds DEF Items
<1> QED
  BY <1>2, <1>3, <1>4 DEF DeliveredReached, Answered

(* ---- what is delivered stays delivered -------------------------------- *)

\* The ways an item becomes the last claim of a deliverer, and the work a
\* deliverer turns to.
LEMMA HolderStep ==
  ASSUME TypeOK, [Next]_vars, NEW i \in Items
  PROVE  holder'[i] # holder[i] => \E d \in Deliverers : Claim(d, i) /\ holder'[i] = d
<1>1. CASE \E k \in Items : BackoffEnds(k) \/ LeaseEnds(k)
  BY <1>1 DEF BackoffEnds, LeaseEnds
<1>2. CASE CloseRecruitment \/ UNCHANGED vars
  BY <1>2 DEF CloseRecruitment, vars, item
<1>3. ASSUME NEW d \in Deliverers, Work(d) \/ Crash(d)
      PROVE  holder' = holder
  BY <1>3 DEF Work, ReadBatch, QueueMatch, Queued, EndBatch, CreateNotification, SendAccepted,
              SendRefused, SendFails, MarkPushed, Done, Fail, QueryFails, Crash, item
<1>4. ASSUME NEW d \in Deliverers, NEW k \in Items, Claim(d, k)
      PROVE  holder'[i] # holder[i] => k = i /\ holder'[i] = d
  BY <1>4 DEF Claim, Lease, TypeOK
<1> QED
  BY <1>1, <1>2, <1>3, <1>4 DEF Next

LEMMA WorkStep ==
  ASSUME TypeOK, [Next]_vars, NEW d \in Deliverers, NEW i \in Items, Handles(d, i)'
  PROVE  \/ Handles(d, i) /\ (At(d, "undo") => work'[d] = work[d])
         \/ Claim(d, i)
<1>0. /\ work'[d] # Idle /\ work'[d].item = i
      /\ work[d] # Idle => /\ work[d].at \in {"read", "queue"} => work[d].item = Fanout
  BY WorkCases, WorkFields DEF Handles, TypeOK
<1>1. ASSUME work'[d] = work[d]
      PROVE  Handles(d, i) /\ (At(d, "undo") => work'[d] = work[d])
  BY <1>1 DEF Handles
<1>2. CASE \E k \in Items : BackoffEnds(k) \/ LeaseEnds(k)
  BY <1>1, <1>2 DEF BackoffEnds, LeaseEnds
<1>3. CASE CloseRecruitment \/ UNCHANGED vars
  BY <1>1, <1>3 DEF CloseRecruitment, vars
<1>4. ASSUME NEW e \in Deliverers, e # d, Work(e) \/ Crash(e) \/ \E k \in Items : Claim(e, k)
      PROVE  work'[d] = work[d]
  <2>1. \E w : work' = [work EXCEPT ![e] = w]
    BY <1>4 DEF Work, ReadBatch, QueueMatch, EndBatch, CreateNotification, SendAccepted,
                SendRefused, SendFails, MarkPushed, Done, Fail, QueryFails, Crash, Claim, Goto
  <2> QED
    BY <1>4, <2>1 DEF TypeOK
<1>5. ASSUME ReadBatch(d) \/ EndBatch(d)
      PROVE  Handles(d, i) /\ ~ At(d, "undo")
  <2>1. /\ work'[d] = Idle \/ work'[d].item = Fanout
        /\ work[d].at \in {"read", "queue"}
    BY <1>5, WorkFields DEF ReadBatch, EndBatch, Goto, TypeOK, At
  <2> QED
    BY <1>0, <2>1, WorkFields DEF Handles, At
<1>6. ASSUME QueueMatch(d)
      PROVE  Handles(d, i) /\ ~ At(d, "undo")
  <2>1. work[d] = Batch(work[d].todo, work[d].next)
    BY <1>6, WorkCases DEF QueueMatch, At, TypeOK
  <2>2. \E todo : work'[d] = [work[d] EXCEPT !.todo = todo]
    BY <1>6 DEF QueueMatch, Goto, TypeOK
  <2>3. work'[d].item = Fanout /\ work[d].item = Fanout /\ work[d] # Idle
    BY <2>1, <2>2, WorkFields DEF Batch
  <2> QED
    BY <1>0, <1>6, <2>3 DEF Handles, QueueMatch, At
<1>7. ASSUME \/ CreateNotification(d) \/ SendAccepted(d) \/ SendRefused(d) \/ SendFails(d)
             \/ MarkPushed(d) \/ QueryFails(d)
      PROVE  Handles(d, i) /\ ~ At(d, "undo")
  <2>1. /\ \E at, t : work'[d] = Job(work[d].item, at, t)
        /\ work[d].at # "idle" /\ ~ At(d, "undo")
    BY <1>7 DEF CreateNotification, SendAccepted, SendRefused, SendFails, MarkPushed, QueryFails,
                Goto, TypeOK, At
  <2> QED
    BY <1>0, <2>1, WorkFields DEF Handles
<1>8. ASSUME Done(d) \/ Fail(d) \/ Crash(d)
      PROVE  FALSE
  BY <1>0, <1>8 DEF Done, Fail, Crash, Goto, TypeOK
<1>9. ASSUME NEW k \in Items, Claim(d, k)
      PROVE  k = i
  <2>1. work'[d] = FirstStep(k)
    BY <1>9 DEF Claim, TypeOK
  <2> QED
    BY <1>0, <2>1, WorkFields DEF FirstStep
<1> QED
  BY <1>1, <1>2, <1>3, <1>4, <1>5, <1>6, <1>7, <1>8, <1>9 DEF Next, Work

LEMMA NextHolder ==
  ASSUME TypeOK, CarriedTrue, HolderTrue, [Next]_vars
  PROVE  HolderTrue'
<1> SUFFICES ASSUME NEW d \in Deliverers, NEW i \in Items \ {Fanout},
                    Handles(d, i)', holder'[i] = d
             PROVE  \/ status'[i] = "delivering"
                    \/ At(d, "undo")' /\ status'[i] = "delivered"
  BY DEF HolderTrue
<1>1. CASE Claim(d, i)
  BY <1>1 DEF Claim, Lease, TypeOK
<1>2. CASE ~ Claim(d, i)
  <2>1. Handles(d, i) /\ (At(d, "undo") => work'[d] = work[d])
    BY <1>2, WorkStep
  <2>2. holder[i] = d
    BY <1>2, HolderStep
  <2>3. status[i] = "delivering" \/ (At(d, "undo") /\ status[i] = "delivered")
    BY <2>1, <2>2 DEF HolderTrue
  <2>4. ASSUME NEW e \in Deliverers, Claim(e, i) PROVE FALSE
    BY <1>2, <2>4 DEF Claim, Lease, TypeOK
  <2>5. ~ (Done(d) \/ Fail(d))
    <3>1. Done(d) \/ Fail(d) => work'[d] = Idle
      BY DEF Done, Fail, Goto, TypeOK
    <3> QED
      BY <3>1 DEF Handles
  <2>6. QueryFails(d) /\ At(d, "done") => At(d, "undo")'
    BY WorkFields DEF QueryFails, Goto, TypeOK, At
  <2>7. CASE status'[i] = status[i]
    BY <2>1, <2>3, <2>7 DEF At
  <2>8. CASE status'[i] # status[i]
    BY <2>2, <2>3, <2>4, <2>5, <2>6, <2>8, StatusChange
  <2> QED
    BY <2>7, <2>8
<1> QED
  BY <1>1, <1>2

(* ---- repeats are explained -------------------------------------------- *)

\* How many may still send, when one deliverer leaves off or begins.
LEMMA SendersCount ==
  ASSUME NEW i, NEW d
  PROVE  /\ Cardinality(Senders(i)) \in Nat /\ Cardinality(Senders(i)') \in Nat
         /\ Senders(i)' \subseteq Senders(i)
              => Cardinality(Senders(i)') <= Cardinality(Senders(i))
         /\ d \in Senders(i) /\ Senders(i)' \subseteq Senders(i) \ {d}
              => Cardinality(Senders(i)') <= Cardinality(Senders(i)) - 1
         /\ Senders(i)' \subseteq Senders(i) \cup {d}
              => Cardinality(Senders(i)') <= Cardinality(Senders(i)) + 1
<1>1. IsFiniteSet(Senders(i)) /\ IsFiniteSet(Senders(i)')
  <2>1. Senders(i) \in SUBSET Deliverers /\ Senders(i)' \in SUBSET Deliverers
    BY DEF Senders
  <2> QED
    BY <2>1, OutboxAssumption, FS_Subset
<1>2. Cardinality(Senders(i)) \in Nat /\ Cardinality(Senders(i)') \in Nat
  BY <1>1, FS_CardinalityType
<1> DEFINE S == Senders(i)
           T == Senders(i)'
<1> HIDE DEF S, T
<1>3. T \subseteq S => Cardinality(T) <= Cardinality(S)
  BY <1>1, FS_Subset DEF S, T
<1>4. d \in S /\ T \subseteq S \ {d} => Cardinality(T) <= Cardinality(S) - 1
  <2>1. /\ IsFiniteSet(S \ {d})
        /\ d \in S => Cardinality(S \ {d}) = Cardinality(S) - 1
    BY <1>1, FS_RemoveElement DEF S
  <2>2. T \subseteq S \ {d} => Cardinality(T) <= Cardinality(S \ {d})
    BY <2>1, FS_Subset
  <2> QED
    BY <2>1, <2>2
<1>5. T \subseteq S \cup {d} => Cardinality(T) <= Cardinality(S) + 1
  <2>1. /\ IsFiniteSet(S \cup {d})
        /\ Cardinality(S \cup {d}) = IF d \in S THEN Cardinality(S) ELSE Cardinality(S) + 1
    BY <1>1, FS_AddElement DEF S
  <2>2. T \subseteq S \cup {d} => Cardinality(T) <= Cardinality(S \cup {d})
    BY <2>1, FS_Subset
  <2>3. Cardinality(S) \in Nat /\ Cardinality(T) \in Nat
    BY <1>2 DEF S, T
  <2>4. Cardinality(S \cup {d}) \in Nat /\ Cardinality(S \cup {d}) <= Cardinality(S) + 1
    BY <2>1, <2>3
  <2> QED
    BY <2>2, <2>3, <2>4
<1> QED
  BY <1>2, <1>3, <1>4, <1>5 DEF S, T

\* What a step leaves as it was.
LEMMA SameCopies ==
  ASSUME TypeOK, NEW i \in Items, Bounded(i), Senders(i)' \subseteq Senders(i),
         Spare(i)' => Spare(i), copies'[i] = copies[i], unsure'[i] = unsure[i],
         lapses'[i] = lapses[i]
  PROVE  Bounded(i)'
<1>1. Cardinality(Senders(i)') <= Cardinality(Senders(i))
  BY SendersCount
<1>2. Cardinality(Senders(i)) \in Nat /\ Cardinality(Senders(i)') \in Nat
  BY SendersCount
<1>3. copies[i] \in Nat /\ unsure[i] \in Nat /\ lapses[i] \in Nat
  BY DEF TypeOK
<1> QED
  BY <1>1, <1>2, <1>3 DEF Bounded

\* A push recorded as made stays so.
PushesStay == \A i \in Items : Pushed(i) => Pushed(i)'

LEMMA PushesAreKept ==
  ASSUME TypeOK, CarriedTrue, [Next]_vars
  PROVE  PushesStay
BY SendingsNeverLost DEF SendingsStay, PushesStay, Pushed

\* Where a deliverer turns to other work, only it leaves or joins the senders and
\* the holders about to fail.
LEMMA SendersChange ==
  ASSUME TypeOK, PushesStay, NEW d \in Deliverers, NEW w, work' = [work EXCEPT ![d] = w],
         NEW i \in Items
  PROVE  /\ \A e \in Deliverers : e # d /\ e \in Senders(i)' => e \in Senders(i)
         /\ d \in Senders(i)' => /\ w # Idle /\ w.item = i
                                /\ (w.at = "send" \/ (w.at = "feed" /\ ~ Pushed(i)))
         /\ ~ (w # Idle /\ w.item = i /\ w.at \in {"feed", "send"})
              => Senders(i)' \subseteq Senders(i) \ {d}
<1>1. \A e \in Deliverers : work'[e] = IF e = d THEN w ELSE work[e]
  BY DEF TypeOK
<1>2. Pushed(i) => Pushed(i)'
  BY DEF PushesStay
<1> QED
  BY <1>1, <1>2 DEF Senders, Handles, At

LEMMA SpareChange ==
  ASSUME TypeOK, PushesStay, NEW d \in Deliverers, NEW w, work' = [work EXCEPT ![d] = w],
         NEW i \in Items, status'[i] = status[i], ready'[i] = ready[i], holder'[i] = holder[i],
         ~ (w # Idle /\ w.item = i /\ w.at \in {"fail", "undo"})
  PROVE  Spare(i)' => Spare(i)
<1>1. \A e \in Deliverers : work'[e] = IF e = d THEN w ELSE work[e]
  BY DEF TypeOK
<1>2. Pushed(i) => Pushed(i)'
  BY DEF PushesStay
<1> QED
  BY <1>1, <1>2 DEF Spare, Handles

LEMMA SendCopies ==
  ASSUME TypeOK, CarriedTrue, CopiesBounded, PushesStay, NEW d \in Deliverers,
         \/ CreateNotification(d) \/ SendAccepted(d) \/ SendRefused(d) \/ SendFails(d)
         \/ MarkPushed(d)
  PROVE  CopiesBounded'
<1>0. PICK k : k = work[d].item
  OBVIOUS
<1>1. k \in Items /\ k # Fanout /\ work[d] # Idle
  <2>1. k \in Items /\ work[d] # Idle
    BY <1>0, WorkCases, WorkFields
       DEF TypeOK, At, JobSteps, CreateNotification, SendAccepted, SendRefused, SendFails,
           MarkPushed
  <2>2. k # Fanout
    BY <1>0, ItemKinds
       DEF CreateNotification, SendAccepted, SendRefused, SendFails, MarkPushed, CarriedTrue,
           JobTrue
  <2> QED
    BY <2>1, <2>2
<1>2. UNCHANGED << status, ready, holder, lapses >>
  BY DEF CreateNotification, SendAccepted, SendRefused, SendFails, MarkPushed, item
<1>3. PICK w :
        /\ work' = [work EXCEPT ![d] = w]
        /\ w # Idle /\ w.item = k
        /\ w.at \in {"send", "mark", "done", "fail"}
        /\ w.at = "fail" => SendFails(d)
        /\ w.at = "send" => SendFails(d) \/ (CreateNotification(d) /\ ~ Pushed(k))
  <2>0. \A at, t : at # "idle" => Job(k, at, t) # Idle
    BY WorkFields
  <2>1. CASE CreateNotification(d)
    <3>1. PICK at \in {"done", "send"} :
            /\ work' = [work EXCEPT ![d] = Job(k, at, 0)]
            /\ Pushed(k) => at = "done"
      BY <1>0, <2>1 DEF CreateNotification, Goto, Pushed
    <3> DEFINE v == Job(k, at, 0)
    <3>2. v # Idle /\ v.item = k /\ v.at = at
      BY <2>0, <3>1, WorkFields
    <3> HIDE DEF v
    <3>3. work' = [work EXCEPT ![d] = v]
      BY <3>1 DEF v
    <3> QED
      BY <2>1, <3>1, <3>2, <3>3
  <2>2. CASE MarkPushed(d) \/ SendAccepted(d) \/ SendRefused(d)
    <3>1. PICK at \in {"done", "mark"} : work' = [work EXCEPT ![d] = Job(k, at, 0)]
      BY <1>0, <2>2 DEF MarkPushed, SendAccepted, SendRefused, Goto
    <3> DEFINE v == Job(k, at, 0)
    <3>2. v # Idle /\ v.item = k /\ v.at = at /\ work' = [work EXCEPT ![d] = v]
      BY <2>0, <3>1, WorkFields
    <3> HIDE DEF v
    <3> QED
      BY <3>1, <3>2
  <2>3. CASE SendFails(d)
    <3>1. PICK t : \E at \in {"fail", "send"} : work' = [work EXCEPT ![d] = Job(k, at, t)]
      BY <1>0, <2>3 DEF SendFails, Goto
    <3>2. PICK at \in {"fail", "send"} : work' = [work EXCEPT ![d] = Job(k, at, t)]
      BY <3>1
    <3> DEFINE v == Job(k, at, t)
    <3>3. v # Idle /\ v.item = k /\ v.at = at /\ work' = [work EXCEPT ![d] = v]
      BY <2>0, <3>2, WorkFields
    <3> HIDE DEF v
    <3> QED
      BY <2>3, <3>2, <3>3
  <2> QED
    BY <2>1, <2>2, <2>3
<1> DEFINE at == w.at
<1>4. w # Idle /\ w.item = k /\ w.at = at
  BY <1>3
<1>5. ASSUME NEW i \in Items, i # k, Bounded(i)
      PROVE  Bounded(i)'
  <2>1. Senders(i)' \subseteq Senders(i)
    BY <1>3, <1>4, <1>5, SendersChange
  <2>2. Spare(i)' => Spare(i)
    BY <1>2, <1>3, <1>4, <1>5, SpareChange
  <2>3. copies'[i] = copies[i] /\ unsure'[i] = unsure[i]
    <3>1. CASE CreateNotification(d) \/ MarkPushed(d) \/ SendRefused(d)
      BY <3>1 DEF CreateNotification, MarkPushed, SendRefused
    <3>2. CASE SendAccepted(d) \/ SendFails(d)
      <4>1. \E taken, n : /\ copies' = [copies EXCEPT ![k] = @ + taken]
                          /\ unsure' = [unsure EXCEPT ![k] = n] \/ unsure' = unsure
        BY <1>0, <3>2 DEF SendAccepted, SendFails
      <4> QED
        BY <1>5, <4>1 DEF TypeOK
    <3> QED
      BY <3>1, <3>2
  <2> QED
    BY <1>2, <1>5, <2>1, <2>2, <2>3, SameCopies
<1>6. Bounded(k)'
  <2>0. Bounded(k) /\ copies[k] \in Nat /\ unsure[k] \in Nat /\ lapses[k] \in Nat
    BY <1>1 DEF CopiesBounded, TypeOK
  <2>1. CASE CreateNotification(d) \/ MarkPushed(d) \/ SendRefused(d)
    <3>1. at \notin {"fail", "undo"}
      <4>1. work'[d].at \in {"send", "mark", "done"}
        BY <2>1, WorkFields DEF CreateNotification, MarkPushed, SendRefused, Goto, TypeOK
      <4> QED
        BY <1>3, <1>4, <4>1 DEF TypeOK
    <3>2. Spare(k)' => Spare(k)
      BY <1>1, <1>2, <1>3, <1>4, <3>1, SpareChange
    <3>3. Senders(k)' \subseteq Senders(k)
      <4>1. CASE at = "send"
        <5>1. ~ SendFails(d)
          BY <2>1 DEF CreateNotification, MarkPushed, SendRefused, SendFails, At, Trouble, TypeOK
        <5>2. CreateNotification(d) /\ ~ Pushed(k)
          BY <1>3, <4>1, <5>1
        <5>3. d \in Senders(k)
          BY <1>0, <1>1, <5>2 DEF CreateNotification, At, Senders, Handles
        <5>4. \A e \in Senders(k)' : e \in Deliverers /\ (e # d => e \in Senders(k))
          BY <1>1, <1>3, SendersChange DEF Senders
        <5> QED
          BY <5>3, <5>4
      <4>2. CASE at # "send"
        BY <1>1, <1>3, <1>4, <4>2, SendersChange
      <4> QED
        BY <4>1, <4>2
    <3>4. copies' = copies /\ unsure' = unsure
      BY <2>1 DEF CreateNotification, MarkPushed, SendRefused
    <3> QED
      BY <1>1, <1>2, <2>0, <3>2, <3>3, <3>4, SameCopies
  <2>2. CASE SendAccepted(d)
    <3>1. at \notin {"feed", "send", "fail", "undo"}
      <4>1. work'[d].at \in {"done", "mark"}
        BY <2>2, WorkFields DEF SendAccepted, Goto, TypeOK
      <4> QED
        BY <1>3, <1>4, <4>1 DEF TypeOK
    <3>2. d \in Senders(k)
      BY <1>0, <1>1, <2>2 DEF SendAccepted, At, Senders, Handles
    <3>3. Senders(k)' \subseteq Senders(k) \ {d}
      BY <1>1, <1>3, <1>4, <3>1, SendersChange
    <3>4. Spare(k)' => Spare(k)
      BY <1>1, <1>2, <1>3, <1>4, <3>1, SpareChange
    <3>5. /\ Cardinality(Senders(k)') <= Cardinality(Senders(k)) - 1
          /\ Cardinality(Senders(k)) \in Nat /\ Cardinality(Senders(k)') \in Nat
      BY <3>2, <3>3, SendersCount
    <3>6. copies'[k] = copies[k] + 1 /\ unsure'[k] = unsure[k] /\ lapses'[k] = lapses[k]
      BY <1>0, <1>1, <1>2, <2>2 DEF SendAccepted, TypeOK
    <3> QED
      BY <2>0, <3>4, <3>5, <3>6 DEF Bounded
  <2>3. CASE SendFails(d)
    <3>1. PICK taken \in {0, 1} : /\ copies' = [copies EXCEPT ![k] = @ + taken]
                                  /\ unsure' = [unsure EXCEPT ![k] = @ + taken]
      BY <1>0, <2>3 DEF SendFails
    <3>2. /\ copies'[k] = copies[k] + taken /\ unsure'[k] = unsure[k] + taken
          /\ lapses'[k] = lapses[k]
      BY <1>1, <1>2, <3>1 DEF TypeOK
    <3>3. d \in Senders(k)
      BY <1>0, <1>1, <2>3 DEF SendFails, At, Senders, Handles
    <3>4. Cardinality(Senders(k)) \in Nat /\ Cardinality(Senders(k)') \in Nat
      BY SendersCount
    <3>5. CASE at \in {"feed", "send"}
      <4>1. Senders(k)' \subseteq Senders(k)
        <5>1. \A e \in Senders(k)' : e \in Deliverers /\ (e # d => e \in Senders(k))
          BY <1>1, <1>3, SendersChange DEF Senders
        <5> QED
          BY <3>3, <5>1
      <4>2. Cardinality(Senders(k)') <= Cardinality(Senders(k))
        BY <4>1, SendersCount
      <4>3. Spare(k)' => Spare(k)
        BY <1>1, <1>2, <1>3, <1>4, <3>5, SpareChange
      <4> QED
        BY <2>0, <3>2, <3>4, <4>2, <4>3 DEF Bounded
    <3>6. CASE at \notin {"feed", "send"}
      <4>1. Senders(k)' \subseteq Senders(k) \ {d}
        BY <1>1, <1>3, <1>4, <3>6, SendersChange
      <4>2. Cardinality(Senders(k)') <= Cardinality(Senders(k)) - 1
        BY <3>3, <4>1, SendersCount
      <4> QED
        BY <2>0, <3>2, <3>4, <4>2 DEF Bounded
    <3> QED
      BY <3>5, <3>6
  <2> QED
    BY <2>1, <2>2, <2>3
<1>7. copies'[Fanout] = copies[Fanout]
  <2>1. CASE CreateNotification(d) \/ MarkPushed(d) \/ SendRefused(d)
    BY <2>1 DEF CreateNotification, MarkPushed, SendRefused
  <2>2. CASE SendAccepted(d) \/ SendFails(d)
    <3>1. \E taken : copies' = [copies EXCEPT ![k] = @ + taken]
      BY <1>0, <2>2 DEF SendAccepted, SendFails
    <3> QED
      BY <1>1, <3>1, ItemKinds DEF TypeOK
  <2> QED
    BY <2>1, <2>2
<1> QED
  BY <1>5, <1>6, <1>7 DEF CopiesBounded

\* A query that fails: what may now be sent again without a lapse is counted among
\* the unsure, unless the push it would repeat is recorded.
LEMMA QueryFailsCopies ==
  ASSUME TypeOK, CarriedTrue, CopiesBounded, PushesStay, NEW d \in Deliverers, QueryFails(d)
  PROVE  CopiesBounded'
<1>0. PICK k : k = work[d].item
  OBVIOUS
<1>1. /\ k \in Items /\ work[d] # Idle
      /\ At(d, "read") \/ At(d, "queue") => k = Fanout
  BY <1>0, WorkCases, WorkFields DEF TypeOK, QueryFails, At
<1>2. UNCHANGED << holder, feed, copies, lapses >>
  BY DEF QueryFails
<1>3. PICK at \in {"fail", "undo"} : work' = [work EXCEPT ![d] = Job(k, at, 0)]
  BY <1>0 DEF QueryFails, Goto
<1> DEFINE w == Job(k, at, 0)
<1>4. w # Idle /\ w.item = k /\ w.at = at
  BY <1>3, WorkFields
<1> HIDE DEF w
<1>5. ASSUME NEW i \in Items, i # k, Bounded(i), i # Fanout
      PROVE  Bounded(i)'
  <2>1. status'[i] = status[i] /\ ready'[i] = ready[i] /\ unsure'[i] = unsure[i]
    BY <1>0, <1>1, <1>5 DEF QueryFails, Delivered, MoveCursor, TypeOK
  <2>2. Senders(i)' \subseteq Senders(i)
    BY <1>3, <1>4, <1>5, SendersChange DEF w
  <2>3. Spare(i)' => Spare(i)
    BY <1>2, <1>3, <1>4, <1>5, <2>1, SpareChange DEF w
  <2> QED
    BY <1>2, <1>5, <2>1, <2>2, <2>3, SameCopies
<1>6. ASSUME k # Fanout, Bounded(k)
      PROVE  Bounded(k)'
  <2>0. copies[k] \in Nat /\ unsure[k] \in Nat /\ lapses[k] \in Nat
    BY <1>1 DEF TypeOK
  <2>1. Senders(k)' \subseteq Senders(k) \ {d}
    BY <1>1, <1>3, <1>4, SendersChange DEF w
  <2>2. /\ Cardinality(Senders(k)') <= Cardinality(Senders(k))
        /\ d \in Senders(k) => Cardinality(Senders(k)') <= Cardinality(Senders(k)) - 1
        /\ Cardinality(Senders(k)) \in Nat /\ Cardinality(Senders(k)') \in Nat
    BY <2>1, SendersCount
  <2>3. \/ d \in Senders(k) /\ unsure'[k] = unsure[k]
        \/ Pushed(k) /\ unsure'[k] = unsure[k]
        \/ unsure'[k] = unsure[k] + 1
    <3>1. unsure'[k] = IF At(d, "mark") \/ (At(d, "done") /\ k \in Receipts)
                       THEN unsure[k] + 1 ELSE unsure[k]
      BY <1>0, <1>1 DEF QueryFails, TypeOK
    <3>2. At(d, "feed") \/ At(d, "mark") \/ At(d, "done")
      BY <1>1, <1>6 DEF QueryFails, At
    <3>3. At(d, "feed") /\ ~ Pushed(k) => d \in Senders(k)
      BY <1>0, <1>1 DEF Senders, Handles
    <3>4. At(d, "done") /\ k \notin Receipts => Pushed(k)
      BY <1>0, <1>1, <1>6, ItemKinds DEF CarriedTrue, JobTrue, Pushed
    <3>5. At(d, "feed") => ~ At(d, "mark") /\ ~ At(d, "done")
      BY DEF At
    <3>6. unsure'[k] = unsure[k] \/ unsure'[k] = unsure[k] + 1
      BY <3>1, Zenon
    <3>7. unsure'[k] = unsure[k] + 1 \/ ~ (At(d, "mark") \/ (At(d, "done") /\ k \in Receipts))
      BY <3>1, Zenon
    <3> QED
      BY <3>2, <3>3, <3>4, <3>6, <3>7, Zenon
  <2>4. Pushed(k) => ~ Spare(k)'
    BY <1>1 DEF PushesStay, Spare
  <2>5. copies'[k] = copies[k] /\ lapses'[k] = lapses[k]
    BY <1>2
  <2> QED
    BY <1>6, <2>0, <2>2, <2>3, <2>4, <2>5 DEF Bounded
<1> QED
  BY <1>2, <1>5, <1>6 DEF CopiesBounded

\* Steps that send nothing: the fan-out's own, the end of a job, a crash.
LEMMA EndCopies ==
  ASSUME TypeOK, CarriedTrue, CopiesBounded, PushesStay, NEW d \in Deliverers,
         ReadBatch(d) \/ QueueMatch(d) \/ EndBatch(d) \/ Done(d) \/ Fail(d) \/ Crash(d)
  PROVE  CopiesBounded'
<1>1. UNCHANGED << copies, unsure, lapses, holder >>
  BY DEF ReadBatch, QueueMatch, Queued, EndBatch, Done, Fail, Crash, item, sent
<1>2. PICK w : /\ work' = [work EXCEPT ![d] = w]
               /\ w = Idle \/ w.item = Fanout
  <2>1. CASE ReadBatch(d) \/ EndBatch(d)
    <3>1. \/ \E todo, next : work' = [work EXCEPT ![d] = Batch(todo, next)]
          \/ work' = [work EXCEPT ![d] = Job(Fanout, "done", 0)]
          \/ work' = [work EXCEPT ![d] = Idle]
      BY <2>1 DEF ReadBatch, EndBatch, Goto
    <3> QED
      BY <3>1, WorkFields
  <2>2. CASE QueueMatch(d)
    <3>1. work[d] = Batch(work[d].todo, work[d].next)
      BY <2>2, WorkCases DEF QueueMatch, At, TypeOK
    <3>2. \E todo : work' = [work EXCEPT ![d] = [work[d] EXCEPT !.todo = todo]]
      BY <2>2 DEF QueueMatch, Goto
    <3>3. \A todo : [work[d] EXCEPT !.todo = todo].item = Fanout
      BY <3>1 DEF Batch
    <3> QED
      BY <3>2, <3>3
  <2>3. CASE Done(d) \/ Fail(d) \/ Crash(d)
    BY <2>3 DEF Done, Fail, Crash, Goto
  <2> QED
    BY <2>1, <2>2, <2>3
<1>3. ASSUME NEW i \in Items, i # Fanout, Bounded(i)
      PROVE  Bounded(i)'
  <2>1. ~ (w # Idle /\ w.item = i)
    BY <1>2, <1>3
  <2>2. Senders(i)' \subseteq Senders(i)
    BY <1>2, <2>1, SendersChange
  <2>3. Spare(i)' => Spare(i)
    <3>1. CASE status'[i] = status[i] /\ ready'[i] = ready[i]
      BY <1>1, <1>2, <2>1, <3>1, SpareChange
    <3>2. CASE ReadBatch(d) \/ Crash(d)
      BY <3>1, <3>2 DEF ReadBatch, Crash, item
    <3>3. CASE EndBatch(d)
      BY <1>3, <3>1, <3>3 DEF EndBatch, MoveCursor, TypeOK, item
    <3>4. CASE QueueMatch(d)
      <4>1. \E m : /\ status' = [status EXCEPT ![m] = IF @ = "absent" THEN "pending" ELSE @]
                   /\ ready' = [ready EXCEPT ![m] = IF status[m] = "absent" THEN TRUE ELSE @]
        BY <3>4 DEF QueueMatch, Queued
      <4>2. \/ status'[i] = status[i] /\ ready'[i] = ready[i]
            \/ status[i] = "absent"
        BY <4>1 DEF TypeOK
      <4>3. Pushed(i) => Pushed(i)'
        BY <1>3 DEF PushesStay
      <4> QED
        BY <3>1, <4>2, <4>3 DEF Spare
    <3>5. CASE Done(d)
      <4>1. CASE status'[i] = status[i]
        BY <3>1, <3>5, <4>1 DEF Done
      <4>2. CASE status'[i] # status[i]
        <5>1. holder'[i] = d /\ status'[i] = "delivered" /\ work'[d] = Idle
          BY <1>1, <3>5, <4>2 DEF Done, Delivered, Goto, TypeOK
        <5> QED
          BY <5>1 DEF Spare, Handles
      <4> QED
        BY <4>1, <4>2
    <3>6. CASE Fail(d)
      <4>1. CASE holder[i] = d /\ work[d].item = i
        <5>1. Handles(d, i) /\ work[d].at \in {"fail", "undo"}
          BY <3>6, <4>1, WorkFields DEF Fail, At, Handles
        <5>2. Pushed(i) => Pushed(i)'
          BY <1>3 DEF PushesStay
        <5> QED
          BY <4>1, <5>1, <5>2 DEF Spare
      <4>2. CASE ~ (holder[i] = d /\ work[d].item = i)
        <5>1. status'[i] = status[i] /\ ready'[i] = ready[i]
          BY <3>6, <4>2 DEF Fail, TypeOK
        <5> QED
          BY <3>1, <5>1
      <4> QED
        BY <4>1, <4>2
    <3> QED
      BY <3>2, <3>3, <3>4, <3>5, <3>6
  <2> QED
    BY <1>1, <1>3, <2>2, <2>3, SameCopies
<1> QED
  BY <1>1, <1>3 DEF CopiesBounded

\* A claim takes the spare sending of its item.
LEMMA ClaimCopies ==
  ASSUME TypeOK, CopiesBounded, PushesStay, NEW d \in Deliverers, NEW k \in Items, Claim(d, k)
  PROVE  CopiesBounded'
<1>1. UNCHANGED << copies, unsure, lapses >>
  BY DEF Claim, sent
<1> DEFINE w == FirstStep(k)
<1>2. work' = [work EXCEPT ![d] = w] /\ work[d] = Idle
  BY WorkCases DEF Claim, At, TypeOK
<1>3. w # Idle /\ w.item = k /\ w.at \notin {"fail", "undo"}
  BY WorkFields DEF FirstStep
<1> HIDE DEF w
<1>4. ASSUME NEW i \in Items, i # k, Bounded(i)
      PROVE  Bounded(i)'
  <2>1. status'[i] = status[i] /\ ready'[i] = ready[i] /\ holder'[i] = holder[i]
    BY <1>4 DEF Claim, Lease, TypeOK
  <2>2. Senders(i)' \subseteq Senders(i)
    BY <1>2, <1>3, <1>4, SendersChange
  <2>3. Spare(i)' => Spare(i)
    BY <1>2, <1>3, <1>4, <2>1, SpareChange
  <2> QED
    BY <1>1, <1>4, <2>2, <2>3, SameCopies
<1>5. ASSUME Bounded(k)
      PROVE  Bounded(k)'
  <2>1. ~ Pushed(k) => Spare(k)
    BY DEF Claim, Claimable, Spare
  <2>2. ~ Spare(k)'
    <3>1. status'[k] = "delivering" /\ ~ ready'[k] /\ holder'[k] = d
      BY DEF Claim, Lease, TypeOK
    <3>2. work'[d] = w
      BY <1>2 DEF TypeOK
    <3> QED
      BY <1>3, <3>1, <3>2 DEF Spare
  <2>3. /\ Senders(k)' \subseteq Senders(k) \cup {d}
        /\ Pushed(k) /\ k # Fanout => Senders(k)' \subseteq Senders(k)
    <3>1. \A e \in Senders(k)' : e \in Deliverers /\ (e # d => e \in Senders(k))
      BY <1>2, SendersChange DEF Senders
    <3>2. d \in Senders(k)' => w.at = "send" \/ (w.at = "feed" /\ ~ Pushed(k))
      BY <1>2, SendersChange
    <3>3. Pushed(k) => w.at # "send"
      BY ItemKinds, WorkFields, OutboxAssumption DEF w, FirstStep, Pushed
    <3> QED
      BY <3>1, <3>2, <3>3
  <2>4. /\ Cardinality(Senders(k)') <= Cardinality(Senders(k)) + 1
        /\ Pushed(k) => Cardinality(Senders(k)') <= Cardinality(Senders(k))
        /\ Cardinality(Senders(k)') \in Nat /\ Cardinality(Senders(k)) \in Nat
    <3>1. Pushed(k) => k # Fanout
      BY ItemKinds DEF Pushed
    <3> QED
      BY <2>3, <3>1, SendersCount
  <2>5. copies[k] \in Nat /\ unsure[k] \in Nat /\ lapses[k] \in Nat
    BY DEF TypeOK
  <2> QED
    BY <1>1, <1>5, <2>1, <2>2, <2>4, <2>5 DEF Bounded
<1> QED
  BY <1>1, <1>4, <1>5 DEF CopiesBounded

\* Time passing: a lease that ends is counted.
LEMMA TimeCopies ==
  ASSUME TypeOK, CopiesBounded, NEW k \in Items, BackoffEnds(k) \/ LeaseEnds(k)
  PROVE  CopiesBounded'
<1>1. UNCHANGED << status, holder, feed, copies, unsure, work >>
  BY DEF BackoffEnds, LeaseEnds, sent
<1>2. \A i \in Items : Senders(i)' = Senders(i) /\ (Pushed(i)' <=> Pushed(i))
  BY <1>1 DEF Senders, Handles, Pushed, At
<1>3. ASSUME NEW i \in Items, Bounded(i)
      PROVE  Bounded(i)'
  <2>1. CASE BackoffEnds(k)
    <3>1. Spare(i)' => Spare(i)
      BY <1>1, <1>2, <2>1 DEF BackoffEnds, Spare, Handles, TypeOK
    <3>2. lapses' = lapses
      BY <2>1 DEF BackoffEnds
    <3> QED
      BY <1>1, <1>2, <1>3, <3>1, <3>2, SameCopies
  <2>2. CASE LeaseEnds(k) /\ i # k
    <3>1. ready'[i] = ready[i] /\ lapses'[i] = lapses[i]
      BY <2>2 DEF LeaseEnds, TypeOK
    <3>2. Spare(i)' => Spare(i)
      BY <1>1, <1>2, <3>1 DEF Spare, Handles
    <3> QED
      BY <1>1, <1>2, <1>3, <3>1, <3>2, SameCopies
  <2>3. CASE LeaseEnds(k) /\ i = k
    <3>1. lapses'[i] = lapses[i] + 1
      BY <2>3 DEF LeaseEnds, TypeOK
    <3>2. copies[i] \in Nat /\ unsure[i] \in Nat /\ lapses[i] \in Nat
      BY DEF TypeOK
    <3>3. Cardinality(Senders(i)) \in Nat /\ Senders(i)' = Senders(i)
      BY <1>2, SendersCount
    <3> QED
      BY <1>1, <1>3, <3>1, <3>2, <3>3 DEF Bounded
  <2> QED
    BY <2>1, <2>2, <2>3
<1> QED
  BY <1>1, <1>3 DEF CopiesBounded

LEMMA NextCopies ==
  ASSUME TypeOK, CarriedTrue, CopiesBounded, [Next]_vars
  PROVE  CopiesBounded'
<1>1. CASE CloseRecruitment \/ UNCHANGED vars
  <2>1. UNCHANGED << item, sent, lapses, work >>
    BY <1>1 DEF CloseRecruitment, vars, item, sent
  <2>2. \A i \in Items : Bounded(i)' <=> Bounded(i)
    BY <2>1 DEF Bounded, Senders, Spare, Handles, Pushed, At, item, sent
  <2> QED
    BY <2>1, <2>2 DEF CopiesBounded, sent
<1> QED
  BY <1>1, PushesAreKept, TimeCopies, SendCopies, QueryFailsCopies, EndCopies, ClaimCopies
     DEF Next, Work

(* ---- the theorems ----------------------------------------------------- *)

LEMMA InitInv == Init => OutboxInv
<1> SUFFICES ASSUME Init PROVE OutboxInv
  OBVIOUS
<1>1. TypeOK
  BY InitType
<1>2. FanoutTrue
  <2>1. \A w \in Matching : ~ (w <= cursor)
    <3>1. \A w \in Workers : ~ (w <= 0)
      BY OutboxAssumption DEF Workers
    <3> QED
      BY <3>1, MatchingType DEF Init
  <2>2. status[Fanout] = "pending"
    BY ItemKinds DEF Init
  <2>3. \A d \in Deliverers : PassTrue(d)
    BY WorkFields DEF Init, PassTrue, At
  <2> QED
    BY <2>1, <2>2, <2>3 DEF FanoutTrue
<1>3. CarriedTrue
  BY WorkFields DEF Init, CarriedTrue, JobTrue, At
<1>4. DeliveredReached
  BY DEF Init, DeliveredReached, Items
<1>5. HolderTrue
  BY DEF Init, HolderTrue, Handles
<1>6. CopiesBounded
  <2>1. \A i \in Items : Senders(i) = {}
    BY DEF Init, Senders, Handles
  <2>2. Cardinality({}) = 0
    BY FS_EmptySet
  <2>3. \A i \in Items : copies[i] = 0 /\ lapses[i] = 0 /\ unsure[i] = 0
    BY DEF Init
  <2>4. \A i \in Items : Bounded(i)
    BY <2>1, <2>2, <2>3 DEF Bounded
  <2> QED
    BY <2>3, <2>4, ItemKinds DEF CopiesBounded
<1> QED
  BY <1>1, <1>2, <1>3, <1>4, <1>5, <1>6 DEF OutboxInv

LEMMA NextInv == OutboxInv /\ [Next]_vars => OutboxInv'
BY NextType, NextFanout, NextCarried, NextReached, NextHolder, NextCopies DEF OutboxInv

(***************************************************************************)
(* The inductive invariant of the outbox: the fan-out only stands past     *)
(* queued workers, what a deliverer carries happened, a holder finds its   *)
(* item claimed, and sendings are paid for by lapses and by errors.        *)
(***************************************************************************)
THEOREM OutboxInvariant == Spec => []OutboxInv
BY InitInv, NextInv, PTL DEF Spec

\* Every variable stays in its domain (notificationOutbox.js and the model's
\* bookkeeping of deliverers).
THEOREM OutboxTypes == Spec => []TypeOK
<1>1. OutboxInv => TypeOK
  BY DEF OutboxInv
<1> QED
  BY <1>1, OutboxInvariant, PTL

\* For any number of overlapping fan-out passes, batch size and workers, no
\* matching worker is left out (notificationOutbox.js:24-34).
THEOREM NobodySkippedAlways == Spec => []NobodySkipped
<1>1. OutboxInv => NobodySkipped
  BY DEF OutboxInv, FanoutTrue, NobodySkipped, Told
<1> QED
  BY <1>1, OutboxInvariant, PTL

\* Whatever crashes, fails and overtakes, what is marked delivered was shown and
\* answered by the push service, or its email was taken
\* (notificationOutbox.js:18-42, pushService.js:32-41).
THEOREM DeliveredReachedAlways == Spec => []DeliveredReached
<1>1. OutboxInv => DeliveredReached
  BY DEF OutboxInv
<1> QED
  BY <1>1, OutboxInvariant, PTL

\* Every repeat of a sending is paid for by a lease that ended, or by an error the
\* server was told of though the provider had answered (notificationOutbox.js:15-44,
\* notificationService.js:77-80).
THEOREM RepeatsExplainedAlways == Spec => []RepeatsExplained
<1>1. ASSUME OutboxInv, NEW i \in Items
      PROVE  copies[i] <= 1 + lapses[i] + unsure[i]
  <2>1. copies[i] \in Nat /\ lapses[i] \in Nat /\ unsure[i] \in Nat
    BY <1>1 DEF OutboxInv, TypeOK
  <2>2. CASE i = Fanout
    BY <1>1, <2>1, <2>2 DEF OutboxInv, CopiesBounded
  <2>3. CASE i # Fanout
    <3>1. Cardinality(Senders(i)) \in Nat
      BY SendersCount
    <3>2. Bounded(i)
      BY <1>1, <2>3 DEF OutboxInv, CopiesBounded
    <3> QED
      BY <2>1, <3>1, <3>2 DEF Bounded
  <2> QED
    BY <2>2, <2>3
<1>2. OutboxInv => RepeatsExplained
  BY <1>1 DEF RepeatsExplained
<1> QED
  BY <1>2, OutboxInvariant, PTL

\* A delivered notice or receipt is not taken up again by whoever fails late, only
\* by a deliverer whose own mark of it was reported as an error
\* (notificationOutbox.js:39-42).
THEOREM DeliveredStaysAlways == Spec => DeliveredStays
<1>1. ASSUME OutboxInv, [Next]_vars, NEW i \in Items \ {Fanout}, status[i] = "delivered"
      PROVE  \/ status'[i] = "delivered"
             \/ \E d \in Deliverers : At(d, "undo") /\ work[d].item = i
  <2> SUFFICES ASSUME status'[i] # status[i]
               PROVE  \E d \in Deliverers : At(d, "undo") /\ work[d].item = i
    BY <1>1
  <2>1. TypeOK /\ CarriedTrue /\ HolderTrue
    BY <1>1 DEF OutboxInv
  <2>2. ASSUME NEW d \in Deliverers, Claim(d, i) PROVE FALSE
    BY <1>1, <2>2 DEF Claim, Claimable
  <2>3. PICK d \in Deliverers : holder[i] = d /\ work[d].item = i /\ Fail(d)
    BY <1>1, <2>1, <2>2, StatusChange
  <2>4. Handles(d, i)
    BY <2>3, WorkFields DEF Fail, Handles
  <2>5. At(d, "undo")
    BY <1>1, <2>1, <2>3, <2>4 DEF HolderTrue
  <2> QED
    BY <2>3, <2>5
<1>2. OutboxInv /\ [Next]_vars
        => [\A i \in Items \ {Fanout} :
              status[i] = "delivered"
                => \/ status'[i] = "delivered"
                   \/ \E d \in Deliverers : At(d, "undo") /\ work[d].item = i]_vars
  BY <1>1
<1> QED
  BY <1>2, OutboxInvariant, PTL DEF Spec, DeliveredStays

=============================================================================
