--------------------------- MODULE Payment_proofs ---------------------------
(***************************************************************************)
(* Proofs about the payment of an assignment, for every number of days,    *)
(* proofs, requests, ticks and troubles.  The four groups of variables     *)
(* have an invariant each; every action keeps the one of the group it      *)
(* writes, and the others with it.                                         *)
(***************************************************************************)
EXTENDS Payment, FiniteSetLemmas, TLAPS

(* ---- the inductive invariant ------------------------------------------- *)

\* What the worker has: all of it at once, or one rate for each paid day.
Earned == IF Whole \in paid THEN Agreed ELSE Cardinality(paid)

\* The part of TypeOK about the assignment, and the ledger without sums.
AssignmentInv ==
  /\ mode \in {"daily", "assignment"}
  /\ work \in {"In Progress", "Submitted", "Changes Requested", "Completed"}
  /\ payment \in {"Secured", "Partially Paid", "Paid"}
  /\ held \in BOOLEAN /\ holds \in 0 .. MaxHolds
  /\ proof \in [AllParts -> 0 .. MaxProofs]
  /\ seen \in [AllParts -> 0 .. MaxProofs]
  /\ first \in 0 .. MaxClock
  /\ paid \subseteq Parts
  /\ balance = Earned
  /\ paidAmount = balance
  /\ funds = Agreed - balance
  /\ payment = IF paid = Parts THEN "Paid"
               ELSE IF paid = {} THEN "Secured" ELSE "Partially Paid"

\* A day that was reminded of in this tick is not due again in it.
DailyInv ==
  /\ due \in [Days -> 0 .. MaxClock + Interval]
  /\ reminders \subseteq [day : Days, due : 1 .. MaxClock]
  /\ \A r \in reminders : due[r.day] = 0 \/ due[r.day] > clock
  /\ RemindersSpaced

\* A call that goes on to record its settlement has seen the payment.
QrInv ==
  /\ request \in [Requests -> {"none", "made", "active", "settling", "settled", "ended"}]
  /\ call \in [Requests -> {"none", "check", "pay", "record", "release"}]
  /\ \A r \in Requests : request[r] = "settled" \/ call[r] = "record" => payment = "Paid"
  /\ \A q, r \in Active : q = r

\* The email job that works, works on a stage.
RemindingInv ==
  /\ stages \subseteq Stages /\ emailed \subseteq Stages
  /\ next \in 0 .. MaxClock + 2 * Day
  /\ claim \in Stages \cup {0}
  /\ mailer \in [at : {"idle", "send", "record"}, stage : Stages \cup {0}]
  /\ mailer.at # "idle" => mailer.stage \in Stages
  /\ failing \subseteq Jobs

PaymentInv ==
  /\ clock \in 1 .. MaxClock
  /\ troubles \in 0 .. MaxTroubles
  /\ AssignmentInv
  /\ DailyInv
  /\ QrInv
  /\ RemindingInv

(* ---- numbers ------------------------------------------------------------ *)

LEMMA Positive ==
  /\ IsFiniteSet(Days) /\ Agreed \in Nat \ {0}
  /\ Whole \notin Days
  /\ Interval \in Nat \ {0} /\ MaxClock \in Nat \ {0}
  /\ MaxProofs \in Nat /\ MaxHolds \in Nat /\ MaxTroubles \in Nat /\ MaxRequests \in Nat
  /\ Agreed = Cardinality(Days)
<1>1. Cardinality(Days) \in Nat /\ Cardinality(Days) # 0
  BY PaymentAssumption, FS_CardinalityType, FS_EmptySet
<1> QED
  BY <1>1, PaymentAssumption DEF Agreed

LEMMA DivBounds ==
  ASSUME NEW n \in Nat, NEW m \in Nat \ {0}
  PROVE  n \div m \in Nat /\ (n \div m) * m <= n /\ n < (n \div m + 1) * m
OBVIOUS

\* The next reminder lies after now, by at most one interval.
LEMMA NextDueLater ==
  ASSUME NEW d \in Days, due[d] \in Nat, clock \in Nat, due[d] <= clock
  PROVE  NextDue(d) \in Nat /\ clock < NextDue(d) /\ NextDue(d) <= clock + Interval
<1> DEFINE a == due[d]
           q == (clock - a) \div Interval
<1>1. clock - a \in Nat /\ Interval \in Nat \ {0}
  BY Positive
<1>2. q \in Nat /\ q * Interval <= clock - a /\ clock - a < (q + 1) * Interval
  <2> HIDE DEF q
  <2> QED
    BY <1>1, DivBounds DEF q
<1> HIDE DEF a, q
<1>3. (q + 1) * Interval = q * Interval + Interval /\ q * Interval \in Nat
  BY <1>1, <1>2
<1>4. NextDue(d) = a + (q + 1) * Interval
  BY DEF NextDue, a, q
<1>5. a \in Nat
  BY DEF a
<1> QED
  BY <1>1, <1>2, <1>3, <1>4, <1>5

(* ---- the assignment ----------------------------------------------------- *)

LEMMA PaidDays ==
  ASSUME AssignmentInv
  PROVE  /\ IsFiniteSet(paid) /\ Cardinality(paid) \in Nat
         /\ Earned \in 0 .. Agreed
         /\ mode = "daily" => paid \subseteq Days /\ Whole \notin paid
         /\ mode = "assignment" => paid \subseteq {Whole}
<1>1. /\ mode = "daily" => paid \subseteq Days /\ Whole \notin paid
      /\ mode = "assignment" => paid \subseteq {Whole}
  BY Positive DEF AssignmentInv, Parts
<1>2. mode \in {"daily", "assignment"}
  BY DEF AssignmentInv
<1>3. IsFiniteSet({Whole})
  BY FS_Singleton
<1>4. CASE mode = "daily"
  <2>1. IsFiniteSet(paid) /\ Cardinality(paid) <= Cardinality(Days)
    BY <1>1, <1>4, Positive, FS_Subset
  <2>2. Cardinality(paid) \in Nat
    BY <2>1, FS_CardinalityType
  <2> QED
    BY <1>1, <1>4, <2>1, <2>2, Positive DEF Earned
<1>5. CASE mode = "assignment"
  <2>1. IsFiniteSet(paid)
    BY <1>1, <1>3, <1>5, FS_Subset
  <2>2. Cardinality(paid) \in Nat
    BY <2>1, FS_CardinalityType
  <2>3. Whole \notin paid => paid = {}
    BY <1>1, <1>5
  <2>4. Whole \notin paid => Earned = 0
    BY <2>3, FS_EmptySet DEF Earned
  <2>5. Whole \in paid => Earned = Agreed
    BY DEF Earned
  <2>6. Earned \in 0 .. Agreed
    BY <2>4, <2>5, Positive
  <2> QED
    BY <1>1, <1>5, <2>1, <2>2, <2>6
<1> QED
  BY <1>2, <1>4, <1>5

LEMMA AssignmentStays ==
  ASSUME AssignmentInv, UNCHANGED assignment
  PROVE  AssignmentInv' /\ payment' = payment
BY DEF AssignmentInv, assignment, Earned, Parts

LEMMA LedgerStays ==
  ASSUME AssignmentInv, UNCHANGED << mode, payment, paid, paidAmount, funds, balance >>
  PROVE  /\ mode' \in {"daily", "assignment"}
         /\ payment' \in {"Secured", "Partially Paid", "Paid"}
         /\ paid' \subseteq Parts'
         /\ balance' = Earned' /\ paidAmount' = balance' /\ funds' = Agreed - balance'
         /\ payment' = IF paid' = Parts' THEN "Paid"
                       ELSE IF paid' = {} THEN "Secured" ELSE "Partially Paid"
BY DEF AssignmentInv, Earned, Parts

\* Holding, reviewing and asking for changes pay nothing.
LEMMA OnAssignmentKeeps ==
  ASSUME AssignmentInv, Hold \/ Lift \/ RequestChanges \/ \E p \in AllParts : Review(p)
  PROVE  AssignmentInv' /\ payment' = payment
<1>1. ASSUME Hold
      PROVE  AssignmentInv' /\ payment' = payment
  <2>1. holds' \in 0 .. MaxHolds /\ held' \in BOOLEAN
    <3>1. holds \in 0 .. MaxHolds /\ holds < MaxHolds /\ holds' = holds + 1 /\ held' = TRUE
      BY <1>1 DEF Hold, AssignmentInv
    <3> QED
      BY <3>1, Positive
  <2> QED
    BY <1>1, <2>1, LedgerStays DEF Hold, AssignmentInv
<1>2. ASSUME Lift
      PROVE  AssignmentInv' /\ payment' = payment
  BY <1>2, LedgerStays DEF Lift, AssignmentInv
<1>3. ASSUME RequestChanges
      PROVE  AssignmentInv' /\ payment' = payment
  BY <1>3, LedgerStays DEF RequestChanges, AssignmentInv
<1>4. ASSUME NEW p \in AllParts, Review(p)
      PROVE  AssignmentInv' /\ payment' = payment
  <2>1. seen' \in [AllParts -> 0 .. MaxProofs]
    BY <1>4 DEF Review, AssignmentInv
  <2> QED
    BY <1>4, <2>1, LedgerStays DEF Review, AssignmentInv
<1> QED
  BY <1>1, <1>2, <1>3, <1>4

\* A proof pays nothing.
LEMMA SubmittedKeeps ==
  ASSUME AssignmentInv, clock \in 1 .. MaxClock, NEW p \in AllParts, Submitted(p)
  PROVE  /\ AssignmentInv' /\ payment' = payment
         /\ first' \in 1 .. MaxClock
<1>1. proof' \in [AllParts -> 0 .. MaxProofs]
  <2>1. proof \in [AllParts -> 0 .. MaxProofs]
    BY DEF AssignmentInv
  <2>2. proof[p] < MaxProofs /\ proof' = [proof EXCEPT ![p] = @ + 1]
    BY DEF Submitted
  <2> DEFINE n == proof[p]
  <2>3. n + 1 \in 0 .. MaxProofs
    <3>1. n \in 0 .. MaxProofs /\ n < MaxProofs /\ MaxProofs \in Nat
      BY <2>1, <2>2, Positive
    <3> HIDE DEF n
    <3> QED
      BY <3>1
  <2> QED
    BY <2>1, <2>2, <2>3
<1>2. first' \in 1 .. MaxClock
  <2>1. first \in 0 .. MaxClock /\ first' = IF first = 0 THEN clock ELSE first
    BY DEF Submitted, AssignmentInv
  <2> QED
    BY <2>1, Positive
<1>3. work' \in {"In Progress", "Submitted", "Changes Requested", "Completed"}
  BY DEF Submitted, AssignmentInv
<1>4. UNCHANGED << mode, payment, held, holds, seen, paid, paidAmount, funds, balance >>
  BY DEF Submitted
<1>5. first' \in 0 .. MaxClock
  BY <1>2
<1>6. held' \in BOOLEAN /\ holds' \in 0 .. MaxHolds /\ seen' \in [AllParts -> 0 .. MaxProofs]
  BY <1>4 DEF AssignmentInv
<1>7. UNCHANGED << mode, payment, paid, paidAmount, funds, balance >>
  BY <1>4
<1>8. AssignmentInv'
  <2>1. /\ mode' \in {"daily", "assignment"}
        /\ payment' \in {"Secured", "Partially Paid", "Paid"}
        /\ paid' \subseteq Parts'
        /\ balance' = Earned' /\ paidAmount' = balance' /\ funds' = Agreed - balance'
        /\ payment' = IF paid' = Parts' THEN "Paid"
                      ELSE IF paid' = {} THEN "Secured" ELSE "Partially Paid"
    BY <1>7, LedgerStays
  <2> QED
    BY <1>1, <1>3, <1>5, <1>6, <2>1 DEF AssignmentInv, Agreed, AllParts
<1> QED
  BY <1>2, <1>7, <1>8

\* Who pays the whole assignment pays it for the first time.
LEMMA SettlesPays ==
  ASSUME AssignmentInv, Settles
  PROVE  AssignmentInv' /\ payment' = "Paid" /\ paid' = {Whole}
<1>1. mode = "assignment" /\ mode' = mode /\ Parts = {Whole} /\ Parts' = {Whole}
  BY DEF Settles, Parts
<1>2. paid = {}
  <2>1. paid # Parts
    BY DEF Settles, Open, AssignmentInv
  <2> QED
    BY <1>1, <2>1, PaidDays
<1>3. balance = 0 /\ paidAmount = 0 /\ funds = Agreed
  <2>1. Earned = 0
    BY <1>2, FS_EmptySet DEF Earned
  <2>2. balance = Earned /\ paidAmount = balance /\ funds = Agreed - balance
    BY DEF AssignmentInv
  <2> QED
    BY <2>1, <2>2, Positive
<1>4. Amount(Whole) = Agreed
  BY DEF Amount, Agreed
<1>5. balance' = Agreed /\ funds' = 0 /\ paidAmount' = Agreed /\ paid' = {Whole}
  BY <1>2, <1>3, <1>4, Positive DEF Settles, Credited
<1>6. Earned' = Agreed
  BY <1>5 DEF Earned, Agreed
<1>7. UNCHANGED << mode, held, holds, proof, seen, first >> /\ work' = "Completed" /\ payment' = "Paid"
  BY DEF Settles
<1>8. funds' = Agreed - balance'
  BY <1>5, Positive
<1> QED
  BY <1>1, <1>5, <1>6, <1>7, <1>8 DEF AssignmentInv

\* A day is paid at its rate, and none is paid again.
LEMMA SettleDayPays ==
  ASSUME AssignmentInv, NEW d \in Days, SettleDay(d)
  PROVE  /\ AssignmentInv'
         /\ payment # "Paid"
         /\ paid' = paid \cup {d}
<1>1. mode = "daily" /\ mode' = mode /\ Parts = Days /\ Parts' = Days
  BY DEF SettleDay, Parts
<1>2. d \notin paid /\ paid' = paid \cup {d} /\ payment # "Paid"
  BY DEF SettleDay, Credited, Open
<1>3. IsFiniteSet(paid) /\ Cardinality(paid) \in Nat /\ paid \subseteq Days /\ Whole \notin paid
  BY <1>1, PaidDays
<1>4. Cardinality(paid') = Cardinality(paid) + 1
  BY <1>2, <1>3, FS_AddElement
<1>5. Amount(d) = 1
  BY Positive DEF Amount
<1>6. Whole \notin paid'
  BY <1>2, <1>3, Positive
<1>7. Earned = Cardinality(paid) /\ Earned' = Cardinality(paid) + 1
  BY <1>3, <1>4, <1>6 DEF Earned
<1>8. balance' = Earned' /\ paidAmount' = balance' /\ funds' = Agreed - balance'
  <2>1. balance = Earned /\ paidAmount = balance /\ funds = Agreed - balance
    BY DEF AssignmentInv
  <2>2. balance' = balance + 1 /\ funds' = funds - 1 /\ paidAmount' = paidAmount + 1
    BY <1>5 DEF SettleDay, Credited
  <2> QED
    BY <1>3, <1>7, <2>1, <2>2, Positive
<1>9. paid' \subseteq Parts' /\ paid' # {}
  BY <1>1, <1>2, <1>3
<1>10. payment' = IF paid' = Parts' THEN "Paid"
                  ELSE IF paid' = {} THEN "Secured" ELSE "Partially Paid"
  BY <1>1, <1>9 DEF SettleDay
<1>11. payment' \in {"Secured", "Partially Paid", "Paid"}
  BY <1>10
<1>12. UNCHANGED << mode, work, held, holds, proof, seen, first >>
  BY DEF SettleDay
<1> QED
  BY <1>2, <1>8, <1>9, <1>10, <1>11, <1>12 DEF AssignmentInv

(* ---- daily reminders ---------------------------------------------------- *)

LEMMA DailyStays ==
  ASSUME DailyInv, UNCHANGED << clock, daily >>
  PROVE  DailyInv'
BY DEF DailyInv, daily, RemindersSpaced

\* A proof makes its day due one interval from now, a payment never again.
LEMMA DueChanges ==
  ASSUME DailyInv, clock \in 1 .. MaxClock, NEW d \in Days,
         UNCHANGED << clock, reminders >>,
         due' = [due EXCEPT ![d] = clock + Interval] \/ due' = [due EXCEPT ![d] = 0]
  PROVE  DailyInv'
<1>1. /\ clock + Interval \in 0 .. MaxClock + Interval /\ clock + Interval > clock
      /\ 0 \in 0 .. MaxClock + Interval
  BY Positive
<1>2. PICK t \in 0 .. MaxClock + Interval :
        due' = [due EXCEPT ![d] = t] /\ (t = 0 \/ t > clock)
  BY <1>1
<1>3. due' \in [Days -> 0 .. MaxClock + Interval]
  BY <1>2 DEF DailyInv
<1>4. ASSUME NEW r \in reminders
      PROVE  due'[r.day] = 0 \/ due'[r.day] > clock
  <2>1. r.day \in Days /\ (due[r.day] = 0 \/ due[r.day] > clock)
    BY <1>4 DEF DailyInv
  <2> QED
    BY <1>2, <2>1 DEF DailyInv
<1> QED
  BY <1>3, <1>4 DEF DailyInv, RemindersSpaced

\* The check reminds of the days that are due, and none of them is due again
\* before the clock moves.
LEMMA CheckPendingKeeps ==
  ASSUME DailyInv, clock \in 1 .. MaxClock, UNCHANGED clock, CheckPending
  PROVE  DailyInv'
<1>1. /\ reminders' = reminders \cup
           {[day |-> d, due |-> due[d]] : d \in {e \in Days : Pending(e)}}
      /\ due' = [d \in Days |-> IF Pending(d) THEN NextDue(d) ELSE due[d]]
  BY DEF CheckPending
<1>2. /\ due \in [Days -> 0 .. MaxClock + Interval]
      /\ reminders \subseteq [day : Days, due : 1 .. MaxClock]
      /\ \A r \in reminders : due[r.day] = 0 \/ due[r.day] > clock
      /\ \A r, s \in reminders : r.day = s.day => r = s
  BY DEF DailyInv, RemindersSpaced
<1>3. ASSUME NEW d \in Days, Pending(d)
      PROVE  /\ due[d] \in 1 .. MaxClock /\ due[d] <= clock
             /\ NextDue(d) \in 0 .. MaxClock + Interval /\ NextDue(d) > clock
  <2>1. due[d] # 0 /\ due[d] <= clock
    BY <1>3 DEF Pending
  <2>2. due[d] \in 0 .. MaxClock + Interval
    BY <1>2
  <2>3. due[d] \in Nat /\ clock \in Nat
    BY <2>2, Positive
  <2>4. NextDue(d) \in Nat /\ clock < NextDue(d) /\ NextDue(d) <= clock + Interval
    BY <2>1, <2>3, NextDueLater
  <2>5. due[d] \in 1 .. MaxClock
    BY <2>1, <2>3, Positive
  <2> QED
    BY <2>1, <2>4, <2>5, Positive
<1>4. due' \in [Days -> 0 .. MaxClock + Interval]
  <2>1. \A d \in Days : (IF Pending(d) THEN NextDue(d) ELSE due[d]) \in 0 .. MaxClock + Interval
    BY <1>2, <1>3
  <2> QED
    BY <1>1, <2>1
<1>5. ASSUME NEW r \in reminders'
      PROVE  \/ r \in reminders /\ ~ Pending(r.day)
             \/ \E d \in Days : Pending(d) /\ r = [day |-> d, due |-> due[d]]
  <2>1. CASE r \in reminders
    <3>1. due[r.day] = 0 \/ due[r.day] > clock
      BY <1>2, <2>1
    <3>2. r.day \in Days
      BY <1>2, <2>1
    <3>3. due[r.day] \in Nat /\ clock \in Nat
      BY <1>2, <3>2, Positive
    <3>4. ~ Pending(r.day)
      BY <3>1, <3>3 DEF Pending
    <3> QED
      BY <2>1, <3>4
  <2>2. CASE r \notin reminders
    BY <1>1, <2>2
  <2> QED
    BY <2>1, <2>2
<1>6. reminders' \subseteq [day : Days, due : 1 .. MaxClock]
  <2> SUFFICES ASSUME NEW r \in reminders'
               PROVE  r \in [day : Days, due : 1 .. MaxClock]
    OBVIOUS
  <2> QED
    BY <1>2, <1>3, <1>5
<1>7. ASSUME NEW r \in reminders'
      PROVE  r.day \in Days /\ (due'[r.day] = 0 \/ due'[r.day] > clock')
  <2>1. CASE r \in reminders /\ ~ Pending(r.day)
    <3>1. r.day \in Days /\ (due[r.day] = 0 \/ due[r.day] > clock)
      BY <1>2, <2>1
    <3> QED
      BY <1>1, <2>1, <3>1
  <2>2. CASE \E d \in Days : Pending(d) /\ r = [day |-> d, due |-> due[d]]
    <3>1. PICK d \in Days : Pending(d) /\ r = [day |-> d, due |-> due[d]]
      BY <2>2
    <3>2. r.day = d /\ due'[d] = NextDue(d)
      BY <1>1, <3>1
    <3> QED
      BY <1>3, <3>1, <3>2
  <2> QED
    BY <1>5, <2>1, <2>2
<1>8. ASSUME NEW r \in reminders', NEW s \in reminders', r.day = s.day
      PROVE  r = s
  <2>1. CASE Pending(r.day)
    BY <1>5, <1>8, <2>1
  <2>2. CASE ~ Pending(r.day)
    <3>1. r \in reminders /\ s \in reminders
      BY <1>5, <1>8, <2>2
    <3> QED
      BY <1>2, <1>8, <3>1
  <2> QED
    BY <2>1, <2>2
<1> QED
  BY <1>4, <1>6, <1>7, <1>8 DEF DailyInv, RemindersSpaced

(* ---- settlement requests ------------------------------------------------ *)

LEMMA QrStays ==
  ASSUME QrInv, UNCHANGED qr, payment = "Paid" => payment' = "Paid"
  PROVE  QrInv'
BY DEF QrInv, qr, Active

\* One request takes another status, or its call another step.
LEMMA OneRequest ==
  ASSUME QrInv, payment = "Paid" => payment' = "Paid", NEW r \in Requests,
         NEW st \in {"none", "made", "active", "settling", "settled", "ended"},
         NEW step \in {"none", "check", "pay", "record", "release"},
         Becomes(r, st) \/ (UNCHANGED request /\ st = request[r]),
         Goes(r, step) \/ (UNCHANGED call /\ step = call[r]),
         st = "active" => Active \subseteq {r},
         st = "settled" \/ step = "record" => payment' = "Paid"
  PROVE  QrInv'
<1>1. request' = [request EXCEPT ![r] = st] /\ call' = [call EXCEPT ![r] = step]
  BY DEF QrInv, Becomes, Goes
<1>2. /\ request' \in [Requests -> {"none", "made", "active", "settling", "settled", "ended"}]
      /\ call' \in [Requests -> {"none", "check", "pay", "record", "release"}]
  BY <1>1 DEF QrInv
<1>3. ASSUME NEW q \in Requests, request'[q] = "settled" \/ call'[q] = "record"
      PROVE  payment' = "Paid"
  BY <1>1, <1>3 DEF QrInv
<1>4. \A q, s \in Active' : q = s
  BY <1>1 DEF QrInv, Active
<1> QED
  BY <1>2, <1>3, <1>4 DEF QrInv

LEMMA QrKeeps ==
  ASSUME AssignmentInv, QrInv, NextQr
  PROVE  /\ AssignmentInv' /\ QrInv'
         /\ payment = "Paid" => payment' = "Paid"
         /\ paid' \subseteq paid \cup {Whole}
         /\ troubles \in 0 .. MaxTroubles => troubles' \in 0 .. MaxTroubles
<1>1. PICK r \in Requests :
        \/ MakeRequest(r) \/ StoreRequest(r) \/ EndRequest(r)
        \/ ClaimRequest(r) \/ CheckRequest(r) \/ PayRequest(r) \/ RefuseRequest(r)
        \/ RecordRequest(r) \/ ReleaseRequest(r) \/ CrashCall(r)
  BY DEF NextQr
<1> DEFINE NoPayment == UNCHANGED << assignment, troubles >>
           Goal == /\ AssignmentInv' /\ QrInv'
                   /\ payment = "Paid" => payment' = "Paid"
                   /\ paid' \subseteq paid \cup {Whole}
                   /\ troubles \in 0 .. MaxTroubles => troubles' \in 0 .. MaxTroubles
<1>2. ASSUME UNCHANGED assignment, UNCHANGED troubles \/ Trouble, QrInv'
      PROVE  Goal
  <2>1. AssignmentInv' /\ payment' = payment /\ paid' = paid
    BY <1>2, AssignmentStays DEF assignment
  <2>2. troubles \in 0 .. MaxTroubles => troubles' \in 0 .. MaxTroubles
    BY <1>2, Positive DEF Trouble
  <2> QED
    BY <1>2, <2>1, <2>2
<1>3. payment' = payment \/ payment' = "Paid" => (payment = "Paid" => payment' = "Paid")
  OBVIOUS
<1>4. /\ request[r] \in {"none", "made", "active", "settling", "settled", "ended"}
      /\ call[r] \in {"none", "check", "pay", "record", "release"}
  BY DEF QrInv
<1>5. UNCHANGED assignment => payment' = payment
  BY DEF assignment
<1>6. CASE MakeRequest(r)
  <2>1. Active' = {}
    BY <1>6 DEF MakeRequest, Active
  <2>2. request' \in [Requests -> {"none", "made", "active", "settling", "settled", "ended"}]
    BY <1>6 DEF MakeRequest, QrInv
  <2>3. \A q \in Requests : request'[q] = "settled" => request[q] = "settled"
    BY <1>6 DEF MakeRequest
  <2>4. QrInv'
    BY <1>5, <1>6, <2>1, <2>2, <2>3 DEF MakeRequest, QrInv
  <2> QED
    BY <1>2, <1>6, <2>4 DEF MakeRequest
<1>7. CASE StoreRequest(r)
  <2>1. PICK st \in {"active", "none"} :
          Becomes(r, st) /\ (st = "active" => Active = {})
    BY <1>7 DEF StoreRequest
  <2>2. UNCHANGED << call, assignment, troubles >>
    BY <1>7 DEF StoreRequest
  <2>3. call[r] = "record" => payment' = "Paid"
    BY <1>5, <2>2 DEF QrInv
  <2>4. QrInv'
    <3> DEFINE step == call[r]
    <3>1. step \in {"none", "check", "pay", "record", "release"} /\ UNCHANGED call
      BY <1>4, <2>2
    <3> QED
      BY <1>5, <2>1, <2>2, <2>3, <3>1, OneRequest
  <2> QED
    BY <1>2, <2>2, <2>4
<1>8. CASE EndRequest(r)
  <2>1. Becomes(r, "ended") /\ UNCHANGED << call, assignment, troubles >>
    BY <1>8 DEF EndRequest
  <2>2. call[r] = "record" => payment' = "Paid"
    BY <1>5, <2>1 DEF QrInv
  <2>3. QrInv'
    BY <1>4, <1>5, <2>1, <2>2, OneRequest
  <2> QED
    BY <1>2, <2>1, <2>3
<1>9. CASE ClaimRequest(r)
  <2>1. Becomes(r, "settling") /\ Goes(r, "check") /\ UNCHANGED << assignment, troubles >>
    BY <1>9 DEF ClaimRequest
  <2>2. QrInv'
    BY <1>5, <2>1, OneRequest
  <2> QED
    BY <1>2, <2>1, <2>2
<1>10. CASE CheckRequest(r)
  <2>1. /\ UNCHANGED << assignment, troubles >>
        /\ \/ Goes(r, "pay") /\ UNCHANGED request
           \/ Goes(r, "none") /\ Becomes(r, "ended")
    BY <1>10 DEF CheckRequest
  <2>2. request[r] = "settled" => payment' = "Paid"
    BY <1>5, <2>1 DEF QrInv
  <2>3. request[r] = "active" => Active \subseteq {r}
    BY DEF QrInv, Active
  <2>4. QrInv'
    BY <1>4, <1>5, <2>1, <2>2, <2>3, OneRequest
  <2> QED
    BY <1>2, <2>1, <2>4
<1>11. CASE PayRequest(r)
  <2>1. Goes(r, "record") /\ UNCHANGED << request, troubles >>
    BY <1>11 DEF PayRequest
  <2>2. AssignmentInv' /\ payment' = "Paid" /\ paid' \subseteq paid \cup {Whole}
    <3>1. CASE Settles
      BY <3>1, SettlesPays
    <3>2. CASE payment = "Paid" /\ UNCHANGED assignment
      BY <3>2, AssignmentStays DEF assignment
    <3> QED
      BY <1>11, <3>1, <3>2 DEF PayRequest
  <2>3. request[r] = "active" => Active \subseteq {r}
    BY DEF QrInv, Active
  <2>4. QrInv'
    BY <1>4, <2>1, <2>2, <2>3, OneRequest
  <2> QED
    BY <2>1, <2>2, <2>4
<1>12. CASE RefuseRequest(r)
  <2>1. /\ Goes(r, "release") /\ UNCHANGED << request, assignment >>
        /\ UNCHANGED troubles \/ Trouble
    BY <1>12 DEF RefuseRequest
  <2>2. request[r] = "settled" => payment' = "Paid"
    BY <1>5, <2>1 DEF QrInv
  <2>3. request[r] = "active" => Active \subseteq {r}
    BY DEF QrInv, Active
  <2>4. QrInv'
    BY <1>4, <1>5, <2>1, <2>2, <2>3, OneRequest
  <2> QED
    BY <1>2, <2>1, <2>4
<1>13. CASE RecordRequest(r)
  <2>1. Becomes(r, "settled") /\ Goes(r, "none") /\ UNCHANGED << assignment, troubles >>
    BY <1>13 DEF RecordRequest
  <2>2. payment' = "Paid"
    BY <1>5, <1>13, <2>1 DEF RecordRequest, QrInv
  <2>3. QrInv'
    BY <2>1, <2>2, OneRequest
  <2> QED
    BY <1>2, <2>1, <2>3
<1>14. CASE ReleaseRequest(r)
  <2>1. /\ Goes(r, "none") /\ UNCHANGED << assignment, troubles >>
        /\ (Active = {} /\ Becomes(r, "active")) \/ UNCHANGED request
    BY <1>14 DEF ReleaseRequest
  <2>2. request[r] = "settled" => payment' = "Paid"
    BY <1>5, <2>1 DEF QrInv
  <2>3. request[r] = "active" => Active \subseteq {r}
    BY DEF QrInv, Active
  <2>4. QrInv'
    BY <1>4, <1>5, <2>1, <2>2, <2>3, OneRequest
  <2> QED
    BY <1>2, <2>1, <2>4
<1>15. CASE CrashCall(r)
  <2>1. Trouble /\ Goes(r, "none") /\ UNCHANGED << request, assignment >>
    BY <1>15 DEF CrashCall
  <2>2. request[r] = "settled" => payment' = "Paid"
    BY <1>5, <2>1 DEF QrInv
  <2>3. request[r] = "active" => Active \subseteq {r}
    BY DEF QrInv, Active
  <2>4. QrInv'
    BY <1>4, <1>5, <2>1, <2>2, <2>3, OneRequest
  <2> QED
    BY <1>2, <2>1, <2>4
<1> QED
  BY <1>1, <1>6, <1>7, <1>8, <1>9, <1>10, <1>11, <1>12, <1>13, <1>14, <1>15

(* ---- reminders of submitted work ---------------------------------------- *)

LEMMA RemindingStays ==
  ASSUME RemindingInv, UNCHANGED reminding \/ ClearClaim
  PROVE  RemindingInv'
BY DEF RemindingInv, reminding, ClearClaim

\* A notice is never later than two days after the last moment of the clock.
LEMMA NextNoticeType ==
  ASSUME NEW t \in 0 .. MaxClock
  PROVE  /\ 0 \in 0 .. MaxClock + 2 * Day
         /\ t + Day \in 0 .. MaxClock + 2 * Day
         /\ t + 2 * Day \in 0 .. MaxClock + 2 * Day
BY Positive DEF Day

LEMMA SubmissionKeeps ==
  ASSUME RemindingInv, SubmitWhole, first' \in 0 .. MaxClock
  PROVE  RemindingInv'
<1>1. next' \in 0 .. MaxClock + 2 * Day
  <2>1. next' \in {next, first' + 2 * Day, first' + Day}
    BY DEF SubmitWhole
  <2>2. next \in 0 .. MaxClock + 2 * Day
    BY DEF RemindingInv
  <2>3. /\ first' + Day \in 0 .. MaxClock + 2 * Day
        /\ first' + 2 * Day \in 0 .. MaxClock + 2 * Day
    BY NextNoticeType
  <2> QED
    BY <2>1, <2>2, <2>3
<1>2. UNCHANGED << stages, emailed, claim, mailer, failing >>
  BY DEF SubmitWhole, mailing
<1> QED
  BY <1>1, <1>2 DEF RemindingInv

LEMMA RemindKeeps ==
  ASSUME RemindingInv, AssignmentInv, RemindEmployer
  PROVE  RemindingInv'
<1>1. stages' \subseteq Stages
  BY DEF RemindEmployer, RemindingInv
<1>2. next' \in 0 .. MaxClock + 2 * Day
  <2>1. next' \in {0, first + 2 * Day}
    BY DEF RemindEmployer, NextStage
  <2>2. first \in 0 .. MaxClock
    BY DEF AssignmentInv
  <2> QED
    BY <2>1, <2>2, NextNoticeType
<1>3. UNCHANGED << emailed, claim, mailer, failing >>
  BY DEF RemindEmployer, mailing
<1> QED
  BY <1>1, <1>2, <1>3 DEF RemindingInv

LEMMA MailKeeps ==
  ASSUME RemindingInv, (\E s \in Stages : ClaimReminder(s)) \/ Mail \/ CrashMailer \/ ClaimEnds
  PROVE  RemindingInv'
<1> DEFINE Mailer == [at : {"idle", "send", "record"}, stage : Stages \cup {0}]
<1>1. mailer \in Mailer /\ (mailer.at # "idle" => mailer.stage \in Stages)
  BY DEF RemindingInv
<1>2. ASSUME NEW s \in Stages, ClaimReminder(s)
      PROVE  RemindingInv'
  <2>1. mailer' \in Mailer /\ mailer'.stage \in Stages
    BY <1>2 DEF ClaimReminder, MailerDoes
  <2> QED
    BY <1>2, <2>1 DEF ClaimReminder, RemindingInv
<1>3. ASSUME SendReminder
      PROVE  RemindingInv'
  <2>1. mailer' \in Mailer /\ mailer'.stage \in Stages
    BY <1>1, <1>3 DEF SendReminder, MailerDoes
  <2> QED
    BY <1>3, <2>1 DEF SendReminder, RemindingInv
<1>4. [at |-> "idle", stage |-> 0] \in Mailer
  OBVIOUS
<1>5. ASSUME SendReminderFails
      PROVE  RemindingInv'
  BY <1>4, <1>5 DEF SendReminderFails, MailerDoes, RemindingInv
<1>6. ASSUME RecordReminder
      PROVE  RemindingInv'
  <2>1. emailed' \subseteq Stages /\ claim' \in Stages \cup {0}
    BY <1>1, <1>6 DEF RecordReminder, RemindingInv
  <2> QED
    BY <1>4, <1>6, <2>1 DEF RecordReminder, MailerDoes, RemindingInv
<1>7. ASSUME CrashMailer
      PROVE  RemindingInv'
  BY <1>4, <1>7 DEF CrashMailer, MailerDoes, RemindingInv
<1>8. ASSUME ClaimEnds
      PROVE  RemindingInv'
  BY <1>8 DEF ClaimEnds, RemindingInv
<1> QED
  BY <1>2, <1>3, <1>5, <1>6, <1>7, <1>8 DEF Mail

LEMMA JobsKeep ==
  ASSUME RemindingInv, NEW j \in Jobs, JobBreaks(j) \/ JobRecovers(j)
  PROVE  RemindingInv'
BY DEF RemindingInv, JobBreaks, JobRecovers, mailing

(* ---- the invariant ------------------------------------------------------ *)

LEMMA InitKeeps ==
  ASSUME Init
  PROVE  PaymentInv
<1>1. clock \in 1 .. MaxClock /\ troubles \in 0 .. MaxTroubles
  <2>1. clock = 1 /\ troubles = 0
    BY DEF Init, InitAssignment
  <2> QED
    BY <2>1, Positive
<1>2. AssignmentInv
  <2>1. Earned = 0
    BY FS_EmptySet DEF Init, InitAssignment, Earned
  <2> DEFINE none == [p \in AllParts |-> 0]
  <2>2. 0 \in 0 .. MaxHolds /\ 0 \in 0 .. MaxClock /\ none \in [AllParts -> 0 .. MaxProofs]
    BY Positive
  <2>3. holds = 0 /\ first = 0 /\ proof = none /\ seen = none
    BY DEF Init, InitAssignment
  <2>4. paid = {} /\ paid # Parts
    <3>1. Days # {}
      BY PaymentAssumption
    <3> QED
      BY <3>1 DEF Init, InitAssignment, Parts
  <2>5. balance = 0 /\ paidAmount = 0 /\ funds = Agreed /\ Agreed - 0 = Agreed
    <3>1. Agreed - 0 = Agreed
      BY Positive
    <3> QED
      BY <3>1 DEF Init, InitAssignment
  <2>6. /\ mode \in {"daily", "assignment"} /\ work = "In Progress" /\ payment = "Secured"
        /\ held = FALSE
    BY DEF Init, InitAssignment
  <2> QED
    BY <2>1, <2>2, <2>3, <2>4, <2>5, <2>6 DEF AssignmentInv
<1>3. DailyInv
  <2>1. 0 \in 0 .. MaxClock + Interval
    BY Positive
  <2>2. due = [d \in Days |-> 0] /\ reminders = {}
    BY DEF Init, InitDaily
  <2> QED
    BY <2>1, <2>2 DEF DailyInv, RemindersSpaced
<1>4. QrInv
  BY DEF Init, InitQr, QrInv, Active
<1>5. RemindingInv
  <2>1. 0 \in 0 .. MaxClock + 2 * Day
    BY NextNoticeType, Positive
  <2> QED
    BY <2>1 DEF Init, InitReminders, RemindingInv
<1> QED
  BY <1>1, <1>2, <1>3, <1>4, <1>5 DEF PaymentInv

LEMMA StepKeeps ==
  ASSUME PaymentInv, [Next]_vars
  PROVE  PaymentInv'
<1>1. /\ clock \in 1 .. MaxClock /\ troubles \in 0 .. MaxTroubles
      /\ AssignmentInv /\ DailyInv /\ QrInv /\ RemindingInv
  BY DEF PaymentInv
<1>2. Trouble => troubles' \in 0 .. MaxTroubles
  BY <1>1, Positive DEF Trouble
<1>3. CASE UNCHANGED vars
  <2>1. UNCHANGED assignment /\ UNCHANGED << clock, daily >> /\ UNCHANGED << qr, reminding, troubles >>
    BY <1>3 DEF vars
  <2>2. AssignmentInv' /\ payment' = payment
    BY <1>1, <2>1, AssignmentStays
  <2> QED
    BY <1>1, <2>1, <2>2, DailyStays, QrStays, RemindingStays DEF PaymentInv
<1>4. CASE Tick
  <2>1. UNCHANGED << assignment, due, qr, reminding, troubles >> /\ reminders' = {}
    BY <1>4 DEF Tick
  <2>2. clock' \in 1 .. MaxClock
    BY <1>1, <1>4, Positive DEF Tick
  <2>3. AssignmentInv' /\ payment' = payment
    BY <1>1, <2>1, AssignmentStays
  <2>4. DailyInv'
    BY <1>1, <2>1 DEF DailyInv, RemindersSpaced
  <2> QED
    BY <1>1, <2>1, <2>2, <2>3, <2>4, QrStays, RemindingStays DEF PaymentInv
<1>5. CASE OnAssignment
  <2>1. UNCHANGED << clock, daily, qr, reminding, troubles >>
    BY <1>5 DEF OnAssignment
  <2>2. AssignmentInv' /\ payment' = payment
    BY <1>1, <1>5, OnAssignmentKeeps DEF OnAssignment
  <2> QED
    BY <1>1, <2>1, <2>2, DailyStays, QrStays, RemindingStays DEF PaymentInv
<1>6. CASE Daily
  <2>1. UNCHANGED << clock, qr, reminding, troubles >>
    BY <1>6 DEF Daily
  <2>2. /\ AssignmentInv' /\ DailyInv'
        /\ payment = "Paid" => payment' = "Paid"
    <3>1. CASE CheckPending
      <4>1. UNCHANGED assignment
        BY <3>1 DEF CheckPending
      <4> QED
        BY <1>1, <2>1, <3>1, <4>1, AssignmentStays, CheckPendingKeeps
    <3>2. ASSUME NEW d \in Days, SubmitDay(d)
          PROVE  AssignmentInv' /\ DailyInv' /\ payment' = payment
      <4>1. Submitted(d) /\ UNCHANGED reminders /\ due' = [due EXCEPT ![d] = clock + Interval]
        BY <3>2 DEF SubmitDay
      <4>2. d \in AllParts
        BY DEF AllParts
      <4> QED
        BY <1>1, <2>1, <4>1, <4>2, SubmittedKeeps, DueChanges
    <3>3. ASSUME NEW d \in Days, SettleDay(d)
          PROVE  AssignmentInv' /\ DailyInv' /\ payment # "Paid"
      <4>1. UNCHANGED reminders /\ due' = [due EXCEPT ![d] = 0]
        BY <3>3 DEF SettleDay
      <4>2. DailyInv'
        BY <1>1, <2>1, <4>1, DueChanges
      <4> QED
        BY <1>1, <3>3, <4>2, SettleDayPays
    <3> QED
      BY <1>6, <3>1, <3>2, <3>3 DEF Daily
  <2> QED
    BY <1>1, <2>1, <2>2, QrStays, RemindingStays DEF PaymentInv
<1>7. CASE Direct
  <2>1. Settles /\ ClearClaim /\ UNCHANGED << clock, daily, qr, troubles >>
    BY <1>7 DEF Direct, SettleFromCard, SettleFromPanel
  <2>2. AssignmentInv' /\ payment' = "Paid"
    BY <1>1, <2>1, SettlesPays
  <2> QED
    BY <1>1, <2>1, <2>2, DailyStays, QrStays, RemindingStays DEF PaymentInv
<1>8. CASE Submission
  <2>1. SubmitWhole /\ Submitted(Whole) /\ UNCHANGED << clock, daily, qr, troubles >>
    BY <1>8 DEF Submission, SubmitWhole
  <2>2. AssignmentInv' /\ payment' = payment /\ first' \in 1 .. MaxClock
    BY <1>1, <2>1, SubmittedKeeps DEF AllParts
  <2>3. RemindingInv'
    <3>1. first' \in 0 .. MaxClock
      BY <2>2
    <3> QED
      BY <1>1, <2>1, <3>1, SubmissionKeeps
  <2> QED
    BY <1>1, <2>1, <2>2, <2>3, DailyStays, QrStays DEF PaymentInv
<1>9. CASE Qr
  <2>1. NextQr /\ UNCHANGED << clock, daily >> /\ (ClearClaim \/ UNCHANGED reminding)
    BY <1>9 DEF Qr
  <2>2. AssignmentInv' /\ QrInv' /\ troubles' \in 0 .. MaxTroubles
    BY <1>1, <2>1, QrKeeps
  <2> QED
    BY <1>1, <2>1, <2>2, DailyStays, RemindingStays DEF PaymentInv
<1>10. CASE Remind
  <2>1. RemindEmployer /\ UNCHANGED << clock, assignment, daily, qr, troubles >>
    BY <1>10 DEF Remind
  <2>2. AssignmentInv' /\ payment' = payment
    BY <1>1, <2>1, AssignmentStays
  <2> QED
    BY <1>1, <2>1, <2>2, DailyStays, QrStays, RemindKeeps DEF PaymentInv
<1>11. CASE ClaimMail
  <2>1. (\E s \in Stages : ClaimReminder(s)) /\ UNCHANGED << clock, assignment, daily, qr, troubles >>
    BY <1>11 DEF ClaimMail
  <2>2. AssignmentInv' /\ payment' = payment
    BY <1>1, <2>1, AssignmentStays
  <2> QED
    BY <1>1, <2>1, <2>2, DailyStays, QrStays, MailKeeps DEF PaymentInv
<1>12. CASE Mailing
  <2>1. /\ Mail \/ CrashMailer \/ ClaimEnds
        /\ UNCHANGED << clock, assignment, daily, qr >>
        /\ UNCHANGED troubles \/ Trouble
    BY <1>12 DEF Mailing, Mail, SendReminder, SendReminderFails, RecordReminder, CrashMailer,
                 ClaimEnds
  <2>2. AssignmentInv' /\ payment' = payment
    BY <1>1, <2>1, AssignmentStays
  <2>3. troubles' \in 0 .. MaxTroubles
    BY <1>1, <1>2, <2>1
  <2> QED
    BY <1>1, <2>1, <2>2, <2>3, DailyStays, QrStays, MailKeeps DEF PaymentInv
<1>13. CASE JobsFail
  <2>1. /\ \E j \in Jobs : JobBreaks(j) \/ JobRecovers(j)
        /\ UNCHANGED << clock, assignment, daily, qr >>
        /\ UNCHANGED troubles \/ Trouble
    BY <1>13 DEF JobsFail, JobBreaks, JobRecovers
  <2>2. AssignmentInv' /\ payment' = payment
    BY <1>1, <2>1, AssignmentStays
  <2>3. troubles' \in 0 .. MaxTroubles
    BY <1>1, <1>2, <2>1
  <2> QED
    BY <1>1, <2>1, <2>2, <2>3, DailyStays, QrStays, JobsKeep DEF PaymentInv
<1> QED
  BY <1>3, <1>4, <1>5, <1>6, <1>7, <1>8, <1>9, <1>10, <1>11, <1>12, <1>13 DEF Next

\* Every reachable state satisfies the inductive invariant.
THEOREM PaymentInvariant == Spec => []PaymentInv
<1>1. Init => PaymentInv
  BY InitKeeps
<1>2. PaymentInv /\ [Next]_vars => PaymentInv'
  BY StepKeeps
<1> QED
  BY <1>1, <1>2, PTL DEF Spec

(* ---- the properties ----------------------------------------------------- *)

\* Every variable stays in its domain.
THEOREM PaymentTypes == Spec => []TypeOK
<1>1. ASSUME PaymentInv
      PROVE  TypeOK
  <2>1. AssignmentInv /\ DailyInv /\ QrInv /\ RemindingInv
    BY <1>1 DEF PaymentInv
  <2>2. {paidAmount, funds, balance} \subseteq 0 .. Agreed
    <3>1. Earned \in 0 .. Agreed
      BY <2>1, PaidDays
    <3>2. balance = Earned /\ paidAmount = balance /\ funds = Agreed - balance
      BY <2>1 DEF AssignmentInv
    <3> QED
      BY <3>1, <3>2, Positive
  <2> QED
    BY <1>1, <2>1, <2>2 DEF PaymentInv, AssignmentInv, DailyInv, QrInv, RemindingInv, TypeOK
<1> QED
  BY <1>1, PaymentInvariant, PTL

\* The functions that the sum of the amounts recurs on.
IsAmountSum(g, S) ==
  g = [s \in SUBSET S |-> IF s = {} THEN 0 ELSE Amount(First(s)) + g[s \ {First(s)}]]

LEMMA AmountsSum ==
  ASSUME NEW S, IsFiniteSet(S)
  PROVE  MapThenSumSet(Amount, S) = Sum([p \in S |-> Amount(p)], S)
<1> DEFINE f == [p \in S |-> Amount(p)]
           G == CHOOSE g : IsAmountSum(g, S)
<1>1. MapThenSumSet(Amount, S) = G[S]
  BY DEF MapThenSumSet, MapThenFoldSet, IsAmountSum, First
<1>2. ASSUME NEW s \in SUBSET S, s # {}
      PROVE  Amount(First(s)) = f[First(s)]
  <2>1. First(s) \in S
    BY <1>2 DEF First
  <2> QED
    BY <2>1
<1>3. ASSUME NEW g
      PROVE  IsAmountSum(g, S) <=> IsSum(g, f, S)
  <2> HIDE DEF f
  <2>1. [s \in SUBSET S |-> IF s = {} THEN 0 ELSE Amount(First(s)) + g[s \ {First(s)}]]
          = [s \in SUBSET S |-> IF s = {} THEN 0 ELSE f[First(s)] + g[s \ {First(s)}]]
    BY <1>2
  <2> QED
    BY <2>1 DEF IsAmountSum, IsSum
<1>4. IsSum(G, f, S)
  <2>1. \E g : IsSum(g, f, S)
    BY SumExists
  <2>2. \E g : IsAmountSum(g, S)
    BY <1>3, <2>1
  <2>3. IsAmountSum(G, S)
    BY <2>2
  <2> QED
    BY <1>3, <2>3
<1> HIDE DEF f, G
<1>5. Sum(f, S) = G[S]
  BY <1>4, SumOfSolution
<1> QED
  BY <1>1, <1>5 DEF f

\* However and however often the employer confirms, the worker's credit is the
\* amount of the parts that are paid, and the posting lost exactly that.
THEOREM LedgerAgreesAlways == Spec => []LedgerAgrees
<1>1. ASSUME PaymentInv
      PROVE  LedgerAgrees
  <2>1. AssignmentInv
    BY <1>1 DEF PaymentInv
  <2>2. IsFiniteSet(paid)
    BY <2>1, PaidDays
  <2> DEFINE f == [p \in paid |-> Amount(p)]
  <2>3. Sum(f, paid) = Earned
    <3>1. CASE mode = "daily"
      <4>1. paid \subseteq Days /\ Whole \notin paid
        BY <2>1, <3>1, PaidDays
      <4>2. \A p \in paid : f[p] = 1
        BY <4>1, Positive DEF Amount
      <4> HIDE DEF f
      <4> QED
        BY <2>2, <4>1, <4>2, SumOfOnes DEF Earned
    <3>2. CASE mode = "assignment" /\ Whole \in paid
      <4>1. paid = {Whole}
        BY <2>1, <3>2, PaidDays
      <4>2. f[Whole] = Agreed
        BY <3>2 DEF Amount, Agreed
      <4>3. f[Whole] \in Int
        BY <4>2, Positive
      <4> HIDE DEF f
      <4> QED
        BY <3>2, <4>1, <4>2, <4>3, SumOne DEF Earned
    <3>3. CASE mode = "assignment" /\ Whole \notin paid
      <4>1. paid = {}
        BY <2>1, <3>3, PaidDays
      <4> HIDE DEF f
      <4> QED
        BY <2>2, <4>1, SumStep, FS_EmptySet DEF Earned
    <3> QED
      BY <2>1, <3>1, <3>2, <3>3 DEF AssignmentInv
  <2>4. MapThenSumSet(Amount, paid) = Earned
    BY <2>2, <2>3, AmountsSum
  <2> QED
    BY <2>1, <2>4 DEF AssignmentInv, LedgerAgrees
<1> QED
  BY <1>1, PaymentInvariant, PTL

\* A settled request is a paid assignment, and at most one request can be
\* scanned, through failed, overtaken and repeated settlements.
THEOREM RequestsTruthfulAlways == Spec => []RequestsTruthful
<1>1. ASSUME PaymentInv
      PROVE  RequestsTruthful
  <2>1. QrInv
    BY <1>1 DEF PaymentInv
  <2>2. Cardinality(Active) <= 1
    <3>1. CASE Active = {}
      BY <3>1, FS_EmptySet
    <3>2. CASE Active # {}
      <4>1. PICK q \in Active : Active = {q}
        BY <2>1, <3>2 DEF QrInv
      <4> QED
        BY <4>1, FS_Singleton
    <3> QED
      BY <3>1, <3>2
  <2> QED
    BY <2>1, <2>2 DEF QrInv, RequestsTruthful
<1> QED
  BY <1>1, PaymentInvariant, PTL

\* No day is reminded of twice in one tick of the clock, however many checks
\* were missed before it.
THEOREM RemindersSpacedAlways == Spec => []RemindersSpaced
<1>1. PaymentInv => RemindersSpaced
  BY DEF PaymentInv, DailyInv
<1> QED
  BY <1>1, PaymentInvariant, PTL

=============================================================================
