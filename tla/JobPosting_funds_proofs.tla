------------------------ MODULE JobPosting_funds_proofs ------------------------
(***************************************************************************)
(* A posting keeps what it promised: the escrow always covers what hires   *)
(* are owed and what offers reserve, and while it recruits the pay of      *)
(* every vacancy as well; it is over only when nothing is left; and it     *)
(* implements the account of module Escrow.  All of it holds when the      *)
(* parties dispute all that is unpaid, nobody appeals and a case has one   *)
(* proposal under way at a time.  With partial claims or appeals the code  *)
(* breaks it, which the runs partial_claim and appeal_reopens show, and    *)
(* two proposals that overlap may have a case decided twice.               *)
(*                                                                         *)
(* While moreover no party opens a case, a posting that is cancelled comes *)
(* to its end and leaves nothing behind.                                   *)
(***************************************************************************)
EXTENDS JobPosting_ledger_proofs

\* A person makes one call on a case at a time, so that no two proposals on a
\* case overlap when one person makes them all.
PlainCases ==
  /\ ~ PartialClaims
  /\ ~ Appeals
  /\ \A p, q \in Proposers : p = q

(* ---- the inductive invariant --------------------------------------------- *)

Over == job.status \in TerminalJobStatuses

OfferOK(a) == offer[a].status = "none" => offer[a].extra = 0

\* A hire is owed all that was agreed until it is paid, which completes it.
HireOK(a) ==
  app[a].status = "Hired" =>
    /\ app[a].agreedAmount >= job.salary
    /\ app[a].paymentStatus \in {"Secured", "Authorized", "Disputed", "Paid"}
    /\ app[a].workStatus # "Cancelled"
    /\ app[a].paymentStatus = "Paid" =>
         app[a].workStatus = "Completed" /\ app[a].paidAmount = app[a].agreedAmount
    /\ app[a].paymentStatus # "Paid" =>
         app[a].workStatus # "Completed" /\ app[a].paidAmount = 0

\* Only assignments were completed.
FreshOK(a) == ~ IsAssignment(app[a]) => app[a].workStatus # "Completed"

\* What waits for an answer or for Finance is an assignment that was begun.
RequestOK(a) ==
  cancellation[a].status \in {"pending", "staff_review"} =>
    app[a].status = "Hired" /\ app[a].workStatus # "Not started"

\* A reference is taken by an assignment that is cancelled.
ReferenceOK(a) ==
  (\E kind \in {"cancellation-payment", "assignment-cancellation-refund"} :
     << kind, a >> \in references)
    => app[a].status = "Cancelled"

\* A proposal divides all that is disputed.
Divides(s, amount) ==
  s.worker + s.refund = amount /\ (s.type = "FULL_REFUND" => s.worker = 0) /\ s.outstanding = 0

\* A case is about all that its assignment is owed.
DisputeOK(a) ==
  /\ dispute[a].active <=> dispute[a].status = "investigating"
  /\ dispute[a].active => dispute[a].disputedAmount = StillOwed(a)
  /\ dispute[a].active /\ dispute[a].kind = "cancellation" => cancellation[a].status = "staff_review"
  /\ dispute[a].stage = "FOR_FINANCE_REVIEW" => dispute[a].active \/ dispute[a].settled
  /\ dispute[a].stage = "PENDING_FINANCE_APPROVAL" => dispute[a].active /\ dispute[a].settled
  /\ dispute[a].active /\ dispute[a].settled
       => Divides(dispute[a].settlement, dispute[a].disputedAmount)

DocsOK(a) == OfferOK(a) /\ HireOK(a) /\ FreshOK(a) /\ RequestOK(a) /\ ReferenceOK(a) /\ DisputeOK(a)

\* A posting that is over keeps nothing, and a full one waits for some hire.
JobOK ==
  /\ job.cancellationPending => job.closedManually /\ ActiveOffers(offer) = {}
  /\ Hires(app) # {} => job.hireConfirmed
  /\ Over => ActiveOffers(offer) = {} /\ Unfinished(app) = {} /\ AmountOf(pot) = 0
  /\ ~ Over /\ Cardinality(Hires(app)) >= job.positionsNeeded => Unfinished(app) # {}
  /\ job.status = "Cancelled" => Cardinality(Hires(app)) < job.positionsNeeded

Promised == Sum([a \in Apps |-> StillOwed(a)], Apps)
Reserved == Sum([a \in Apps |-> offer[a].extra], Apps)
Vacant == (job.positionsNeeded - job.hiredCount) * job.salary

\* Whether the pay of vacancies is still needed in full.
Firm == ~ Over /\ (~ job.closedManually \/ ~ job.hireConfirmed)

\* The escrow is what is promised and reserved, and as much as is left for vacancies.
FundsOK ==
  /\ AmountOf(pot) >= Promised + Reserved
  /\ AmountOf(pot) <= Promised + Reserved + Vacant
  /\ Firm => AmountOf(pot) >= Promised + Reserved + Vacant
  /\ pot["EMPLOYER"] >= Reserved

\* What is not saved yet brings no decided case back: only a case without a
\* proposal has a proposal under way, which divides what the case is about.
CallOK(u) ==
  /\ u.restarts = FALSE
  /\ dispute[u.case].active \/ dispute[u.case].settled
  /\ u.stage = "PENDING_FINANCE_APPROVAL" => u.settles
  /\ u.settles =>
       /\ u.by \in Proposers
       /\ dispute[u.case].settled = FALSE
       /\ Divides(u.settlement, dispute[u.case].disputedAmount)

CallsInv ==
  /\ \A u \in saving : CallOK(u)
  /\ \A u, v \in saving : u.settles /\ v.settles /\ u.case = v.case => u = v

BaseInv == PaidInv /\ CapacityRespected
DocsInv == \A a \in Apps : DocsOK(a)
MoreInv == DocsInv /\ JobOK /\ FundsOK
FundsInv == BaseInv /\ MoreInv /\ CallsInv

(* ---- sums ------------------------------------------------------------------ *)

\* What an assignment is owed, and an offer reserves, are amounts.
LEMMA OwedType ==
  ASSUME TypeOK
  PROVE  /\ IsFiniteSet(Apps)
         /\ \A a \in Apps : StillOwed(a) \in Nat /\ offer[a].extra \in Nat
         /\ Promised \in Nat /\ Reserved \in Nat
<1>1. IsFiniteSet(Apps)
  BY ScopeAssumption
<1>2. \A a \in Apps : StillOwed(a) \in Nat
  BY SnapshotType DEF StillOwed
<1>3. \A a \in Apps : offer[a].extra \in Nat
  BY DEF TypeOK, Offer
<1> DEFINE owed == [a \in Apps |-> StillOwed(a)]
           extras == [a \in Apps |-> offer[a].extra]
<1>4. \A a \in Apps : owed[a] \in Nat /\ extras[a] \in Nat
  BY <1>2, <1>3
<1> HIDE DEF owed, extras
<1>5. Sum(owed, Apps) \in Nat /\ Sum(extras, Apps) \in Nat
  BY <1>1, <1>4, SumIsNumber
<1> QED
  BY <1>1, <1>2, <1>3, <1>5 DEF Promised, Reserved, owed, extras

\* Only one assignment's claim changes.
LEMMA PromisedChange ==
  ASSUME TypeOK, TypeOK', NEW a \in Apps,
         \A b \in Apps \ {a} : StillOwed(b)' = StillOwed(b)
  PROVE  Promised' = Promised - StillOwed(a) + StillOwed(a)'
<1> DEFINE f == [b \in Apps |-> StillOwed(b)]
           g == [b \in Apps |-> StillOwed(b)']
<1>1. IsFiniteSet(Apps)
  BY ScopeAssumption
<1>2. \A b \in Apps : StillOwed(b) \in Nat
  BY OwedType
<1>3. \A b \in Apps : StillOwed(b)' \in Nat
  <2>1. \A b \in Apps : app'[b] \in Application
    BY DEF TypeOK
  <2>2. \A b \in Apps : app'[b].agreedAmount \in Nat /\ app'[b].paidAmount \in Nat
    BY <2>1 DEF Application
  <2> QED
    BY <2>2 DEF StillOwed, Unpaid, Monus
<1>4. /\ \A b \in Apps : f[b] \in Int /\ g[b] \in Int
      /\ \A b \in Apps \ {a} : g[b] = f[b]
      /\ f[a] = StillOwed(a) /\ g[a] = StillOwed(a)'
  BY <1>2, <1>3
<1>5. Promised = Sum(f, Apps) /\ Promised' = Sum(g, Apps)
  BY DEF Promised
<1> HIDE DEF f, g
<1>6. Sum(g, Apps) = Sum(f, Apps) - f[a] + g[a]
  BY <1>1, <1>4, SumChange
<1> QED
  BY <1>4, <1>5, <1>6

LEMMA PromisedSame ==
  ASSUME \A b \in Apps : StillOwed(b)' = StillOwed(b)
  PROVE  Promised' = Promised
<1> DEFINE f == [b \in Apps |-> StillOwed(b)]
           g == [b \in Apps |-> StillOwed(b)']
<1>1. f = g
  OBVIOUS
<1>2. Promised = Sum(f, Apps) /\ Promised' = Sum(g, Apps)
  BY DEF Promised
<1> HIDE DEF f, g
<1> QED
  BY <1>1, <1>2

\* The claims of the assignments in S end.
LEMMA PromisedDrop ==
  ASSUME TypeOK, TypeOK', NEW S \in SUBSET Apps, NEW h,
         \A b \in S : h[b] = StillOwed(b) /\ StillOwed(b)' = 0,
         \A b \in Apps \ S : StillOwed(b)' = StillOwed(b)
  PROVE  Promised' = Promised - Sum(h, S) /\ Sum(h, S) \in Nat /\ Promised' \in Nat
<1> DEFINE f == [b \in Apps |-> StillOwed(b)]
           g == [b \in Apps |-> StillOwed(b)']
           part == [b \in Apps |-> IF b \in S THEN StillOwed(b) ELSE 0]
<1>1. IsFiniteSet(Apps) /\ IsFiniteSet(S)
  BY ScopeAssumption, FS_Subset
<1>2. \A b \in Apps : StillOwed(b) \in Nat
  BY OwedType
<1>3. \A b \in Apps : g[b] \in Nat /\ f[b] \in Nat /\ part[b] \in Nat /\ f[b] = g[b] + part[b]
  BY <1>2
<1>4. (\A b \in Apps \ S : part[b] = 0) /\ (\A b \in S : part[b] = h[b])
  BY <1>2
<1>5. Promised = Sum(f, Apps) /\ Promised' = Sum(g, Apps)
  BY DEF Promised
<1> HIDE DEF f, g, part
<1>6. Sum(f, Apps) = Sum(g, Apps) + Sum(part, Apps)
  BY <1>1, <1>3, SumPlus
<1>7. Sum(part, Apps) = Sum(part, S) /\ Sum(part, S) = Sum(h, S)
  <2>1. Sum(part, Apps) = Sum(part, S)
    BY <1>1, <1>3, <1>4, SumOfPart
  <2>2. Sum(part, S) = Sum(h, S)
    BY <1>1, <1>4, SumEqual
  <2> QED
    BY <2>1, <2>2
<1>8. Sum(g, Apps) \in Nat /\ Sum(part, S) \in Nat
  BY <1>1, <1>3, SumIsNumber
<1> QED
  BY <1>5, <1>6, <1>7, <1>8

LEMMA PromisedZero ==
  ASSUME \A b \in Apps : StillOwed(b) = 0
  PROVE  Promised = 0
<1> DEFINE f == [b \in Apps |-> StillOwed(b)]
<1>1. IsFiniteSet(Apps) /\ IsFiniteSet({}) /\ \A b \in Apps : f[b] = 0
  BY ScopeAssumption, FS_EmptySet
<1>2. Promised = Sum(f, Apps)
  BY DEF Promised
<1> HIDE DEF f
<1>3. Sum(f, Apps) = Sum(f, {})
  BY <1>1, SumOfPart
<1>4. Sum(f, {}) = 0
  BY <1>1, SumStep
<1> QED
  BY <1>2, <1>3, <1>4

LEMMA ReservedZero ==
  ASSUME \A b \in Apps : offer[b].extra = 0
  PROVE  Reserved = 0
<1> DEFINE f == [b \in Apps |-> offer[b].extra]
<1>1. IsFiniteSet(Apps) /\ IsFiniteSet({}) /\ \A b \in Apps : f[b] = 0
  BY ScopeAssumption, FS_EmptySet
<1>2. Reserved = Sum(f, Apps)
  BY DEF Reserved
<1> HIDE DEF f
<1>3. Sum(f, Apps) = Sum(f, {})
  BY <1>1, SumOfPart
<1>4. Sum(f, {}) = 0
  BY <1>1, SumStep
<1> QED
  BY <1>2, <1>3, <1>4

\* Only one offer changes.
LEMMA ReservedChange ==
  ASSUME TypeOK, TypeOK', NEW a \in Apps,
         \A b \in Apps \ {a} : offer'[b].extra = offer[b].extra
  PROVE  Reserved' = Reserved - offer[a].extra + offer'[a].extra
<1> DEFINE f == [b \in Apps |-> offer[b].extra]
           g == [b \in Apps |-> offer'[b].extra]
<1>1. IsFiniteSet(Apps)
  BY ScopeAssumption
<1>2. \A b \in Apps : offer[b].extra \in Nat /\ offer'[b].extra \in Nat
  BY DEF TypeOK, Offer
<1>3. /\ \A b \in Apps : f[b] \in Int /\ g[b] \in Int
      /\ \A b \in Apps \ {a} : g[b] = f[b]
      /\ f[a] = offer[a].extra /\ g[a] = offer'[a].extra
  BY <1>2
<1>4. Reserved = Sum(f, Apps) /\ Reserved' = Sum(g, Apps)
  BY DEF Reserved
<1> HIDE DEF f, g
<1>5. Sum(g, Apps) = Sum(f, Apps) - f[a] + g[a]
  BY <1>1, <1>3, SumChange
<1> QED
  BY <1>3, <1>4, <1>5

LEMMA ReservedSame ==
  ASSUME \A b \in Apps : offer'[b].extra = offer[b].extra
  PROVE  Reserved' = Reserved
<1> DEFINE f == [b \in Apps |-> offer[b].extra]
           g == [b \in Apps |-> offer'[b].extra]
<1>1. f = g
  OBVIOUS
<1>2. Reserved = Sum(f, Apps) /\ Reserved' = Sum(g, Apps)
  BY DEF Reserved
<1> HIDE DEF f, g
<1> QED
  BY <1>1, <1>2

\* No claim is more than all claims together.
LEMMA ClaimWithin ==
  ASSUME TypeOK, NEW a \in Apps
  PROVE  StillOwed(a) <= Promised /\ offer[a].extra <= Reserved
<1> DEFINE f == [b \in Apps |-> StillOwed(b)]
           g == [b \in Apps |-> offer[b].extra]
<1>1. IsFiniteSet(Apps) /\ \A b \in Apps : f[b] \in Nat /\ g[b] \in Nat
  BY OwedType
<1>2. /\ f[a] = StillOwed(a) /\ Promised = Sum(f, Apps)
      /\ g[a] = offer[a].extra /\ Reserved = Sum(g, Apps)
  BY DEF Promised, Reserved
<1> HIDE DEF f, g
<1>3. f[a] <= Sum(f, Apps) /\ g[a] <= Sum(g, Apps)
  BY <1>1, SumAtLeast
<1> QED
  BY <1>2, <1>3

\* The sums of the code, over the assignments not paid and the active offers,
\* are those over all applications.
LEMMA SumsOfTheCode ==
  ASSUME TypeOK, \A a \in Apps : OfferOK(a)
  PROVE  Owed(app) = Promised /\ OfferExtras = Reserved
<1> DEFINE f == [b \in Apps |-> StillOwed(b)]
           u == [b \in Apps |-> Unpaid(app[b])]
           g == [b \in Apps |-> offer[b].extra]
           owed == {a \in Hires(app) : app[a].paymentStatus # "Paid"}
           active == ActiveOffers(offer)
<1>1. owed \in SUBSET Apps /\ active \in SUBSET Apps
  BY DEF Hires, ActiveOffers
<1>2. IsFiniteSet(Apps) /\ IsFiniteSet(owed) /\ IsFiniteSet(active)
  BY <1>1, ScopeAssumption, FS_Subset
<1>3. /\ \A b \in Apps : f[b] \in Int /\ g[b] \in Int
      /\ \A b \in owed : f[b] = u[b] /\ u[b] \in Nat
      /\ \A b \in active : g[b] \in Nat
  BY OwedType, SnapshotType DEF Hires, ActiveOffers, StillOwed
<1>4. \A b \in Apps \ owed : f[b] = 0
  BY DEF Hires, StillOwed
<1>5. \A b \in Apps \ active : g[b] = 0
  BY DEF ActiveOffers, OfferOK, TypeOK, Offer
<1>6. /\ Promised = Sum(f, Apps) /\ Reserved = Sum(g, Apps)
      /\ Owed(app) = SumOver(u, owed) /\ OfferExtras = SumOver(g, active)
  BY DEF Promised, Reserved, Owed, OfferExtras
<1> HIDE DEF f, u, g, owed, active
<1>7. Sum(f, Apps) = Sum(f, owed) /\ Sum(g, Apps) = Sum(g, active)
  BY <1>1, <1>2, <1>3, <1>4, <1>5, SumOfPart
<1>8. Sum(f, owed) = Sum(u, owed)
  BY <1>2, <1>3, SumEqual
<1>9. SumOver(u, owed) = Sum(u, owed) /\ SumOver(g, active) = Sum(g, active)
  BY <1>2, <1>3, SumOverIsSum
<1> QED
  BY <1>6, <1>7, <1>8, <1>9

\* What the code requires of a posting that recruits.
LEMMA RequiredFunds ==
  ASSUME TypeOK, CapacityRespected, \A a \in Apps : OfferOK(a)
  PROVE  RequiredJobFunds(job, app, offer) = Vacant + Promised + Reserved
<1> DEFINE hired == Cardinality(Hires(app))
<1>1. hired = job.hiredCount /\ job.positionsNeeded >= hired
  BY CountType DEF CapacityRespected, TypeOK, Job
<1>2. hired \in Nat /\ job.positionsNeeded \in Nat /\ job.salary \in Nat
  BY CountType, SalaryType DEF TypeOK, Job
<1>3. Monus(job.positionsNeeded, hired) = job.positionsNeeded - job.hiredCount
  <2> HIDE DEF hired
  <2> QED
    BY <1>1, <1>2 DEF Monus
<1>4. RequiredJobFunds(job, app, offer)
        = Monus(job.positionsNeeded, hired) * job.salary + Owed(app) + OfferExtras
  BY DEF RequiredJobFunds, Owed, OfferExtras
<1> QED
  BY <1>3, <1>4, SumsOfTheCode DEF Vacant

(* ---- what a step does to the account --------------------------------------- *)

Rests ==
  /\ AmountOf(pot') = AmountOf(pot) /\ AmountOf(wallet') = AmountOf(wallet)
  /\ received' = received
  /\ \A b \in Apps : StillOwed(b)' = StillOwed(b)
  /\ Over' <=> Over

Adjusts ==
  /\ ~ Over /\ ~ Over'
  /\ received' = received
  /\ \A b \in Apps : StillOwed(b)' = StillOwed(b)

Promises(a) ==
  /\ ~ Over /\ ~ Over'
  /\ AmountOf(pot') = AmountOf(pot) /\ AmountOf(wallet') = AmountOf(wallet)
  /\ received' = received /\ received[a] = 0
  /\ StillOwed(a) = 0 /\ StillOwed(a)' > 0
  /\ \A b \in Apps \ {a} : StillOwed(b)' = StillOwed(b)

Pays ==
  /\ ~ Over
  /\ \A b \in Apps : /\ received'[b] >= received[b]
                     /\ StillOwed(b)' + (received'[b] - received[b]) <= StillOwed(b)
  /\ AmountOf(wallet') >= AmountOf(wallet)

Moved == Rests \/ Adjusts \/ (\E a \in Apps : Promises(a)) \/ Pays

\* What is over stays as it ended.
Outcomes ==
  /\ Over => job'.status = job.status
  /\ \A a \in Apps :
       /\ app[a].status = "Cancelled" => app'[a].status = "Cancelled"
       /\ app[a].workStatus = "Completed" => app'[a].workStatus = "Completed"

Advances == MoreInv' /\ Outcomes /\ Moved

(* ---- numbers ----------------------------------------------------------------- *)

LEMMA Terms ==
  ASSUME TypeOK, CapacityRespected
  PROVE  /\ job.hiredCount \in Nat /\ job.reservedOfferCount \in Nat
         /\ job.positionsNeeded \in Nat \ {0} /\ job.salary \in Nat \ {0}
         /\ job.hiredCount <= job.positionsNeeded
         /\ Vacant \in Nat
         /\ job.hiredCount >= job.positionsNeeded => Vacant = 0
         /\ AmountOf(pot) \in Nat /\ pot["EMPLOYER"] \in Nat /\ AmountOf(pot) >= pot["EMPLOYER"]
<1>1. /\ job.hiredCount \in Nat /\ job.reservedOfferCount \in Nat
      /\ job.positionsNeeded \in Nat \ {0} /\ job.salary \in Salaries
  BY AmountsAssumption DEF TypeOK, Job
<1>2. job.salary \in Nat \ {0}
  BY <1>1, AmountsAssumption
<1>3. job.hiredCount <= job.positionsNeeded
  BY <1>1 DEF CapacityRespected
<1> DEFINE free == job.positionsNeeded - job.hiredCount
<1>4. free \in Nat /\ (job.hiredCount >= job.positionsNeeded => free = 0)
  BY <1>1, <1>3
<1>5. Vacant = free * job.salary
  BY DEF Vacant
<1> HIDE DEF free
<1>6. Vacant \in Nat /\ (free = 0 => Vacant = 0)
  BY <1>2, <1>4, <1>5
<1>7. AmountOf(pot) \in Nat /\ pot["EMPLOYER"] \in Nat /\ AmountOf(pot) >= pot["EMPLOYER"]
  BY DEF TypeOK, AmountOf, Wallets
<1> QED
  BY <1>1, <1>2, <1>3, <1>4, <1>6, <1>7

\* What one hire more, one less or several less make of the vacancies.
LEMMA VacantSteps ==
  ASSUME TypeOK, CapacityRespected, TypeOK',
         job'.positionsNeeded = job.positionsNeeded, job'.salary = job.salary
  PROVE  /\ job'.hiredCount = job.hiredCount => Vacant' = Vacant
         /\ job'.hiredCount = job.hiredCount + 1 => Vacant' = Vacant - job.salary
         /\ job'.hiredCount = job.hiredCount - 1 => Vacant' = Vacant + job.salary
         /\ job'.hiredCount <= job.hiredCount => Vacant' >= Vacant
<1>1. /\ job.hiredCount \in Nat /\ job.positionsNeeded \in Nat /\ job.salary \in Nat
      /\ job'.hiredCount \in Nat
  BY Terms DEF TypeOK, Job
<1>2. \A p, h, k, s \in Nat :
        /\ k = h => (p - k) * s = (p - h) * s
        /\ k = h + 1 => (p - k) * s = (p - h) * s - s
        /\ k = h - 1 => (p - k) * s = (p - h) * s + s
  OBVIOUS
<1>3. \A p, h, k, s \in Nat : k <= h => (p - k) * s >= (p - h) * s
  <2> SUFFICES ASSUME NEW p \in Nat, NEW h \in Nat, NEW k \in Nat, NEW s \in Nat, k <= h
               PROVE  (p - k) * s >= (p - h) * s
    OBVIOUS
  <2>1. (p - k) * s = (p - h) * s + (h - k) * s
    OBVIOUS
  <2>2. h - k \in Nat
    OBVIOUS
  <2>3. (h - k) * s \in Nat /\ (p - h) * s \in Int
    BY <2>2
  <2> QED
    BY <2>1, <2>3
<1>4. /\ Vacant = (job.positionsNeeded - job.hiredCount) * job.salary
      /\ Vacant' = (job.positionsNeeded - job'.hiredCount) * job.salary
  BY DEF Vacant
<1> QED
  BY <1>1, <1>2, <1>3, <1>4

LEMMA OwedPrimed == TypeOK => Promised \in Nat /\ Reserved \in Nat
BY OwedType

LEMMA VacantPrimed == TypeOK /\ CapacityRespected => Vacant \in Nat
BY Terms

\* The step keeps the escrow and the claims apart as far as before, or as far
\* as the vacancies move; and what it takes from the employer's part is extras,
\* or it empties the other part first.
Slack == AmountOf(pot) - Promised - Reserved

LEMMA FundsStep ==
  ASSUME FundsInv, TypeOK', CapacityRespected',
         \/ Firm /\ Slack' - Slack = Vacant' - Vacant
         \/ Slack' - Slack = Vacant' - Vacant /\ Vacant' >= Vacant /\ (Firm' => Firm)
         \/ Slack' = Slack /\ Vacant' >= Vacant /\ ~ Firm',
         \/ pot'["EMPLOYER"] - pot["EMPLOYER"] = Reserved' - Reserved
         \/ pot'["EMPLOYER"] >= pot["EMPLOYER"] /\ Reserved' <= Reserved
         \/ pot'["EMPLOYER"] = AmountOf(pot')
         \/ Reserved' = 0
  PROVE  FundsOK'
<1> DEFINE p == AmountOf(pot)
           d == Promised
           r == Reserved
           v == Vacant
           e == pot["EMPLOYER"]
<1>1. TypeOK /\ CapacityRespected /\ FundsOK
  BY DEF FundsInv, BaseInv, PaidInv, MoreInv
<1>2. d \in Nat /\ r \in Nat /\ v \in Nat /\ p \in Nat /\ e \in Nat
  BY <1>1, OwedType, Terms
<1>5. d' \in Nat /\ r' \in Nat /\ v' \in Nat
  <2>1. (Promised \in Nat)' /\ (Reserved \in Nat)' /\ (Vacant \in Nat)'
    BY OwedPrimed, VacantPrimed, PTL
  <2> QED
    BY <2>1
<1>6. p' \in Nat /\ e' \in Nat
  BY DEF TypeOK, AmountOf, Wallets
<1>7. /\ p >= d + r /\ p <= d + r + v /\ (Firm => p >= d + r + v) /\ e >= r
  BY <1>1 DEF FundsOK
<1>8. Slack = p - d - r /\ Slack' = p' - d' - r'
  BY DEF Slack
<1>9. p' >= d' + r' /\ p' <= d' + r' + v' /\ (Firm' => p' >= d' + r' + v') /\ e' >= r'
  <2> HIDE DEF p, d, r, v, e
  <2> QED
    BY <1>2, <1>5, <1>6, <1>7, <1>8 DEF p, d, r, v, e
<1> QED
  BY <1>9 DEF FundsOK

(* ---- the escrow's employer part is spent last --------------------------------- *)

EmployerLast == pot'["EMPLOYER"] = pot["EMPLOYER"] \/ pot'["EMPLOYER"] = AmountOf(pot')

LEMMA SpendsEmployerLast ==
  ASSUME TypeOK, NEW amount \in Nat, NEW returned \in Nat,
         \/ ReleaseFunds(JobSpendingSources(pot, amount),
              JobSpendingSources(Minus(pot, JobSpendingSources(pot, amount)), returned), FALSE)
         \/ ReleaseFunds(JobSpendingSources(pot, amount), Nothing, FALSE)
         \/ ReleaseFunds(Nothing, JobSpendingSources(pot, amount), FALSE)
  PROVE  EmployerLast
<1> DEFINE spent == JobSpendingSources(pot, amount)
           rest == Minus(pot, spent)
           back == JobSpendingSources(rest, returned)
           e == pot["EMPLOYER"]
           w == pot["WORKER"]
<1>1. e \in Nat /\ w \in Nat
  BY DEF TypeOK, Wallets
<1>2. spent["WORKER"] = Least(w, amount) /\ spent["EMPLOYER"] = amount - Least(w, amount)
  BY DEF JobSpendingSources, Wallets
<1>3. rest["WORKER"] = w - spent["WORKER"] /\ rest["EMPLOYER"] = e - spent["EMPLOYER"]
  BY DEF Minus, Wallets
<1>4. /\ back["WORKER"] = Least(rest["WORKER"], returned)
      /\ back["EMPLOYER"] = returned - Least(rest["WORKER"], returned)
  BY DEF JobSpendingSources, Wallets
<1>5. /\ AmountOf(pot') = pot'["EMPLOYER"] + pot'["WORKER"]
      /\ Nothing["EMPLOYER"] = 0 /\ Nothing["WORKER"] = 0
  BY DEF AmountOf, Nothing, Wallets
<1>6. \A f, g : ReleaseFunds(f, g, FALSE) =>
        /\ pot'["EMPLOYER"] = e - (f["EMPLOYER"] + g["EMPLOYER"])
        /\ pot'["WORKER"] = w - (f["WORKER"] + g["WORKER"])
  BY DEF ReleaseFunds, Minus, Plus, Wallets
<1> HIDE DEF spent, rest, back, e, w
<1>7. CASE ReleaseFunds(spent, back, FALSE)
  <2>1. /\ pot'["EMPLOYER"] = e - (spent["EMPLOYER"] + back["EMPLOYER"])
        /\ pot'["WORKER"] = w - (spent["WORKER"] + back["WORKER"])
    BY <1>6, <1>7
  <2> QED
    BY <1>1, <1>2, <1>3, <1>4, <1>5, <2>1 DEF Least, EmployerLast, e
<1>8. CASE ReleaseFunds(spent, Nothing, FALSE)
  <2>1. /\ pot'["EMPLOYER"] = e - (spent["EMPLOYER"] + 0)
        /\ pot'["WORKER"] = w - (spent["WORKER"] + 0)
    BY <1>5, <1>6, <1>8
  <2> QED
    BY <1>1, <1>2, <1>5, <2>1 DEF Least, EmployerLast, e
<1>9. CASE ReleaseFunds(Nothing, spent, FALSE)
  <2>1. /\ pot'["EMPLOYER"] = e - (0 + spent["EMPLOYER"])
        /\ pot'["WORKER"] = w - (0 + spent["WORKER"])
    BY <1>5, <1>6, <1>9
  <2> QED
    BY <1>1, <1>2, <1>5, <2>1 DEF Least, EmployerLast, e
<1> QED
  BY <1>7, <1>8, <1>9 DEF spent, rest, back

(* ---- what is over -------------------------------------------------------------- *)

\* Nothing is claimed of a posting that is over, and nothing is left.
LEMMA OverClaims ==
  ASSUME BaseInv, DocsInv, JobOK, Over
  PROVE  /\ \A a \in Apps : StillOwed(a) = 0 /\ offer[a].extra = 0
         /\ Promised = 0 /\ Reserved = 0 /\ AmountOf(pot) = 0
<1>1. ActiveOffers(offer) = {} /\ Unfinished(app) = {} /\ AmountOf(pot) = 0
  BY DEF JobOK
<1>2. TypeOK
  BY DEF BaseInv, PaidInv
<1>3. ASSUME NEW a \in Apps PROVE StillOwed(a) = 0
  <2>1. app[a].status = "Hired" => app[a].workStatus \in {"Completed", "Cancelled"}
    BY <1>1 DEF Unfinished, Hires
  <2> QED
    BY <2>1 DEF DocsInv, DocsOK, HireOK, StillOwed
<1>4. ASSUME NEW a \in Apps PROVE offer[a].extra = 0
  <2>1. offer[a].status \notin {"pending", "accepted"} /\ offer[a] \in Offer
    BY <1>1, <1>2 DEF ActiveOffers, TypeOK
  <2>2. offer[a].status = "none"
    BY <2>1 DEF Offer
  <2> QED
    BY <2>2 DEF DocsInv, DocsOK, OfferOK
<1> QED
  BY <1>1, <1>3, <1>4, PromisedZero, ReservedZero

LEMMA OverFunds ==
  BaseInv /\ DocsInv /\ JobOK /\ Over => FundsOK
<1> SUFFICES ASSUME BaseInv, DocsInv, JobOK, Over PROVE FundsOK
  OBVIOUS
<1>1. Promised = 0 /\ Reserved = 0 /\ AmountOf(pot) = 0
  BY OverClaims
<1>2. Vacant \in Nat /\ pot["EMPLOYER"] \in Nat
  BY Terms DEF BaseInv, PaidInv
<1> QED
  BY <1>1, <1>2 DEF FundsOK, Firm

\* A step that ends the posting need only show that it ends it well.
LEMMA EndsWell ==
  ASSUME BaseInv', DocsInv', JobOK', Over'
  PROVE  MoreInv'
<1>1. FundsOK'
  BY OverFunds, PTL
<1> QED
  BY <1>1 DEF MoreInv

(* ---- quiet steps ---------------------------------------------------------------- *)

\* The step neither hires nor pays nor frees a.
SameWork(a) ==
  /\ app'[a].status = "Hired" <=> app[a].status = "Hired"
  /\ app[a].status = "Hired" =>
       (app'[a].workStatus \in {"Completed", "Cancelled"}
          <=> app[a].workStatus \in {"Completed", "Cancelled"})
  /\ StillOwed(a)' = StillOwed(a)

\* Nor does it change what the offer to a reserves.
SameOffer(a) ==
  /\ offer'[a].extra = offer[a].extra
  /\ offer'[a].status \in {"pending", "accepted"} <=> offer[a].status \in {"pending", "accepted"}

SameClaim(a) == SameWork(a) /\ SameOffer(a)

\* What a's assignment came to stays.
Stays(a) ==
  /\ app[a].status = "Cancelled" => app'[a].status = "Cancelled"
  /\ app[a].workStatus = "Completed" => app'[a].workStatus = "Completed"

LEMMA SameHires ==
  ASSUME \A a \in Apps : SameWork(a)
  PROVE  Hires(app') = Hires(app) /\ Unfinished(app') = Unfinished(app) /\ Promised' = Promised
<1>1. Hires(app') = Hires(app)
  BY DEF SameWork, Hires
<1>2. Unfinished(app') = Unfinished(app)
  BY <1>1 DEF SameWork, Unfinished, Hires
<1> QED
  BY <1>1, <1>2, PromisedSame DEF SameWork

LEMMA SameSets ==
  ASSUME \A a \in Apps : SameClaim(a)
  PROVE  /\ Hires(app') = Hires(app) /\ Unfinished(app') = Unfinished(app)
         /\ ActiveOffers(offer') = ActiveOffers(offer)
         /\ Promised' = Promised /\ Reserved' = Reserved
<1>1. ActiveOffers(offer') = ActiveOffers(offer)
  BY DEF SameClaim, SameOffer, ActiveOffers
<1> QED
  BY <1>1, SameHires, ReservedSame DEF SameClaim, SameOffer

\* The job keeps its terms, and neither ends nor begins again.
SameJob ==
  /\ job'.positionsNeeded = job.positionsNeeded /\ job'.salary = job.salary
  /\ job'.hireConfirmed = job.hireConfirmed /\ job'.closedManually = job.closedManually
  /\ job'.cancellationPending = job.cancellationPending
  /\ Over' <=> Over
  /\ Over => job'.status = job.status

LEMMA QuietStep ==
  ASSUME FundsInv, BaseInv', \A a \in Apps : SameClaim(a), SameJob,
         UNCHANGED << pot, wallet, received >>
  PROVE  JobOK' /\ FundsOK' /\ Rests
<1>1. /\ Hires(app') = Hires(app) /\ Unfinished(app') = Unfinished(app)
      /\ ActiveOffers(offer') = ActiveOffers(offer)
      /\ Promised' = Promised /\ Reserved' = Reserved
  BY SameSets
<1>2. job'.hiredCount = job.hiredCount
  BY <1>1 DEF FundsInv, BaseInv, CapacityRespected
<1>3. Vacant' = Vacant
  BY <1>2 DEF SameJob, Vacant
<1>4. job'.status = "Cancelled" => job.status = "Cancelled"
  BY DEF SameJob, Over, TerminalJobStatuses
<1>5. JobOK'
  BY <1>1, <1>4 DEF FundsInv, MoreInv, JobOK, SameJob
<1>6. FundsOK'
  BY <1>1, <1>3 DEF FundsInv, MoreInv, FundsOK, SameJob, Firm
<1> QED
  BY <1>5, <1>6 DEF Rests, SameClaim, SameWork, SameJob

(* ---- documents ------------------------------------------------------------------- *)

\* The step leaves what is known of a alone.
Same(a) ==
  /\ app'[a] = app[a] /\ offer'[a] = offer[a]
  /\ cancellation'[a] = cancellation[a] /\ dispute'[a] = dispute[a]
  /\ \A kind \in {"cancellation-payment", "assignment-cancellation-refund"} :
       << kind, a >> \in references' => << kind, a >> \in references

LEMMA SameDocs ==
  ASSUME DocsInv, NEW a \in Apps, Same(a), job'.salary = job.salary
  PROVE  DocsOK(a)' /\ SameClaim(a) /\ Stays(a)
<1>1. StillOwed(a)' = StillOwed(a)
  BY DEF Same, StillOwed
<1>2. DocsOK(a)
  BY DEF DocsInv
<1>3. OfferOK(a)' /\ FreshOK(a)' /\ RequestOK(a)'
  BY <1>2 DEF DocsOK, OfferOK, FreshOK, RequestOK, Same, IsAssignment
<1>4. HireOK(a)'
  <2>1. HireOK(a) /\ app'[a] = app[a] /\ job'.salary = job.salary
    BY <1>2 DEF DocsOK, Same
  <2> QED
    BY <2>1 DEF HireOK
<1>5. ReferenceOK(a)'
  BY <1>2 DEF DocsOK, ReferenceOK, Same
<1>6. DisputeOK(a)'
  BY <1>1, <1>2 DEF DocsOK, DisputeOK, Same
<1>7. SameClaim(a)
  BY <1>1 DEF SameClaim, SameWork, SameOffer, Same
<1>8. Stays(a)
  BY DEF Stays, Same
<1> QED
  BY <1>3, <1>4, <1>5, <1>6, <1>7, <1>8 DEF DocsOK

\* An application that is no assignment may be moved about while nobody hires it.
LEMMA UnhiredDocs ==
  ASSUME FundsInv, NEW a \in Apps, ~ IsAssignment(app[a]),
         app'[a].status # "Hired", app'[a].workStatus = app[a].workStatus,
         cancellation'[a] = cancellation[a], dispute'[a] = dispute[a],
         \A kind \in {"cancellation-payment", "assignment-cancellation-refund"} :
           << kind, a >> \in references' => << kind, a >> \in references,
         OfferOK(a)'
  PROVE  /\ DocsOK(a)' /\ StillOwed(a)' = 0 /\ StillOwed(a) = 0
         /\ SameWork(a) /\ Stays(a)
<1>1. /\ app[a].status # "Hired" /\ app[a].status # "Cancelled"
      /\ cancellation[a].status = "none"
      /\ ~ dispute[a].active /\ dispute[a].stage = "UNDER_INVESTIGATION"
  BY DEF FundsInv, BaseInv, PaidInv, OnlyAssignments, IsAssignment
<1>2. DocsOK(a)
  BY DEF FundsInv, MoreInv, DocsInv
<1>3. StillOwed(a)' = 0 /\ StillOwed(a) = 0
  BY <1>1 DEF StillOwed
<1>4. HireOK(a)' /\ FreshOK(a)' /\ RequestOK(a)'
  BY <1>1, <1>2 DEF DocsOK, HireOK, FreshOK, RequestOK, IsAssignment
<1>5. ReferenceOK(a)'
  BY <1>1, <1>2 DEF DocsOK, ReferenceOK
<1>6. DisputeOK(a)'
  BY <1>1, <1>2 DEF DocsOK, DisputeOK
<1>7. SameWork(a) /\ Stays(a)
  BY <1>1, <1>3 DEF SameWork, Stays
<1> QED
  BY <1>3, <1>4, <1>5, <1>6, <1>7 DEF DocsOK

\* An assignment goes on, or only its notes change.
GoesOn(a) ==
  /\ app'[a].status = app[a].status
  /\ app'[a].agreedAmount = app[a].agreedAmount /\ app'[a].paidAmount = app[a].paidAmount
  /\ \/ app'[a].workStatus = app[a].workStatus /\ app'[a].paymentStatus = app[a].paymentStatus
     \/ /\ app[a].status = "Hired"
        /\ {app[a].paymentStatus, app'[a].paymentStatus} \subseteq {"Secured", "Authorized", "Disputed"}
        /\ app'[a].workStatus \notin {"Completed", "Cancelled"}
        /\ app'[a].workStatus = app[a].workStatus \/ app'[a].workStatus # "Not started"

LEMMA GoesOnDocs ==
  ASSUME FundsInv, NEW a \in Apps, GoesOn(a), job'.salary = job.salary,
         references' = references
  PROVE  /\ HireOK(a)' /\ FreshOK(a)' /\ ReferenceOK(a)' /\ SameWork(a) /\ Stays(a)
         /\ cancellation'[a] = cancellation[a] => RequestOK(a)'
         /\ cancellation'[a] = cancellation[a] /\ dispute'[a] = dispute[a] => DisputeOK(a)'
<1>1. DocsOK(a)
  BY DEF FundsInv, MoreInv, DocsInv
<1>2. HireOK(a) /\ FreshOK(a) /\ RequestOK(a) /\ ReferenceOK(a) /\ DisputeOK(a)
  BY <1>1 DEF DocsOK
<1>3. StillOwed(a)' = StillOwed(a)
  BY DEF GoesOn, StillOwed, Unpaid
<1>4. HireOK(a)'
  BY <1>2 DEF HireOK, GoesOn
<1>5. FreshOK(a)'
  BY <1>2 DEF FreshOK, GoesOn, IsAssignment
<1>6. ReferenceOK(a)'
  BY <1>2 DEF ReferenceOK, GoesOn
<1>7. SameWork(a) /\ Stays(a)
  BY <1>2, <1>3 DEF SameWork, Stays, GoesOn, HireOK
<1>8. cancellation'[a] = cancellation[a] => RequestOK(a)'
  BY <1>2 DEF RequestOK, GoesOn
<1>9. cancellation'[a] = cancellation[a] /\ dispute'[a] = dispute[a] => DisputeOK(a)'
  BY <1>2, <1>3 DEF DisputeOK
<1> QED
  BY <1>3, <1>4, <1>5, <1>6, <1>7, <1>8, <1>9

(* ---- steps about one application ---------------------------------------------- *)

\* A step about a leaves the others alone.
LEMMA OthersSame ==
  ASSUME FundsInv, NEW a \in Apps, \A b \in Apps \ {a} : Same(b),
         job'.salary = job.salary, DocsOK(a)', Stays(a)
  PROVE  /\ DocsInv'
         /\ \A b \in Apps \ {a} : SameClaim(b)
         /\ \A b \in Apps : Stays(b)
<1>1. ASSUME NEW b \in Apps \ {a}
      PROVE  DocsOK(b)' /\ SameClaim(b) /\ Stays(b)
  BY <1>1, SameDocs DEF FundsInv, MoreInv
<1>2. \A b \in Apps : DocsOK(b)'
  BY <1>1
<1> QED
  BY <1>1, <1>2 DEF DocsInv

LEMMA Concludes ==
  ASSUME DocsInv', JobOK', FundsOK', Over => job'.status = job.status,
         \A b \in Apps : Stays(b), Moved
  PROVE  Advances
BY DEF Advances, MoreInv, Outcomes, Stays

LEMMA QuietAt ==
  ASSUME FundsInv, BaseInv', NEW a \in Apps, \A b \in Apps \ {a} : Same(b),
         DocsOK(a)', SameClaim(a), Stays(a), SameJob,
         UNCHANGED << pot, wallet, received >>
  PROVE  Advances
<1>1. /\ DocsInv' /\ \A b \in Apps : Stays(b)
      /\ \A b \in Apps : SameClaim(b)
  BY OthersSame DEF SameJob
<1>2. JobOK' /\ FundsOK' /\ Rests
  BY <1>1, QuietStep
<1> QED
  BY <1>1, <1>2, Concludes DEF SameJob, Moved

LEMMA ResyncJob ==
  ASSUME TypeOK, NEW as, NEW os, job' = SyncCapacity(job, as, os)
  PROVE  SameJob
<1> DEFINE k == SyncCapacity(job, as, os)
<1>1. /\ SameTerms(job, k)
      /\ k.cancellationPending = job.cancellationPending
      /\ (job.status \in TerminalJobStatuses \/ job.cancellationPending)
           => k.status = job.status
      /\ k.status \in TerminalJobStatuses => job.status \in TerminalJobStatuses
  BY SyncCounts DEF TypeOK
<1>2. job' = k
  OBVIOUS
<1> HIDE DEF k
<1> QED
  BY <1>1, <1>2 DEF SameJob, SameTerms, Over

\* No document changes, and the job only where no sum depends on it.
LEMMA QuietPosting ==
  ASSUME FundsInv, BaseInv', \A b \in Apps : Same(b), SameJob,
         UNCHANGED << pot, wallet, received >>
  PROVE  Advances
<1>1. \A b \in Apps : DocsOK(b)' /\ SameClaim(b) /\ Stays(b)
  BY SameDocs DEF SameJob, FundsInv, MoreInv
<1>2. DocsInv'
  BY <1>1 DEF DocsInv
<1>3. JobOK' /\ FundsOK' /\ Rests
  BY <1>1, QuietStep
<1> QED
  BY <1>1, <1>2, <1>3, Concludes DEF SameJob, Moved

\* What FundsInv knows of an application that is no assignment.
LEMMA Unassigned ==
  ASSUME FundsInv, NEW a \in Apps, ~ IsAssignment(app[a])
  PROVE  /\ app[a].status # "Hired" /\ app[a].status # "Cancelled"
         /\ received[a] = 0 /\ app[a].paidAmount = 0
BY DEF FundsInv, BaseInv, PaidInv, OnlyAssignments, PaidOnce, IsAssignment

LEMMA ApplyAdvances ==
  ASSUME FundsInv, BaseInv', NEW a \in Apps, ApplyForJob(a)
  PROVE  Advances
<1>1. app \in [Apps -> Application]
  BY DEF FundsInv, BaseInv, PaidInv, TypeOK
<1>2. /\ app[a].status = "None" /\ app' = [app EXCEPT ![a].status = "Applied"]
      /\ UNCHANGED << job, offer, cancellation, dispute, pot, wallet, received, references >>
  BY DEF ApplyForJob
<1>3. /\ app'[a].status = "Applied" /\ app'[a].workStatus = app[a].workStatus
      /\ \A b \in Apps \ {a} : app'[b] = app[b]
  BY <1>1, <1>2 DEF Application
<1>4. ~ IsAssignment(app[a])
  BY <1>2 DEF IsAssignment
<1>5. OfferOK(a)'
  BY <1>2 DEF FundsInv, MoreInv, DocsInv, DocsOK, OfferOK
<1>6. DocsOK(a)' /\ SameWork(a) /\ Stays(a)
  BY <1>2, <1>3, <1>4, <1>5, UnhiredDocs
<1>7. SameClaim(a)
  BY <1>2, <1>6 DEF SameClaim, SameOffer
<1>8. \A b \in Apps \ {a} : Same(b)
  BY <1>2, <1>3 DEF Same
<1>9. SameJob
  BY <1>2 DEF SameJob, Over
<1> QED
  BY <1>2, <1>6, <1>7, <1>8, <1>9, QuietAt

LEMMA UpdateStatusAdvances ==
  ASSUME FundsInv, BaseInv', NEW a \in Apps, NEW status \in {"Applied", "Rejected"},
         UpdateApplicationStatus(a, status)
  PROVE  Advances
<1>1. app \in [Apps -> Application]
  BY DEF FundsInv, BaseInv, PaidInv, TypeOK
<1>2. /\ app[a].status \notin {"None", "Hired", "Cancelled", "Position filled"}
      /\ app' = [app EXCEPT ![a].status = status]
      /\ UNCHANGED << job, offer, cancellation, dispute, pot, wallet, received, references >>
  BY DEF UpdateApplicationStatus
<1>3. /\ app'[a].status # "Hired" /\ app'[a].workStatus = app[a].workStatus
      /\ \A b \in Apps \ {a} : app'[b] = app[b]
  BY <1>1, <1>2 DEF Application
<1>4. ~ IsAssignment(app[a])
  BY <1>2 DEF IsAssignment
<1>5. OfferOK(a)'
  BY <1>2 DEF FundsInv, MoreInv, DocsInv, DocsOK, OfferOK
<1>6. DocsOK(a)' /\ SameWork(a) /\ Stays(a)
  BY <1>2, <1>3, <1>4, <1>5, UnhiredDocs
<1>7. SameClaim(a)
  BY <1>2, <1>6 DEF SameClaim, SameOffer
<1>8. \A b \in Apps \ {a} : Same(b)
  BY <1>2, <1>3 DEF Same
<1>9. SameJob
  BY <1>2 DEF SameJob, Over
<1> QED
  BY <1>2, <1>6, <1>7, <1>8, <1>9, QuietAt

LEMMA AcceptAdvances ==
  ASSUME FundsInv, BaseInv', NEW a \in Apps, AcceptJobOffer(a)
  PROVE  Advances
<1>1. TypeOK /\ offer \in [Apps -> Offer]
  BY DEF FundsInv, BaseInv, PaidInv, TypeOK
<1>2. /\ offer[a].status = "pending"
      /\ offer' = [offer EXCEPT ![a].status = "accepted"]
      /\ job' = SyncCapacity(job, app, offer')
      /\ UNCHANGED << app, cancellation, dispute, pot, wallet, received, references >>
  BY DEF AcceptJobOffer, Answerable
<1>3. /\ offer'[a].status = "accepted" /\ offer'[a].extra = offer[a].extra
      /\ \A b \in Apps \ {a} : offer'[b] = offer[b]
  BY <1>1, <1>2 DEF Offer
<1>4. SameJob
  BY <1>1, <1>2, ResyncJob
<1>5. GoesOn(a)
  BY <1>2 DEF GoesOn
<1>6. OfferOK(a)'
  BY <1>3 DEF OfferOK
<1>7. HireOK(a)' /\ FreshOK(a)' /\ RequestOK(a)' /\ ReferenceOK(a)' /\ DisputeOK(a)'
      /\ SameWork(a) /\ Stays(a)
  BY <1>2, <1>4, <1>5, GoesOnDocs DEF SameJob
<1>8. DocsOK(a)'
  BY <1>6, <1>7 DEF DocsOK
<1>9. SameClaim(a)
  BY <1>2, <1>3, <1>7 DEF SameClaim, SameOffer
<1>10. \A b \in Apps \ {a} : Same(b)
  BY <1>2, <1>3 DEF Same
<1> QED
  BY <1>2, <1>4, <1>7, <1>8, <1>9, <1>10, QuietAt

\* The offer to a is given up, and its extra goes back.
LEMMA DropAdvances ==
  ASSUME FundsInv, BaseInv', NEW a \in Apps, \A b \in Apps \ {a} : Same(b),
         DocsOK(a)', SameWork(a), Stays(a),
         offer'[a] = NoOffer, RefundOfferExtra(a), SameJob, received' = received
  PROVE  Advances
<1>1. TypeOK /\ TypeOK' /\ CapacityRespected /\ CapacityRespected'
  BY DEF FundsInv, BaseInv, PaidInv
<1>2. /\ DocsInv' /\ \A b \in Apps : Stays(b)
      /\ \A b \in Apps \ {a} : SameClaim(b)
  BY OthersSame DEF SameJob
<1>3. /\ Hires(app') = Hires(app) /\ Unfinished(app') = Unfinished(app)
      /\ Promised' = Promised
  BY <1>2, SameHires DEF SameClaim
<1>4. /\ AmountOf(pot') = AmountOf(pot) - offer[a].extra
      /\ AmountOf(wallet') >= AmountOf(wallet)
      /\ AmountOf(wallet') + AmountOf(pot') + 0 = AmountOf(wallet) + AmountOf(pot)
      /\ pot'["EMPLOYER"] = pot["EMPLOYER"] - offer[a].extra
  BY <1>1, RefundConserves DEF Conserves, Spends
<1>5. offer[a].extra \in Nat /\ AmountOf(pot) \in Nat /\ pot["EMPLOYER"] \in Nat
      /\ AmountOf(wallet) \in Nat /\ AmountOf(wallet') \in Nat
      /\ Promised \in Nat /\ Reserved \in Nat /\ Vacant \in Nat
  BY <1>1, OwedType, Terms DEF TypeOK, AmountOf, Wallets
<1>6. offer'[a].extra = 0 /\ offer'[a].status = "none"
  BY DEF NoOffer
<1>7. Reserved' = Reserved - offer[a].extra
  <2>1. \A b \in Apps \ {a} : offer'[b].extra = offer[b].extra
    BY DEF Same
  <2> QED
    BY <1>1, <1>5, <1>6, <2>1, ReservedChange
<1>8. job'.hiredCount = job.hiredCount
  BY <1>1, <1>3 DEF CapacityRespected
<1>9. Vacant' = Vacant
  BY <1>8 DEF SameJob, Vacant
<1>10. ActiveOffers(offer') \subseteq ActiveOffers(offer)
  BY <1>6 DEF ActiveOffers, Same
<1>11. Over => offer[a].extra = 0
  BY OverClaims DEF FundsInv, MoreInv
<1>12. job'.status = "Cancelled" => job.status = "Cancelled"
  BY DEF SameJob, Over, TerminalJobStatuses
<1>13. JobOK'
  <2>1. JobOK /\ (Over => AmountOf(pot') = AmountOf(pot))
    BY <1>4, <1>5, <1>11 DEF FundsInv, MoreInv
  <2>2. job'.cancellationPending => job'.closedManually /\ ActiveOffers(offer') = {}
    BY <1>10, <2>1 DEF JobOK, SameJob
  <2>3. Over' => ActiveOffers(offer') = {} /\ Unfinished(app') = {} /\ AmountOf(pot') = 0
    BY <1>3, <1>10, <2>1 DEF JobOK, SameJob
  <2>4. /\ Hires(app') # {} => job'.hireConfirmed
        /\ ~ Over' /\ Cardinality(Hires(app')) >= job'.positionsNeeded => Unfinished(app') # {}
        /\ job'.status = "Cancelled" => Cardinality(Hires(app')) < job'.positionsNeeded
    BY <1>3, <1>12, <2>1 DEF JobOK, SameJob
  <2> QED
    BY <2>2, <2>3, <2>4 DEF JobOK
<1>14. FundsOK'
  <2>1. Slack' - Slack = Vacant' - Vacant /\ Vacant' >= Vacant
    BY <1>3, <1>4, <1>5, <1>7, <1>9 DEF Slack
  <2>2. Firm' => Firm
    BY DEF Firm, SameJob
  <2>3. pot'["EMPLOYER"] - pot["EMPLOYER"] = Reserved' - Reserved
    BY <1>4, <1>5, <1>7
  <2> QED
    BY <1>1, <2>1, <2>2, <2>3, FundsStep
<1>15. \A b \in Apps : StillOwed(b)' = StillOwed(b)
  BY <1>2 DEF SameClaim, SameWork
<1>16. Moved
  <2>1. CASE Over
    <3>1. Rests
      BY <1>4, <1>5, <1>11, <1>15, <2>1 DEF Rests, SameJob
    <3> QED
      BY <3>1 DEF Moved
  <2>2. CASE ~ Over
    <3>1. \A b \in Apps : /\ received'[b] >= received[b]
                          /\ StillOwed(b)' + (received'[b] - received[b]) <= StillOwed(b)
      <4>1. \A b \in Apps : received[b] \in Nat /\ StillOwed(b) \in Nat
        BY <1>1, OwedType, SnapshotType
      <4> QED
        BY <1>15, <4>1
    <3> QED
      BY <1>4, <2>2, <3>1 DEF Moved, Pays
  <2> QED
    BY <2>1, <2>2
<1> QED
  BY <1>2, <1>13, <1>14, <1>16, Concludes DEF SameJob

LEMMA WithdrawAdvances ==
  ASSUME FundsInv, BaseInv', NEW a \in Apps, WithdrawApplication(a)
  PROVE  Advances
<1>1. TypeOK /\ app \in [Apps -> Application] /\ offer \in [Apps -> Offer]
  BY DEF FundsInv, BaseInv, PaidInv, TypeOK
<1>2. /\ app[a].status = "Applied" /\ app' = [app EXCEPT ![a].status = "Withdrawn"]
      /\ offer' = [offer EXCEPT ![a] = NoOffer] /\ RefundOfferExtra(a)
      /\ job' = SyncCapacity(job, app', offer')
      /\ UNCHANGED << cancellation, dispute, received, references >>
  BY DEF WithdrawApplication
<1>3. /\ app'[a].status = "Withdrawn" /\ app'[a].workStatus = app[a].workStatus
      /\ \A b \in Apps \ {a} : app'[b] = app[b] /\ offer'[b] = offer[b]
      /\ offer'[a] = NoOffer
  BY <1>1, <1>2 DEF Application
<1>4. ~ IsAssignment(app[a])
  BY <1>2 DEF IsAssignment
<1>5. OfferOK(a)'
  BY <1>3 DEF OfferOK, NoOffer
<1>6. DocsOK(a)' /\ SameWork(a) /\ Stays(a)
  BY <1>2, <1>3, <1>4, <1>5, UnhiredDocs
<1>7. \A b \in Apps \ {a} : Same(b)
  BY <1>2, <1>3 DEF Same
<1>8. SameJob
  BY <1>1, <1>2, ResyncJob
<1> QED
  BY <1>2, <1>3, <1>6, <1>7, <1>8, DropAdvances

LEMMA DropOfferAdvances ==
  ASSUME FundsInv, BaseInv', NEW a \in Apps, DropOffer(a)
  PROVE  Advances
<1>1. TypeOK /\ app \in [Apps -> Application] /\ offer \in [Apps -> Offer]
  BY DEF FundsInv, BaseInv, PaidInv, TypeOK
<1>2. /\ app' = ToShortlist(a)
      /\ offer' = [offer EXCEPT ![a] = NoOffer] /\ RefundOfferExtra(a)
      /\ job' = SyncCapacity(job, app', offer')
      /\ UNCHANGED << cancellation, dispute, received, references >>
  BY DEF DropOffer
<1>3. /\ \A b \in Apps \ {a} : app'[b] = app[b] /\ offer'[b] = offer[b]
      /\ offer'[a] = NoOffer
  BY <1>1, <1>2 DEF ToShortlist
<1>4. OfferOK(a)'
  BY <1>3 DEF OfferOK, NoOffer
<1>5. SameJob
  BY <1>1, <1>2, ResyncJob
<1>6. \A b \in Apps \ {a} : Same(b)
  BY <1>2, <1>3 DEF Same
<1>7. DocsOK(a)' /\ SameWork(a) /\ Stays(a)
  <2>1. CASE app[a].status = "Offer Sent"
    <3>1. app'[a].status = "Applied" /\ app'[a].workStatus = app[a].workStatus
      BY <1>1, <1>2, <2>1 DEF ToShortlist, Application
    <3>2. ~ IsAssignment(app[a])
      BY <2>1 DEF IsAssignment
    <3> QED
      BY <1>2, <1>4, <3>1, <3>2, UnhiredDocs
  <2>2. CASE app[a].status # "Offer Sent"
    <3>1. GoesOn(a)
      BY <1>2, <2>2 DEF ToShortlist, GoesOn
    <3>2. /\ HireOK(a)' /\ FreshOK(a)' /\ RequestOK(a)' /\ ReferenceOK(a)' /\ DisputeOK(a)'
          /\ SameWork(a) /\ Stays(a)
      BY <1>2, <1>5, <3>1, GoesOnDocs DEF SameJob
    <3> QED
      BY <1>4, <3>2 DEF DocsOK
  <2> QED
    BY <2>1, <2>2
<1> QED
  BY <1>2, <1>3, <1>5, <1>6, <1>7, DropAdvances

\* An offer adds its extra to the escrow.
LEMMA CreateOfferAdvances ==
  ASSUME FundsInv, BaseInv', NEW a \in Apps, NEW extra \in Extras, CreateJobOffer(a, extra)
  PROVE  Advances
<1>1. /\ TypeOK /\ TypeOK' /\ CapacityRespected /\ CapacityRespected'
      /\ app \in [Apps -> Application] /\ offer \in [Apps -> Offer]
  BY DEF FundsInv, BaseInv, PaidInv, TypeOK
<1>2. /\ ~ job.cancellationPending /\ ~ Over
      /\ app[a].status \notin {"None", "Hired", "Rejected", "Withdrawn", "Cancelled"}
      /\ a \notin ActiveOffers(offer)
      /\ offer' = [offer EXCEPT ![a] = [status |-> "pending", extra |-> extra]]
      /\ app' = [app EXCEPT ![a].status = "Offer Sent"]
      /\ job' = SyncCapacity(job, app', offer')
      /\ UNCHANGED << cancellation, dispute, received, references >>
  BY DEF CreateJobOffer, Recruiting, Over
<1>3. /\ app'[a].status = "Offer Sent" /\ app'[a].workStatus = app[a].workStatus
      /\ \A b \in Apps \ {a} : app'[b] = app[b] /\ offer'[b] = offer[b]
      /\ offer'[a].status = "pending" /\ offer'[a].extra = extra
  BY <1>1, <1>2 DEF Application
<1>4. ~ IsAssignment(app[a])
  BY <1>2 DEF IsAssignment
<1>5. OfferOK(a)'
  BY <1>3 DEF OfferOK
<1>6. DocsOK(a)' /\ SameWork(a) /\ Stays(a)
  BY <1>2, <1>3, <1>4, <1>5, UnhiredDocs
<1>7. \A b \in Apps \ {a} : Same(b)
  BY <1>2, <1>3 DEF Same
<1>8. SameJob
  BY <1>1, <1>2, ResyncJob
<1>9. /\ DocsInv' /\ \A b \in Apps : Stays(b)
      /\ \A b \in Apps \ {a} : SameClaim(b)
  BY <1>6, <1>7, <1>8, OthersSame DEF SameJob
<1>10. /\ Hires(app') = Hires(app) /\ Unfinished(app') = Unfinished(app)
       /\ Promised' = Promised
  BY <1>6, <1>9, SameHires DEF SameClaim
<1>11. /\ AmountOf(pot') = AmountOf(pot) + extra
       /\ pot'["EMPLOYER"] = pot["EMPLOYER"] + extra
  BY <1>1, OfferConserves
<1>12. extra \in Nat /\ AmountOf(pot) \in Nat /\ pot["EMPLOYER"] \in Nat
       /\ Promised \in Nat /\ Reserved \in Nat /\ Vacant \in Nat
  BY <1>1, OwedType, Terms, AmountsAssumption
<1>13. offer[a].extra = 0
  <2>1. offer[a].status = "none"
    BY <1>1, <1>2 DEF ActiveOffers, Offer
  <2> QED
    BY <2>1 DEF FundsInv, MoreInv, DocsInv, DocsOK, OfferOK
<1>14. Reserved' = Reserved + extra
  <2>1. \A b \in Apps \ {a} : offer'[b].extra = offer[b].extra
    BY <1>3
  <2>2. Reserved' = Reserved - offer[a].extra + offer'[a].extra
    BY <1>1, <2>1, ReservedChange
  <2>3. offer'[a].extra = extra
    BY <1>3
  <2> QED
    BY <1>12, <1>13, <2>2, <2>3
<1>15. Vacant' = Vacant
  BY <1>1, <1>8, <1>10 DEF SameJob, Vacant, CapacityRespected
<1>16. JobOK'
  <2>1. JobOK
    BY DEF FundsInv, MoreInv
  <2> QED
    BY <1>2, <1>8, <1>10, <2>1 DEF JobOK, SameJob, Over, TerminalJobStatuses
<1>17. FundsOK'
  <2>1. Slack' - Slack = Vacant' - Vacant /\ Vacant' >= Vacant
    BY <1>10, <1>11, <1>12, <1>14, <1>15 DEF Slack
  <2>2. Firm' => Firm
    BY <1>8 DEF Firm, SameJob
  <2>3. pot'["EMPLOYER"] - pot["EMPLOYER"] = Reserved' - Reserved
    BY <1>11, <1>12, <1>14
  <2> QED
    BY <1>1, <2>1, <2>2, <2>3, FundsStep
<1>18. Adjusts
  BY <1>2, <1>6, <1>8, <1>9 DEF Adjusts, SameJob, SameClaim, SameWork
<1> QED
  BY <1>8, <1>9, <1>16, <1>17, <1>18, Concludes DEF SameJob, Moved

\* A hire turns the pay of a vacancy and an extra into a claim.
LEMMA HireAdvances ==
  ASSUME FundsInv, BaseInv', NEW a \in Apps, ConfirmOfferHire(a)
  PROVE  Advances
<1> DEFINE full == job.hiredCount + 1 >= job.positionsNeeded
           pay == job.salary + offer[a].extra
           hired(r) == [r EXCEPT !.status = "Hired", !.workStatus = "Not started",
                                 !.paymentStatus = "Secured", !.agreedAmount = pay]
           passed(r) == IF full /\ r.status \in {"Applied", "Offer Sent"}
                        THEN [r EXCEPT !.status = "Position filled"] ELSE r
<1>1. /\ TypeOK /\ TypeOK' /\ CapacityRespected /\ CapacityRespected'
      /\ app \in [Apps -> Application] /\ offer \in [Apps -> Offer] /\ job \in Job
  BY DEF FundsInv, BaseInv, PaidInv, TypeOK
<1>2. /\ offer[a].status = "accepted" /\ app[a].status = "Offer Sent"
      /\ ~ job.cancellationPending /\ ~ job.closedManually /\ ~ Over
      /\ app' = [b \in Apps |-> IF b = a THEN hired(app[a]) ELSE passed(app[b])]
      /\ offer' = [offer EXCEPT ![a] = NoOffer]
      /\ UNCHANGED << cancellation, dispute, pot, wallet, received, references >>
  BY DEF ConfirmOfferHire, Recruiting, Over
<1>3. /\ job' = [job EXCEPT !.hiredCount = job.hiredCount + 1,
                            !.reservedOfferCount = Monus(job.reservedOfferCount, 1),
                            !.status = "In Progress", !.hireConfirmed = TRUE]
  BY DEF ConfirmOfferHire
<1>4. /\ job'.hiredCount = job.hiredCount + 1 /\ job'.status = "In Progress"
      /\ job'.hireConfirmed = TRUE /\ job'.closedManually = job.closedManually
      /\ job'.cancellationPending = job.cancellationPending
      /\ job'.positionsNeeded = job.positionsNeeded /\ job'.salary = job.salary
  BY <1>1, <1>3 DEF Job
<1>5. ~ Over'
  BY <1>4 DEF Over, TerminalJobStatuses
<1>6. /\ job.salary \in Nat \ {0} /\ offer[a].extra \in Nat /\ pay \in Nat /\ pay > 0
      /\ pay >= job.salary
      /\ AmountOf(pot) \in Nat /\ pot["EMPLOYER"] \in Nat
      /\ Promised \in Nat /\ Reserved \in Nat /\ Vacant \in Nat
  BY <1>1, OwedType, Terms
<1> HIDE DEF full, pay
<1>7. /\ app'[a].status = "Hired" /\ app'[a].workStatus = "Not started"
      /\ app'[a].paymentStatus = "Secured" /\ app'[a].agreedAmount = pay
      /\ app'[a].paidAmount = app[a].paidAmount
  BY <1>1, <1>2 DEF Application
<1>8. ~ IsAssignment(app[a])
  BY <1>2 DEF IsAssignment
<1>9. /\ received[a] = 0 /\ app[a].paidAmount = 0
      /\ cancellation[a].status = "none"
      /\ ~ dispute[a].active /\ dispute[a].stage = "UNDER_INVESTIGATION"
      /\ app[a].workStatus # "Completed"
      /\ DocsOK(a)
  <2>1. DocsOK(a)
    BY DEF FundsInv, MoreInv, DocsInv
  <2>2. app[a].workStatus # "Completed"
    BY <1>8, <2>1 DEF DocsOK, FreshOK
  <2> QED
    BY <1>8, <2>1, <2>2, Unassigned DEF FundsInv, BaseInv, PaidInv, OnlyAssignments
<1>10. offer'[a].extra = 0 /\ offer'[a].status = "none"
       /\ \A b \in Apps \ {a} : offer'[b] = offer[b]
  BY <1>1, <1>2 DEF NoOffer
<1>11. DocsOK(a)'
  <2>1. OfferOK(a)'
    BY <1>10 DEF OfferOK
  <2>2. HireOK(a)'
    BY <1>4, <1>6, <1>7, <1>9 DEF HireOK
  <2>3. FreshOK(a)' /\ RequestOK(a)'
    BY <1>2, <1>7, <1>9 DEF FreshOK, RequestOK
  <2>4. ReferenceOK(a)'
    BY <1>2, <1>9 DEF DocsOK, ReferenceOK
  <2>5. DisputeOK(a)'
    BY <1>2, <1>9 DEF DocsOK, DisputeOK
  <2> QED
    BY <2>1, <2>2, <2>3, <2>4, <2>5 DEF DocsOK
<1>12. ASSUME NEW b \in Apps \ {a}
       PROVE  DocsOK(b)' /\ SameWork(b) /\ Stays(b)
  <2>1. app'[b] = passed(app[b]) /\ app[b] \in Application
    BY <1>1, <1>2
  <2>2. CASE full /\ app[b].status \in {"Applied", "Offer Sent"}
    <3>1. app'[b].status = "Position filled" /\ app'[b].workStatus = app[b].workStatus
      BY <2>1, <2>2 DEF Application
    <3>2. ~ IsAssignment(app[b])
      BY <2>2 DEF IsAssignment
    <3>3. OfferOK(b)'
      BY <1>10 DEF FundsInv, MoreInv, DocsInv, DocsOK, OfferOK
    <3> QED
      BY <1>2, <3>1, <3>2, <3>3, UnhiredDocs
  <2>3. CASE ~ (full /\ app[b].status \in {"Applied", "Offer Sent"})
    <3>1. app'[b] = app[b]
      BY <2>1, <2>3
    <3>2. Same(b)
      BY <1>2, <1>10, <3>1 DEF Same
    <3> QED
      BY <1>4, <3>2, SameDocs DEF FundsInv, MoreInv, SameClaim
  <2> QED
    BY <2>2, <2>3
<1>13. Stays(a)
  BY <1>2, <1>9 DEF Stays
<1>14. DocsInv' /\ \A b \in Apps : Stays(b)
  <2>1. \A b \in Apps : DocsOK(b)' /\ Stays(b)
    BY <1>11, <1>12, <1>13
  <2> QED
    BY <2>1 DEF DocsInv
<1>15. StillOwed(a) = 0 /\ StillOwed(a)' = pay
  <2>1. StillOwed(a) = 0
    BY <1>2 DEF StillOwed
  <2>2. StillOwed(a)' = Monus(pay, 0)
    BY <1>7, <1>9 DEF StillOwed, Unpaid
  <2>3. Monus(pay, 0) = pay
    BY <1>6 DEF Monus
  <2> QED
    BY <2>1, <2>2, <2>3
<1>16. \A b \in Apps \ {a} : StillOwed(b)' = StillOwed(b)
  BY <1>12 DEF SameWork
<1>17. Promised' = Promised + pay
  BY <1>1, <1>6, <1>15, <1>16, PromisedChange
<1>18. Reserved' = Reserved - offer[a].extra
  BY <1>1, <1>6, <1>10, ReservedChange
<1>19. Vacant' = Vacant - job.salary
  BY <1>1, <1>4, VacantSteps
<1>20. FundsOK'
  <2>0. pot' = pot /\ pay = job.salary + offer[a].extra
    BY <1>2 DEF pay
  <2>1. Slack' - Slack = Vacant' - Vacant
    BY <1>6, <1>17, <1>18, <1>19, <2>0 DEF Slack
  <2>2. Firm
    BY <1>2 DEF Firm
  <2>3. pot'["EMPLOYER"] >= pot["EMPLOYER"] /\ Reserved' <= Reserved
    BY <1>6, <1>18, <2>0
  <2> QED
    BY <1>1, <2>1, <2>2, <2>3, FundsStep
<1>21. a \in Unfinished(app')
  BY <1>7 DEF Unfinished, Hires
<1>22. JobOK'
  BY <1>2, <1>4, <1>5, <1>21 DEF JobOK
<1>23. Promises(a)
  BY <1>2, <1>5, <1>6, <1>9, <1>15, <1>16 DEF Promises
<1> QED
  BY <1>2, <1>14, <1>20, <1>22, <1>23, Concludes DEF Moved

LEMMA OfferStepAdvances ==
  ASSUME FundsInv, BaseInv', NEW a \in Apps, OfferStep(a)
  PROVE  Advances
<1>1. CASE ApplyForJob(a)
  BY <1>1, ApplyAdvances
<1>2. CASE WithdrawApplication(a)
  BY <1>2, WithdrawAdvances
<1>3. ASSUME NEW status \in {"Applied", "Rejected"}, UpdateApplicationStatus(a, status)
      PROVE  Advances
  BY <1>3, UpdateStatusAdvances
<1>4. ASSUME NEW extra \in Extras, CreateJobOffer(a, extra)
      PROVE  Advances
  BY <1>4, CreateOfferAdvances
<1>5. CASE AcceptJobOffer(a)
  BY <1>5, AcceptAdvances
<1>6. CASE RejectJobOffer(a) \/ CancelJobOffer(a) \/ ExpireOffer(a)
  BY <1>6, DropOfferAdvances DEF RejectJobOffer, CancelJobOffer, ExpireOffer
<1>7. CASE ConfirmOfferHire(a)
  BY <1>7, HireAdvances
<1> QED
  BY <1>1, <1>2, <1>3, <1>4, <1>5, <1>6, <1>7 DEF OfferStep

(* ---- work and payment ----------------------------------------------------------- *)

\* A step about the work, the request or the case of one application.
LEMMA NotesAdvance ==
  ASSUME FundsInv, BaseInv', NEW a \in Apps, GoesOn(a), \A b \in Apps \ {a} : Same(b),
         RequestOK(a)', DisputeOK(a)',
         UNCHANGED << job, offer, pot, wallet, received, references >>
  PROVE  Advances
<1>1. HireOK(a)' /\ FreshOK(a)' /\ ReferenceOK(a)' /\ SameWork(a) /\ Stays(a)
  BY GoesOnDocs
<1>2. OfferOK(a)'
  BY DEF FundsInv, MoreInv, DocsInv, DocsOK, OfferOK
<1>3. DocsOK(a)'
  BY <1>1, <1>2 DEF DocsOK
<1>4. SameClaim(a)
  BY <1>1 DEF SameClaim, SameOffer
<1>5. SameJob
  BY DEF SameJob, Over
<1> QED
  BY <1>1, <1>3, <1>4, <1>5, QuietAt

LEMMA WorkAdvances ==
  ASSUME FundsInv, BaseInv', NEW a \in Apps, NEW r \in Application,
         app' = [app EXCEPT ![a] = r], app[a].status = "Hired", app[a].paymentStatus # "Paid",
         r.status = app[a].status, r.agreedAmount = app[a].agreedAmount,
         r.paidAmount = app[a].paidAmount,
         r.paymentStatus \in {app[a].paymentStatus, "Authorized"},
         r.workStatus \in {app[a].workStatus, "In Progress", "Submitted", "Changes Requested"},
         UNCHANGED << job, offer, cancellation, dispute, pot, wallet, received, references >>
  PROVE  Advances
<1>1. app \in [Apps -> Application]
  BY DEF FundsInv, BaseInv, PaidInv, TypeOK
<1>2. app'[a] = r /\ \A b \in Apps \ {a} : app'[b] = app[b]
  BY <1>1
<1>3. HireOK(a)
  BY DEF FundsInv, MoreInv, DocsInv, DocsOK
<1>4. GoesOn(a)
  <2>1. /\ app[a].paymentStatus \in {"Secured", "Authorized", "Disputed"}
        /\ app[a].workStatus \notin {"Completed", "Cancelled"}
    BY <1>3 DEF HireOK
  <2> QED
    BY <1>2, <2>1 DEF GoesOn
<1>5. RequestOK(a)' /\ DisputeOK(a)'
  BY <1>4, GoesOnDocs
<1>6. \A b \in Apps \ {a} : Same(b)
  BY <1>2 DEF Same
<1> QED
  BY <1>4, <1>5, <1>6, NotesAdvance

\* What a payment knows of the assignment it pays.
LEMMA DueClaim ==
  ASSUME FundsInv, NEW a \in Apps, app[a].status = "Hired", app[a].paymentStatus # "Paid"
  PROVE  /\ received[a] = 0 /\ app[a].paidAmount = 0
         /\ AlreadyPaid(a) = 0 /\ RemainingAgreed(a) = app[a].agreedAmount
         /\ StillOwed(a) = app[a].agreedAmount /\ Unpaid(app[a]) = app[a].agreedAmount
         /\ app[a].agreedAmount \in Nat /\ app[a].agreedAmount >= job.salary
         /\ app[a].workStatus \notin {"Completed", "Cancelled"}
         /\ app[a].paymentStatus \in {"Secured", "Authorized", "Disputed"}
<1>1. HireOK(a) /\ PaidOnce /\ TypeOK
  BY DEF FundsInv, MoreInv, DocsInv, DocsOK, BaseInv, PaidInv
<1>2. app[a].agreedAmount \in Nat
  BY <1>1, SnapshotType
<1>3. /\ app[a].agreedAmount >= job.salary /\ app[a].paidAmount = 0
      /\ app[a].workStatus \notin {"Completed", "Cancelled"}
      /\ app[a].paymentStatus \in {"Secured", "Authorized", "Disputed"}
  BY <1>1 DEF HireOK
<1>4. received[a] = 0
  BY <1>1, <1>3 DEF PaidOnce
<1>5. AlreadyPaid(a) = 0 /\ RemainingAgreed(a) = app[a].agreedAmount
  BY <1>2, <1>4 DEF AlreadyPaid, RemainingAgreed, Least
<1>6. Unpaid(app[a]) = app[a].agreedAmount
  BY <1>2, <1>3 DEF Unpaid, Monus
<1> QED
  BY <1>2, <1>3, <1>4, <1>5, <1>6 DEF StillOwed

LEMMA SettleAdvances ==
  ASSUME FundsInv, BaseInv', NEW S \in SUBSET Apps, NEW j \in Job, Settle(S, j),
         \A a \in S : Settleable(a) /\ app[a].paymentStatus # "Paid",
         j.positionsNeeded = job.positionsNeeded, j.salary = job.salary,
         j.hireConfirmed = job.hireConfirmed, j.hiredCount = job.hiredCount,
         j.cancellationPending = job.cancellationPending, j.status = job.status,
         job.closedManually => j.closedManually,
         ~ job.cancellationPending, job.status # "Cancelled", Over => S = {},
         UNCHANGED << offer, cancellation, dispute, references >>
  PROVE  Advances
<1> DEFINE h == [a \in Apps |-> RemainingAgreed(a)]
           total == SumOver(h, S)
           ends == Finalizes(j, app', offer)
<1>1. /\ TypeOK /\ TypeOK' /\ CapacityRespected /\ CapacityRespected'
      /\ app \in [Apps -> Application] /\ offer \in [Apps -> Offer]
  BY DEF FundsInv, BaseInv, PaidInv, TypeOK
<1>2. /\ app' = [a \in Apps |-> IF a \notin S THEN app[a]
                 ELSE [app[a] EXCEPT !.paymentStatus = "Paid", !.workStatus = "Completed",
                         !.paidAmount = AlreadyPaid(a) + RemainingAgreed(a)]]
      /\ received' = [a \in Apps |-> received[a] + (IF a \in S THEN RemainingAgreed(a) ELSE 0)]
      /\ ReleaseFunds(JobSpendingSources(pot, total), Nothing, ends)
      /\ job' = Finalized(j, app', offer)
  BY DEF Settle
<1>3. ASSUME NEW a \in S
      PROVE  /\ app[a].status = "Hired" /\ app[a].workStatus = "Submitted"
             /\ ~ ActiveDispute(a) /\ app[a].paymentStatus # "Paid"
             /\ received[a] = 0 /\ app[a].paidAmount = 0
             /\ AlreadyPaid(a) = 0 /\ RemainingAgreed(a) = app[a].agreedAmount
             /\ StillOwed(a) = app[a].agreedAmount
             /\ app[a].agreedAmount \in Nat /\ app[a].agreedAmount >= job.salary
  BY <1>3, DueClaim DEF Settleable
<1>4. ASSUME NEW a \in S
      PROVE  /\ app'[a].status = "Hired" /\ app'[a].workStatus = "Completed"
             /\ app'[a].paymentStatus = "Paid" /\ app'[a].paidAmount = app[a].agreedAmount
             /\ app'[a].agreedAmount = app[a].agreedAmount
  <2>1. app[a] \in Application
    BY <1>1
  <2>2. app'[a] = [app[a] EXCEPT !.paymentStatus = "Paid", !.workStatus = "Completed",
                         !.paidAmount = AlreadyPaid(a) + RemainingAgreed(a)]
    BY <1>2
  <2>3. /\ app'[a].status = app[a].status /\ app'[a].workStatus = "Completed"
        /\ app'[a].paymentStatus = "Paid" /\ app'[a].agreedAmount = app[a].agreedAmount
        /\ app'[a].paidAmount = AlreadyPaid(a) + RemainingAgreed(a)
    BY <2>1, <2>2 DEF Application
  <2> QED
    BY <1>3, <2>3
<1>5. \A a \in Apps \ S : app'[a] = app[a]
  BY <1>2
<1>6. /\ job'.positionsNeeded = job.positionsNeeded /\ job'.salary = job.salary
      /\ job'.hireConfirmed = job.hireConfirmed /\ job'.hiredCount = job.hiredCount
      /\ job'.cancellationPending = FALSE
      /\ job'.closedManually = j.closedManually
      /\ job'.status = IF ends THEN "Completed" ELSE job.status
  <2> DEFINE k == Finalized(j, app', offer)
  <2>1. /\ SameTerms(j, k) /\ k.hiredCount = j.hiredCount
        /\ k.cancellationPending = j.cancellationPending
        /\ k.status = IF Finalizes(j, app', offer) THEN "Completed" ELSE j.status
    BY FinalCounts
  <2>2. job' = k
    BY <1>2
  <2>3. job.cancellationPending = FALSE
    BY <1>1 DEF TypeOK, Job
  <2> HIDE DEF k
  <2> QED
    BY <2>1, <2>2, <2>3 DEF SameTerms
<1>7. ASSUME NEW a \in S
      PROVE  DocsOK(a)' /\ StillOwed(a)' = 0 /\ Stays(a)
  <2>1. DocsOK(a)
    BY DEF FundsInv, MoreInv, DocsInv
  <2>2. OfferOK(a)'
    BY <2>1 DEF DocsOK, OfferOK
  <2>3. HireOK(a)'
    BY <1>3, <1>4, <1>6 DEF HireOK
  <2>4. FreshOK(a)' /\ RequestOK(a)'
    BY <1>3, <1>4, <2>1 DEF FreshOK, RequestOK, IsAssignment
  <2>5. ReferenceOK(a)'
    BY <1>3, <2>1 DEF DocsOK, ReferenceOK
  <2>6. DisputeOK(a)'
    BY <1>3, <2>1 DEF DocsOK, DisputeOK, ActiveDispute
  <2>7. StillOwed(a)' = 0 /\ Stays(a)
    BY <1>3, <1>4 DEF StillOwed, Stays
  <2> QED
    BY <2>2, <2>3, <2>4, <2>5, <2>6, <2>7 DEF DocsOK
<1>8. ASSUME NEW a \in Apps \ S
      PROVE  DocsOK(a)' /\ StillOwed(a)' = StillOwed(a) /\ Stays(a)
  <2>1. Same(a)
    BY <1>5 DEF Same
  <2> QED
    BY <1>6, <2>1, SameDocs DEF FundsInv, MoreInv, SameClaim, SameWork
<1>9. DocsInv' /\ \A a \in Apps : Stays(a)
  BY <1>7, <1>8 DEF DocsInv
<1>10. \A a \in S : h[a] = StillOwed(a) /\ StillOwed(a)' = 0
  BY <1>3, <1>7
<1>11. total \in Nat /\ total = Sum(h, S)
  BY <1>1, SettlePays
<1>12. Promised' = Promised - total
  BY <1>1, <1>8, <1>10, <1>11, PromisedDrop
<1>13. /\ AmountOf(wallet') + AmountOf(pot') + total = AmountOf(wallet) + AmountOf(pot)
       /\ ~ ends => AmountOf(pot') = AmountOf(pot) - total
       /\ ends => AmountOf(pot') = 0
       /\ AmountOf(wallet') >= AmountOf(wallet)
  BY <1>1, SettleConserves DEF Conserves, Spends
<1>14. /\ AmountOf(pot) \in Nat /\ AmountOf(wallet) \in Nat /\ AmountOf(wallet') \in Nat
       /\ Promised \in Nat /\ Reserved \in Nat /\ Vacant \in Nat
  BY <1>1, OwedType, Terms DEF TypeOK, AmountOf, Wallets
<1>15. Hires(app') = Hires(app)
  BY <1>3, <1>4, <1>5 DEF Hires
<1>16. ends =>
         /\ job.status \notin TerminalJobStatuses
         /\ \A b \in Hires(app') : app'[b].paymentStatus = "Paid" /\ app'[b].workStatus = "Completed"
         /\ ActiveOffers(offer') = {}
  BY DEF Finalizes
<1>17. ~ ends /\ job.status \notin TerminalJobStatuses
         /\ Cardinality(Hires(app')) >= job'.positionsNeeded => Unfinished(app') # {}
  <2> SUFFICES ASSUME ~ ends, job.status \notin TerminalJobStatuses,
                      Cardinality(Hires(app')) >= job'.positionsNeeded
               PROVE  Unfinished(app') # {}
    OBVIOUS
  <2>1. ActiveOffers(offer) = {}
    <3>1. /\ job'.hiredCount = Cardinality(Hires(app'))
          /\ job'.reservedOfferCount = Cardinality(ActiveOffers(offer'))
          /\ job'.hiredCount + job'.reservedOfferCount <= job'.positionsNeeded
      BY <1>1 DEF CapacityRespected
    <3>2. /\ Cardinality(Hires(app')) \in Nat /\ Cardinality(ActiveOffers(offer')) \in Nat
          /\ IsFiniteSet(ActiveOffers(offer')) /\ job'.positionsNeeded \in Nat
      BY <1>1, <1>6, CountType, Terms
    <3>3. Cardinality(ActiveOffers(offer')) = 0
      BY <3>1, <3>2
    <3> QED
      BY <3>2, <3>3, FS_EmptySet
  <2>2. Hires(app') # {}
    <3>1. Cardinality({}) = 0 /\ job'.positionsNeeded \in Nat \ {0}
      BY <1>1, <1>6, FS_EmptySet, Terms
    <3> QED
      BY <3>1
  <2>3. PICK b \in Hires(app') : ~ (app'[b].paymentStatus = "Paid" /\ app'[b].workStatus = "Completed")
    BY <1>6, <2>1, <2>2 DEF Finalizes
  <2>4. b \in Apps /\ app'[b].status = "Hired"
    BY <2>3 DEF Hires
  <2>5. HireOK(b)'
    BY <1>9, <2>4 DEF DocsInv, DocsOK
  <2>6. app'[b].workStatus \notin {"Completed", "Cancelled"}
    BY <2>3, <2>4, <2>5 DEF HireOK
  <2> QED
    BY <2>3, <2>6 DEF Unfinished
<1> HIDE DEF h, total, ends
<1>18. S = {} => total = 0 /\ app' = app
  <2> SUFFICES ASSUME S = {} PROVE total = 0 /\ app' = app
    OBVIOUS
  <2>1. total = 0
    BY <1>11, FS_EmptySet, SumStep
  <2>2. app' = app
    BY <1>1, <1>2
  <2> QED
    BY <2>1, <2>2
<1>19. JobOK'
  <2>1. JobOK
    BY DEF FundsInv, MoreInv
  <2>2. Over' <=> ends \/ Over
    BY <1>6 DEF Over, TerminalJobStatuses
  <2>3. Over' => ActiveOffers(offer') = {} /\ Unfinished(app') = {} /\ AmountOf(pot') = 0
    <3>1. CASE ends
      BY <1>13, <1>16, <3>1 DEF Unfinished
    <3>2. CASE ~ ends /\ Over
      <4>1. ActiveOffers(offer) = {} /\ Unfinished(app) = {} /\ AmountOf(pot) = 0
        BY <2>1, <3>2 DEF JobOK
      <4>2. app' = app /\ AmountOf(pot') = 0
        BY <1>13, <1>18, <3>2, <4>1
      <4> QED
        BY <4>1, <4>2
    <3> QED
      BY <2>2, <3>1, <3>2
  <2>4. Hires(app') # {} => job'.hireConfirmed
    BY <1>6, <1>15, <2>1 DEF JobOK
  <2>5. ~ Over' /\ Cardinality(Hires(app')) >= job'.positionsNeeded => Unfinished(app') # {}
    BY <1>17, <2>2 DEF Over
  <2>6. job'.status # "Cancelled"
    BY <1>6
  <2> QED
    BY <1>6, <2>3, <2>4, <2>5, <2>6 DEF JobOK
<1>20. MoreInv'
  <2>1. CASE Over'
    BY <1>9, <1>19, <2>1, EndsWell
  <2>2. CASE ~ Over'
    <3>1. ~ ends /\ ~ Over
      BY <1>6, <2>2 DEF Over, TerminalJobStatuses
    <3>2. Reserved' = Reserved
      BY ReservedSame
    <3>3. Vacant' = Vacant
      BY <1>6 DEF Vacant
    <3>4. Slack' - Slack = Vacant' - Vacant /\ Vacant' >= Vacant
      BY <1>11, <1>12, <1>13, <1>14, <3>1, <3>2, <3>3 DEF Slack
    <3>5. Firm' => Firm
      BY <1>6, <2>2, <3>1 DEF Firm
    <3>6. EmployerLast
      <4>1. ReleaseFunds(JobSpendingSources(pot, total), Nothing, FALSE)
        <5>1. ends = FALSE
          BY <3>1 DEF ends, Finalizes
        <5> QED
          BY <1>2, <5>1 DEF total, h, ends
      <4> QED
        BY <1>1, <1>11, <4>1, SpendsEmployerLast
    <3>7. \/ pot'["EMPLOYER"] >= pot["EMPLOYER"] /\ Reserved' <= Reserved
          \/ pot'["EMPLOYER"] = AmountOf(pot')
      <4>1. pot["EMPLOYER"] \in Nat
        BY <1>1, Terms
      <4> QED
        BY <1>14, <3>2, <3>6, <4>1 DEF EmployerLast
    <3>8. FundsOK'
      BY <1>1, <3>4, <3>5, <3>7, FundsStep
    <3> QED
      BY <1>9, <1>19, <3>8 DEF MoreInv
  <2> QED
    BY <2>1, <2>2
<1>21. Over => job'.status = job.status
  BY <1>6, <1>16 DEF Over
<1>22. \A b \in Apps : /\ received[b] \in Nat /\ StillOwed(b) \in Nat
                       /\ received'[b] >= received[b]
                       /\ StillOwed(b)' + (received'[b] - received[b]) <= StillOwed(b)
  <2> TAKE b \in Apps
  <2>1. received[b] \in Nat /\ StillOwed(b) \in Nat
    BY <1>1, OwedType, SnapshotType
  <2>2. CASE b \in S
    <3>1. received'[b] = received[b] + RemainingAgreed(b)
      BY <1>2, <2>2
    <3> QED
      BY <1>3, <1>7, <2>1, <2>2, <3>1
  <2>3. CASE b \notin S
    <3>1. received'[b] = received[b] + 0
      BY <1>2, <2>3
    <3> QED
      BY <1>8, <2>1, <2>3, <3>1
  <2> QED
    BY <2>1, <2>2, <2>3
<1>23. Moved
  <2>1. CASE Over
    <3>1. S = {} /\ ~ ends
      BY <1>16, <2>1 DEF Over
    <3>2. received' = received
      <4>1. \A b \in Apps : received'[b] = received[b]
        BY <1>2, <1>22, <3>1
      <4>2. received \in [Apps -> Nat] /\ received' \in [Apps -> Nat]
        BY <1>1 DEF TypeOK
      <4> QED
        BY <4>1, <4>2
    <3>3. AmountOf(pot') = AmountOf(pot) /\ AmountOf(wallet') = AmountOf(wallet)
      BY <1>13, <1>14, <1>18, <3>1
    <3>4. Over'
      BY <1>21, <2>1 DEF Over
    <3>5. \A b \in Apps : StillOwed(b)' = StillOwed(b)
      BY <1>8, <3>1
    <3> QED
      BY <2>1, <3>2, <3>3, <3>4, <3>5 DEF Moved, Rests
  <2>2. CASE ~ Over
    BY <1>13, <1>22, <2>2 DEF Moved, Pays
  <2> QED
    BY <2>1, <2>2
<1> QED
  BY <1>9, <1>20, <1>21, <1>23 DEF Advances, Outcomes, Stays

LEMMA AssignmentStepAdvances ==
  ASSUME FundsInv, BaseInv', NEW a \in Apps, AssignmentStep(a)
  PROVE  Advances
<1>1. TypeOK /\ app \in [Apps -> Application] /\ job \in Job
  BY DEF FundsInv, BaseInv, PaidInv, TypeOK
<1>2. HireOK(a)
  BY DEF FundsInv, MoreInv, DocsInv, DocsOK
<1>3. CASE StartWork(a)
  <2> DEFINE r == [app[a] EXCEPT !.workStatus = "In Progress"]
  <2>1. /\ app[a].status = "Hired" /\ app[a].workStatus = "Not started"
        /\ app' = [app EXCEPT ![a].workStatus = "In Progress"]
        /\ UNCHANGED << job, offer, cancellation, dispute, pot, wallet, received, references >>
    BY <1>3 DEF StartWork
  <2>2. app' = [app EXCEPT ![a] = r]
    BY <2>1
  <2>3. /\ r \in Application /\ r.status = app[a].status /\ r.workStatus = "In Progress"
        /\ r.agreedAmount = app[a].agreedAmount /\ r.paidAmount = app[a].paidAmount
        /\ r.paymentStatus = app[a].paymentStatus
    BY <1>1 DEF Application, WorkStatus
  <2>4. app[a].paymentStatus # "Paid"
    BY <1>2, <2>1 DEF HireOK
  <2> HIDE DEF r
  <2> QED
    BY <2>1, <2>2, <2>3, <2>4, WorkAdvances
<1>4. ASSUME NEW r \in Application, Transition(a, r),
             r.status = app[a].status, r.agreedAmount = app[a].agreedAmount,
             r.paidAmount = app[a].paidAmount,
             r.paymentStatus \in {app[a].paymentStatus, "Authorized"},
             r.workStatus \in {app[a].workStatus, "Submitted", "Changes Requested"}
      PROVE  Advances
  BY <1>4, WorkAdvances DEF Transition, Movable
<1>5. CASE AuthorizePayment(a)
  <2> DEFINE r == [app[a] EXCEPT !.paymentStatus = "Authorized"]
  <2>1. Transition(a, r)
    BY <1>5 DEF AuthorizePayment
  <2>2. /\ r \in Application /\ r.status = app[a].status /\ r.workStatus = app[a].workStatus
        /\ r.agreedAmount = app[a].agreedAmount /\ r.paidAmount = app[a].paidAmount
        /\ r.paymentStatus = "Authorized"
    BY <1>1 DEF Application, PaymentStatus
  <2> HIDE DEF r
  <2> QED
    BY <1>4, <2>1, <2>2
<1>6. ASSUME NEW status \in {"Submitted", "Changes Requested"},
             Transition(a, [app[a] EXCEPT !.workStatus = status])
      PROVE  Advances
  <2> DEFINE r == [app[a] EXCEPT !.workStatus = status]
  <2>1. Transition(a, r)
    BY <1>6
  <2>2. /\ r \in Application /\ r.status = app[a].status /\ r.workStatus = status
        /\ r.agreedAmount = app[a].agreedAmount /\ r.paidAmount = app[a].paidAmount
        /\ r.paymentStatus = app[a].paymentStatus
    BY <1>1 DEF Application, WorkStatus
  <2> HIDE DEF r
  <2> QED
    BY <1>4, <2>1, <2>2
<1>7. CASE SubmitWork(a)
  BY <1>6, <1>7 DEF SubmitWork
<1>8. CASE RequestChanges(a)
  BY <1>6, <1>8 DEF RequestChanges
<1>9. CASE SettleDirect(a)
  <2>1. /\ {a} \in SUBSET Apps /\ Settle({a}, job)
        /\ \A b \in {a} : Settleable(b) /\ app[b].paymentStatus # "Paid"
        /\ ~ job.cancellationPending /\ ~ Over
        /\ UNCHANGED << offer, cancellation, dispute, references >>
    BY <1>9 DEF SettleDirect, Over
  <2>2. job.status # "Cancelled"
    BY <2>1 DEF Over, TerminalJobStatuses
  <2> QED
    BY <1>1, <2>1, <2>2, SettleAdvances
<1> QED
  BY <1>3, <1>5, <1>7, <1>8, <1>9 DEF AssignmentStep

LEMMA CommitMarkDoneAdvances ==
  ASSUME FundsInv, BaseInv', CommitMarkDone
  PROVE  Advances
<1> DEFINE due == {a \in marking : app[a].paymentStatus # "Paid"}
           closed == [job EXCEPT !.closedManually = TRUE]
<1>1. job \in Job /\ marking \in SUBSET Apps
  BY DEF FundsInv, BaseInv, PaidInv, TypeOK
<1>2. /\ due \in SUBSET Apps /\ Settle(due, closed)
      /\ \A a \in due : Settleable(a) /\ app[a].paymentStatus # "Paid"
      /\ ~ job.cancellationPending /\ job.status # "Cancelled"
      /\ due # {} => job.status # "Completed"
      /\ UNCHANGED << offer, cancellation, dispute, references >>
  BY <1>1 DEF CommitMarkDone
<1>3. /\ closed \in Job /\ closed.positionsNeeded = job.positionsNeeded
      /\ closed.salary = job.salary /\ closed.hireConfirmed = job.hireConfirmed
      /\ closed.hiredCount = job.hiredCount
      /\ closed.cancellationPending = job.cancellationPending
      /\ closed.status = job.status /\ closed.closedManually
  BY <1>1 DEF Job
<1> HIDE DEF due, closed
<1>4. Over => due = {}
  BY <1>2 DEF Over, TerminalJobStatuses
<1> QED
  BY <1>2, <1>3, <1>4, SettleAdvances

(* ---- cancellations ----------------------------------------------------------------- *)

\* No case of a is open after the step, and the others' cases are as before.
CaseOver(a) ==
  /\ dispute'[a].active = FALSE /\ dispute'[a].status # "investigating"
  /\ dispute'[a].stage # "PENDING_FINANCE_APPROVAL"
  /\ dispute'[a].stage = "FOR_FINANCE_REVIEW" => dispute'[a].settled
  /\ \A b \in Apps \ {a} : dispute'[b] = dispute[b]

\* Nobody is paid for a position that stays open.
UnpaidIfRetained(a, amount, retainBaseFunding) ==
  retainBaseFunding /\ app[a].workStatus = "Not started" => amount = 0

\* The assignment a is cancelled.  A vacancy that stays open keeps its pay, any
\* other step returns all that the worker does not get, and closes recruitment.
LEMMA ResolveAdvances ==
  ASSUME FundsInv, BaseInv', NEW a \in Apps, NEW amount \in Nat,
         NEW retainBaseFunding \in BOOLEAN,
         ResolveCancelledAssignment(a, amount, retainBaseFunding),
         app[a].status = "Hired",
         UnpaidIfRetained(a, amount, retainBaseFunding), CaseOver(a), UNCHANGED offer
  PROVE  Advances
<1> DEFINE retains == Retains(app[a], retainBaseFunding)
           unused == Monus(Unpaid(app[a]) - amount, IF retains THEN job.salary ELSE 0)
           returned == IF << "assignment-cancellation-refund", a >> \in references
                       THEN 0 ELSE unused
           after == AfterCancelling(job, retains)
           synced == SyncCapacity(after, app', offer)
           ends == EndsPosting(synced, app')
           agreed == app[a].agreedAmount
<1>1. /\ TypeOK /\ TypeOK' /\ CapacityRespected /\ CapacityRespected' /\ JobOK
      /\ app \in [Apps -> Application] /\ offer \in [Apps -> Offer] /\ job \in Job
      /\ cancellation \in [Apps -> Cancellation] /\ received \in [Apps -> Nat]
      /\ dispute \in [Apps -> Dispute]
  BY DEF FundsInv, MoreInv, BaseInv, PaidInv, TypeOK
<1>2. /\ amount <= Unpaid(app[a]) /\ app[a].paymentStatus # "Paid"
      /\ app' = [app EXCEPT ![a] = CancelledApplication(app[a], amount)]
      /\ cancellation' = [cancellation EXCEPT
           ![a] = [status |-> "resolved", workerPayment |-> amount]]
      /\ received' = [received EXCEPT ![a] = received[a] + amount]
      /\ references' = references
           \cup (IF amount > 0 THEN {<< "cancellation-payment", a >>} ELSE {})
           \cup (IF unused > 0 THEN {<< "assignment-cancellation-refund", a >>} ELSE {})
      /\ ReleaseFunds(JobSpendingSources(pot, amount),
           JobSpendingSources(Minus(pot, JobSpendingSources(pot, amount)), returned), ends)
      /\ job' = EndPosting(synced, app')
  BY DEF ResolveCancelledAssignment
<1>3. /\ StillOwed(a) = agreed /\ Unpaid(app[a]) = agreed /\ agreed \in Nat
      /\ agreed >= job.salary /\ app[a].workStatus \notin {"Completed", "Cancelled"}
      /\ received[a] = 0
  BY <1>2, DueClaim
<1>4. /\ app'[a].status = "Cancelled" /\ app'[a].workStatus = "Cancelled"
      /\ \A b \in Apps \ {a} : app'[b] = app[b] /\ cancellation'[b] = cancellation[b]
                               /\ received'[b] = received[b]
      /\ cancellation'[a].status = "resolved"
      /\ received'[a] = received[a] + amount
  <2>1. /\ CancelledApplication(app[a], amount).status = "Cancelled"
        /\ CancelledApplication(app[a], amount).workStatus = "Cancelled"
    BY <1>1 DEF CancelledApplication, Application
  <2> QED
    BY <1>1, <1>2, <2>1
<1>5. ~ Over
  <2>1. a \in Unfinished(app)
    BY <1>3 DEF Unfinished, Hires
  <2> QED
    BY <1>1, <2>1 DEF JobOK
<1>6. << "assignment-cancellation-refund", a >> \notin references
  BY DEF FundsInv, MoreInv, DocsInv, DocsOK, ReferenceOK
<1>7. job.salary \in Nat \ {0} /\ AmountOf(pot) \in Nat /\ pot["EMPLOYER"] \in Nat
      /\ Promised \in Nat /\ Reserved \in Nat /\ Vacant \in Nat
      /\ job.hiredCount \in Nat /\ job.positionsNeeded \in Nat
      /\ job.hiredCount <= job.positionsNeeded
  <2>1. TypeOK /\ CapacityRespected
    BY <1>1
  <2> QED
    BY <2>1, OwedType, Terms
<1>8. retains => amount = 0
  BY DEF Retains, UnpaidIfRetained
<1>9. /\ returned = IF retains THEN agreed - job.salary ELSE agreed - amount
      /\ amount <= agreed /\ returned \in Nat
  <2>0. amount <= agreed /\ Unpaid(app[a]) = agreed /\ agreed \in Nat
    BY <1>2, <1>3
  <2>1. returned = Monus(agreed - amount, IF retains THEN job.salary ELSE 0)
    BY <1>6, <2>0
  <2> HIDE DEF returned, retains
  <2>2. CASE retains
    BY <1>3, <1>7, <1>8, <2>0, <2>1, <2>2 DEF Monus
  <2>3. CASE ~ retains
    BY <2>0, <2>1, <2>3 DEF Monus
  <2> QED
    BY <2>2, <2>3
<1>10. /\ AmountOf(wallet') + AmountOf(pot') + amount = AmountOf(wallet) + AmountOf(pot)
       /\ ~ ends => AmountOf(pot') = AmountOf(pot) - amount - returned
       /\ ends => AmountOf(pot') = 0
       /\ AmountOf(wallet') >= AmountOf(wallet)
  <2>1. /\ Conserves(amount)
        /\ ~ ends => AmountOf(pot') = AmountOf(pot) - amount - returned
        /\ ends => AmountOf(pot') = 0
        /\ AmountOf(wallet') >= AmountOf(wallet)
    BY <1>1, ResolveConserves
  <2> HIDE DEF ends, returned
  <2> QED
    BY <2>1 DEF Conserves, Spends
<1>11. /\ synced \in Job
       /\ synced.hiredCount = Cardinality(Hires(app'))
       /\ SameTerms(after, synced)
       /\ synced.cancellationPending = after.cancellationPending
       /\ synced.status \in TerminalJobStatuses => after.status \in TerminalJobStatuses
  <2>1. after \in Job
    BY <1>1 DEF AfterCancelling, Job, JobStatus
  <2>2. app' \in [Apps -> Application]
    BY <1>1 DEF TypeOK
  <2>3. offer \in [Apps -> Offer]
    BY <1>1
  <2> HIDE DEF after
  <2>4. synced \in Job
    BY <2>1, <2>2, <2>3, SyncType
  <2>5. /\ synced.hiredCount = Cardinality(Hires(app'))
        /\ SameTerms(after, synced)
        /\ synced.cancellationPending = after.cancellationPending
        /\ synced.status \in TerminalJobStatuses => after.status \in TerminalJobStatuses
    BY <2>1, SyncCounts
  <2> QED
    BY <2>4, <2>5
<1>12. /\ after.positionsNeeded = job.positionsNeeded /\ after.salary = job.salary
       /\ after.hireConfirmed = job.hireConfirmed
       /\ after.cancellationPending = job.cancellationPending
       /\ after.closedManually = (job.closedManually \/ ~ (retains \/ job.cancellationPending))
       /\ after.status \notin TerminalJobStatuses
  <2>1. CASE retains \/ job.cancellationPending
    <3>1. after = job
      BY <2>1 DEF AfterCancelling
    <3>2. job.closedManually \in BOOLEAN
      BY <1>1 DEF Job
    <3> HIDE DEF after, retains
    <3> QED
      BY <1>5, <2>1, <3>1, <3>2 DEF Over
  <2>2. CASE ~ (retains \/ job.cancellationPending)
    <3>1. after = [job EXCEPT !.closedManually = TRUE, !.status = "Closed"]
      BY <2>2 DEF AfterCancelling
    <3> HIDE DEF retains
    <3> QED
      BY <1>1, <2>2, <3>1 DEF Job, TerminalJobStatuses
  <2> QED
    BY <2>1, <2>2
<1> HIDE DEF retains, unused, returned, after, synced
<1>13. /\ job'.positionsNeeded = job.positionsNeeded /\ job'.salary = job.salary
       /\ job'.hireConfirmed = job.hireConfirmed
       /\ job'.closedManually = (job.closedManually \/ ~ (retains \/ job.cancellationPending))
       /\ job'.cancellationPending = IF ends THEN FALSE ELSE job.cancellationPending
       /\ ends => job'.status = "Cancelled"
       /\ ~ ends => job'.status \notin TerminalJobStatuses
  <2> DEFINE k == EndPosting(synced, app')
  <2>1. /\ SameTerms(synced, k)
        /\ k.cancellationPending = IF ends THEN FALSE ELSE synced.cancellationPending
        /\ k.status = IF ends THEN "Cancelled" ELSE synced.status
    BY <1>11, EndCounts
  <2>2. job' = k
    BY <1>2
  <2> HIDE DEF k, ends
  <2> QED
    BY <1>11, <1>12, <2>1, <2>2 DEF SameTerms
<1>14. ends => job.cancellationPending /\ Unfinished(app') = {}
  BY <1>11, <1>12 DEF EndsPosting
<1> HIDE DEF ends
<1>15. Over' <=> ends
  BY <1>13 DEF Over, TerminalJobStatuses
<1>16. /\ Hires(app') = Hires(app) \ {a} /\ a \in Hires(app)
       /\ Cardinality(Hires(app')) = Cardinality(Hires(app)) - 1
       /\ job'.hiredCount = job.hiredCount - 1
       /\ Cardinality(Hires(app')) < job'.positionsNeeded
  <2>1. Hires(app') = Hires(app) \ {a} /\ a \in Hires(app)
    BY <1>4 DEF Hires
  <2>2. Cardinality(Hires(app')) = Cardinality(Hires(app)) - 1
    BY <2>1, CountType, FS_RemoveElement
  <2>3. job.hiredCount = Cardinality(Hires(app)) /\ job'.hiredCount = Cardinality(Hires(app'))
    BY <1>1 DEF CapacityRespected
  <2>4. job'.positionsNeeded = job.positionsNeeded
    BY <1>13
  <2>5. Cardinality(Hires(app)) \in Nat /\ Cardinality(Hires(app)) - 1 < job.positionsNeeded
    BY <1>7, <2>3
  <2> QED
    BY <2>1, <2>2, <2>3, <2>4, <2>5
<1>17. DocsOK(a)' /\ StillOwed(a)' = 0 /\ Stays(a)
  <2>1. DocsOK(a)
    BY DEF FundsInv, MoreInv, DocsInv
  <2>2. OfferOK(a)'
    BY <2>1 DEF DocsOK, OfferOK
  <2>3. HireOK(a)' /\ FreshOK(a)' /\ RequestOK(a)' /\ ReferenceOK(a)'
    BY <1>4 DEF HireOK, FreshOK, RequestOK, ReferenceOK, IsAssignment
  <2>4. DisputeOK(a)'
    BY DEF DisputeOK, CaseOver
  <2>5. StillOwed(a)' = 0 /\ Stays(a)
    BY <1>3, <1>4 DEF StillOwed, Stays
  <2> QED
    BY <2>2, <2>3, <2>4, <2>5 DEF DocsOK
<1>18. \A b \in Apps \ {a} : Same(b)
  BY <1>2, <1>4 DEF Same, CaseOver
<1>19. /\ DocsInv' /\ \A b \in Apps : Stays(b)
       /\ \A b \in Apps \ {a} : StillOwed(b)' = StillOwed(b)
  BY <1>13, <1>17, <1>18, OthersSame DEF SameClaim, SameWork
<1> HIDE DEF agreed
<1>20. Promised' = Promised - agreed
  <2>1. Promised' = Promised - StillOwed(a) + StillOwed(a)'
    BY <1>1, <1>19, PromisedChange
  <2> QED
    BY <1>3, <1>7, <1>17, <2>1
<1>21. Reserved' = Reserved
  BY ReservedSame
<1>22. Vacant' = Vacant + job.salary
  BY <1>1, <1>13, <1>16, VacantSteps
<1>23. job.hireConfirmed /\ (job.cancellationPending => job.closedManually /\ ActiveOffers(offer) = {})
  BY <1>1, <1>16 DEF JobOK
<1>24. JobOK'
  <2>1. job'.cancellationPending => job'.closedManually /\ ActiveOffers(offer') = {}
    BY <1>13, <1>23
  <2>2. Hires(app') # {} => job'.hireConfirmed
    BY <1>13, <1>23
  <2>3. Over' => ActiveOffers(offer') = {} /\ Unfinished(app') = {} /\ AmountOf(pot') = 0
    BY <1>10, <1>14, <1>15, <1>23
  <2>4. ~ (Cardinality(Hires(app')) >= job'.positionsNeeded)
    <3>1. Cardinality(Hires(app')) \in Nat /\ job'.positionsNeeded \in Nat
      BY <1>7, <1>13, CountType
    <3> QED
      BY <1>16, <3>1
  <2> QED
    BY <1>16, <2>1, <2>2, <2>3, <2>4 DEF JobOK
<1>25. MoreInv'
  <2>1. CASE Over'
    BY <1>19, <1>24, <2>1, EndsWell
  <2>2. CASE ~ Over'
    <3>1. ~ ends
      BY <1>15, <2>2
    <3>2. EmployerLast
      <4>1. ends = FALSE
        BY <3>1 DEF ends, EndsPosting
      <4>2. returned \in Nat
        BY <1>9
      <4>3. ReleaseFunds(JobSpendingSources(pot, amount),
              JobSpendingSources(Minus(pot, JobSpendingSources(pot, amount)), returned), FALSE)
        BY <1>2, <4>1
      <4> QED
        BY <1>1, <4>2, <4>3, SpendsEmployerLast
    <3>3. \/ pot'["EMPLOYER"] >= pot["EMPLOYER"] /\ Reserved' <= Reserved
          \/ pot'["EMPLOYER"] = AmountOf(pot')
      <4>1. pot["EMPLOYER"] \in Nat /\ Reserved \in Nat
        BY <1>7
      <4> QED
        BY <1>21, <3>2, <4>1 DEF EmployerLast
    <3>4. CASE retains
      <4>1. Slack' - Slack = Vacant' - Vacant /\ Vacant' >= Vacant
        BY <1>3, <1>7, <1>8, <1>9, <1>10, <1>20, <1>21, <1>22, <3>1, <3>4 DEF Slack
      <4>2. Firm' => Firm
        BY <1>5, <1>13, <3>4 DEF Firm
      <4> QED
        BY <1>1, <1>19, <1>24, <3>3, <4>1, <4>2, FundsStep DEF MoreInv
    <3>5. CASE ~ retains
      <4>1. Slack' = Slack /\ Vacant' >= Vacant
        <5>1. /\ AmountOf(pot') = AmountOf(pot) - amount - returned
              /\ returned = agreed - amount /\ agreed \in Nat
          BY <1>3, <1>9, <1>10, <3>1, <3>5
        <5> QED
          BY <1>7, <1>20, <1>21, <1>22, <5>1 DEF Slack
      <4>2. ~ Firm'
        BY <1>13, <1>23, <3>5 DEF Firm
      <4> QED
        BY <1>1, <1>19, <1>24, <3>3, <4>1, <4>2, FundsStep DEF MoreInv
    <3> QED
      BY <3>4, <3>5
  <2> QED
    BY <2>1, <2>2
<1>26. Pays
  <2>1. \A b \in Apps : received[b] \in Nat /\ StillOwed(b) \in Nat
    BY <1>1, OwedType
  <2>2. \A b \in Apps \ {a} : /\ received'[b] >= received[b]
                              /\ StillOwed(b)' + (received'[b] - received[b]) <= StillOwed(b)
    <3> TAKE b \in Apps \ {a}
    <3>1. received'[b] = received[b] /\ StillOwed(b)' = StillOwed(b)
      BY <1>4, <1>19
    <3> QED
      BY <2>1, <3>1
  <2>3. /\ received'[a] >= received[a]
        /\ StillOwed(a)' + (received'[a] - received[a]) <= StillOwed(a)
    <3>1. received'[a] = 0 + amount /\ received[a] = 0 /\ amount <= agreed
      BY <1>3, <1>4, <1>9
    <3>2. StillOwed(a)' = 0 /\ StillOwed(a) = agreed /\ agreed \in Nat
      BY <1>3, <1>17
    <3> QED
      BY <3>1, <3>2
  <2> QED
    BY <1>5, <1>10, <2>2, <2>3 DEF Pays
<1> QED
  BY <1>5, <1>19, <1>25, <1>26 DEF Advances, Outcomes, Stays, Moved

LEMMA CancellationStepAdvances ==
  ASSUME FundsInv, BaseInv', NEW a \in Apps, CancellationStep(a)
  PROVE  Advances
<1>1. /\ TypeOK /\ app \in [Apps -> Application] /\ cancellation \in [Apps -> Cancellation]
      /\ dispute \in [Apps -> Dispute] /\ app[a] \in Application
      /\ cancellation[a] \in Cancellation /\ dispute[a] \in Dispute
  BY DEF FundsInv, BaseInv, PaidInv, TypeOK
<1>2. HireOK(a) /\ RequestOK(a) /\ DisputeOK(a)
  BY DEF FundsInv, MoreInv, DocsInv, DocsOK
<1>3. ~ ActiveDispute(a) =>
        /\ ~ dispute[a].active /\ dispute[a].status # "investigating"
        /\ dispute[a].stage # "PENDING_FINANCE_APPROVAL"
        /\ dispute[a].stage = "FOR_FINANCE_REVIEW" => dispute[a].settled
  BY <1>2 DEF DisputeOK, ActiveDispute
<1>4. ~ ActiveDispute(a) /\ dispute' = dispute => CaseOver(a)
  BY <1>1, <1>3 DEF CaseOver, Dispute
<1>5. CASE CancelBeforeStart(a)
  <2>1. /\ ResolveCancelledAssignment(a, 0, TRUE) /\ app[a].status = "Hired"
        /\ ~ ActiveDispute(a) /\ UNCHANGED << offer, dispute >>
    BY <1>5 DEF CancelBeforeStart, Cancellable
  <2>2. UnpaidIfRetained(a, 0, TRUE)
    BY DEF UnpaidIfRetained
  <2> QED
    BY <1>4, <2>1, <2>2, ResolveAdvances
<1>6. CASE AcceptCancellation(a)
  <2> DEFINE amount == cancellation[a].workerPayment
  <2>1. /\ ResolveCancelledAssignment(a, amount, TRUE) /\ cancellation[a].status = "pending"
        /\ ~ ActiveDispute(a) /\ UNCHANGED << offer, dispute >>
    BY <1>6 DEF AcceptCancellation
  <2>2. app[a].status = "Hired" /\ UnpaidIfRetained(a, amount, TRUE)
    BY <1>2, <2>1 DEF RequestOK, UnpaidIfRetained
  <2>3. amount \in Nat
    BY <1>1 DEF Cancellation
  <2> HIDE DEF amount
  <2> QED
    BY <1>4, <2>1, <2>2, <2>3, ResolveAdvances
<1>7. ASSUME NEW workerPayment \in Proposals, RequestAssignmentCancellation(a, workerPayment)
      PROVE  Advances
  <2>1. /\ app[a].status = "Hired" /\ app[a].workStatus # "Not started"
        /\ ~ ActiveDispute(a)
        /\ cancellation' = [cancellation EXCEPT
             ![a] = [status |-> "pending", workerPayment |-> workerPayment]]
        /\ app' = [app EXCEPT ![a].cancellationPending = TRUE]
        /\ UNCHANGED << job, offer, dispute, pot, wallet, received, references >>
    BY <1>7 DEF RequestAssignmentCancellation, Cancellable
  <2>2. GoesOn(a)
    BY <1>1, <2>1 DEF GoesOn, Application
  <2>3. \A b \in Apps \ {a} : Same(b)
    BY <1>1, <2>1 DEF Same
  <2>4. app'[a].status = "Hired" /\ app'[a].workStatus = app[a].workStatus
    BY <1>1, <2>1 DEF Application
  <2>5. RequestOK(a)'
    BY <2>1, <2>4 DEF RequestOK
  <2>6. DisputeOK(a)'
    BY <1>2, <1>3, <2>1 DEF DisputeOK
  <2> QED
    BY <2>1, <2>2, <2>3, <2>5, <2>6, NotesAdvance
<1>8. CASE EscalateCancellation(a)
  <2>1. /\ cancellation[a].status = "pending"
        /\ app' = [app EXCEPT ![a].disputePending = TRUE]
        /\ cancellation' = [cancellation EXCEPT ![a].status = "staff_review"]
        /\ dispute' = IF ActiveDispute(a) THEN dispute ELSE [dispute EXCEPT
             ![a] = NewDispute("cancellation", Unpaid(app[a]))]
        /\ UNCHANGED << job, offer, pot, wallet, received, references >>
    BY <1>8 DEF EscalateCancellation, OpenCase
  <2>2. GoesOn(a)
    BY <1>1, <2>1 DEF GoesOn, Application
  <2>3. \A b \in Apps \ {a} : Same(b)
    BY <1>1, <2>1 DEF Same
  <2>4. app'[a].status = app[a].status /\ app'[a].workStatus = app[a].workStatus
    BY <1>1, <2>1 DEF Application
  <2>5. app[a].status = "Hired" /\ app[a].workStatus # "Not started"
    BY <1>2, <2>1 DEF RequestOK
  <2>6. RequestOK(a)'
    BY <2>4, <2>5 DEF RequestOK
  <2>7. cancellation'[a].status = "staff_review"
    BY <1>1, <2>1 DEF Cancellation
  <2>8. StillOwed(a)' = StillOwed(a)
    BY <2>1, <2>2, GoesOnDocs DEF SameWork
  <2>9. DisputeOK(a)'
    <3>1. CASE ActiveDispute(a)
      BY <1>2, <2>1, <2>7, <2>8, <3>1 DEF DisputeOK
    <3>2. CASE ~ ActiveDispute(a)
      <4>1. dispute'[a] = NewDispute("cancellation", Unpaid(app[a]))
        BY <1>1, <2>1, <3>2
      <4>2. StillOwed(a) = Unpaid(app[a])
        <5>1. CASE app[a].paymentStatus # "Paid"
          BY <2>5, <5>1 DEF StillOwed
        <5>2. CASE app[a].paymentStatus = "Paid"
          <6>1. app[a].paidAmount = app[a].agreedAmount
            BY <1>2, <2>5, <5>2 DEF HireOK
          <6>2. Unpaid(app[a]) = 0 /\ StillOwed(a) = 0
            BY <1>1, <5>2, <6>1 DEF Unpaid, Monus, Application, StillOwed
          <6> QED
            BY <6>2
        <5> QED
          BY <5>1, <5>2
      <4> QED
        BY <2>7, <2>8, <4>1, <4>2 DEF DisputeOK, NewDispute
    <3> QED
      BY <3>1, <3>2
  <2> QED
    BY <2>1, <2>2, <2>3, <2>6, <2>9, NotesAdvance
<1> QED
  BY <1>5, <1>6, <1>7, <1>8
     DEF CancellationStep, RejectCancellation, EscalateOverdueCancellation

(* ---- disputes ------------------------------------------------------------------------- *)

\* A decision with nothing to decide moves no money.
LEMMA NothingDecided ==
  ASSUME TypeOK, ReleaseFunds(JobSpendingSources(pot, 0),
           JobSpendingSources(Minus(pot, JobSpendingSources(pot, 0)), 0), FALSE)
  PROVE  pot' = pot /\ wallet' = wallet
<1> DEFINE spent == JobSpendingSources(pot, 0)
           rest == Minus(pot, spent)
           back == JobSpendingSources(rest, 0)
<1>1. pot \in [Wallets -> Nat] /\ wallet \in [Wallets -> Nat]
  BY DEF TypeOK
<1>2. spent["WORKER"] = 0 /\ spent["EMPLOYER"] = 0
  BY <1>1 DEF JobSpendingSources, Least, Wallets
<1>3. rest["WORKER"] = pot["WORKER"] - spent["WORKER"]
  BY DEF Minus, Wallets
<1>4. rest["WORKER"] \in Nat
  <2>1. pot["WORKER"] \in Nat
    BY <1>1 DEF Wallets
  <2> HIDE DEF rest, spent
  <2> QED
    BY <1>2, <1>3, <2>1
<1>5. back["WORKER"] = 0 /\ back["EMPLOYER"] = 0
  <2> HIDE DEF rest
  <2> QED
    BY <1>4 DEF JobSpendingSources, Least, Wallets
<1>6. \A w \in Wallets : spent[w] = 0 /\ back[w] = 0
  BY <1>2, <1>5 DEF Wallets
<1>7. ReleaseFunds(spent, back, FALSE)
  OBVIOUS
<1> HIDE DEF spent, back
<1>8. /\ pot' = [w \in Wallets |-> pot[w] - (spent[w] + back[w])]
      /\ wallet' = [w \in Wallets |-> wallet[w] + back[w]]
  BY <1>7 DEF ReleaseFunds, Minus, Plus
<1> QED
  BY <1>1, <1>6, <1>8

LEMMA KeepAdvances ==
  ASSUME FundsInv, BaseInv', NEW a \in Apps, NEW s \in Settlement,
         s = dispute[a].settlement, dispute[a].active, dispute[a].settled,
         KeepAssignment(a, s),
         AlreadyPaid(a) = s.alreadyPaid, ~ ClosesAssignment(a, s),
         CaseOver(a), UNCHANGED offer
  PROVE  Advances
<1> DEFINE base == IF dispute[a].disputedAmount > 0 THEN DecidedApplication(app[a], s)
                   ELSE app[a]
           r == [base EXCEPT !.disputePending = FALSE]
           amount == dispute[a].disputedAmount
<1>1. /\ TypeOK /\ TypeOK' /\ CapacityRespected /\ CapacityRespected' /\ JobOK
      /\ app \in [Apps -> Application] /\ offer \in [Apps -> Offer] /\ job \in Job
      /\ app[a] \in Application /\ received \in [Apps -> Nat]
  BY DEF FundsInv, MoreInv, BaseInv, PaidInv, TypeOK
<1>2. DocsOK(a) /\ HireOK(a) /\ RequestOK(a) /\ DisputeOK(a)
  BY DEF FundsInv, MoreInv, DocsInv, DocsOK
<1>3. /\ amount = StillOwed(a) /\ s.worker + s.refund = amount
      /\ s.type = "FULL_REFUND" => s.worker = 0
      /\ s.outstanding = 0
      /\ s.worker \in Nat /\ s.refund \in Nat /\ amount \in Nat
  <2>1. amount = StillOwed(a) /\ Divides(s, amount)
    BY <1>2 DEF DisputeOK
  <2>2. s.worker \in Nat /\ s.refund \in Nat /\ StillOwed(a) \in Nat
    BY <1>1, OwedType DEF Settlement
  <2> QED
    BY <2>1, <2>2 DEF Divides
<1>4. /\ app' = [app EXCEPT ![a] = r]
      /\ received' = [received EXCEPT ![a] = received[a] + s.worker]
      /\ ReleaseFunds(JobSpendingSources(pot, s.worker),
           JobSpendingSources(Minus(pot, JobSpendingSources(pot, s.worker)), s.refund), FALSE)
      /\ job' = AfterDecision(r)
      /\ UNCHANGED << cancellation, references >>
  BY DEF KeepAssignment
<1>5. \A b \in Apps \ {a} : Same(b)
  BY <1>1, <1>4 DEF Same, CaseOver
<1>6. \/ job' = job /\ r.paymentStatus # "Paid"
      \/ /\ job' = [job EXCEPT !.status = "Completed"] /\ r.paymentStatus = "Paid"
         /\ Unfinished(app') = {} /\ job.hiredCount >= job.positionsNeeded
      \/ /\ job' = SyncCapacity(job, app', offer) /\ r.paymentStatus = "Paid"
         /\ ~ (Unfinished(app') = {} /\ job.hiredCount >= job.positionsNeeded)
  BY <1>4 DEF AfterDecision
<1> DEFINE completes == /\ job' = [job EXCEPT !.status = "Completed"]
                        /\ Unfinished(app') = {} /\ job.hiredCount >= job.positionsNeeded
<1>7. /\ job'.positionsNeeded = job.positionsNeeded /\ job'.salary = job.salary
      /\ job'.hireConfirmed = job.hireConfirmed /\ job'.closedManually = job.closedManually
      /\ job'.cancellationPending = job.cancellationPending
      /\ completes \/ SameJob
      /\ completes => job'.status = "Completed"
  <2>1. CASE completes
    BY <1>1, <2>1 DEF Job
  <2>2. CASE job' = job
    BY <1>1, <2>2 DEF SameJob, Over, Job
  <2>3. CASE job' = SyncCapacity(job, app', offer)
    <3>1. SameJob
      BY <1>1, <2>3, ResyncJob
    <3>2. completes => job'.status = "Completed"
      BY <1>1 DEF Job
    <3> HIDE DEF completes
    <3> QED
      BY <3>1, <3>2 DEF SameJob
  <2> QED
    BY <1>6, <2>1, <2>2, <2>3
<1>8. DisputeOK(a)'
  BY DEF DisputeOK, CaseOver
<1>9. OfferOK(a)'
  BY <1>2 DEF DocsOK, OfferOK
<1>10. completes => ~ Over \/ job.status = "Completed"
  <2>1. completes => ~ (Cardinality(Hires(app)) < job.positionsNeeded)
    BY <1>1, CountType DEF CapacityRespected, Job
  <2> QED
    BY <1>1, <2>1 DEF JobOK, Over, TerminalJobStatuses
<1>11. CASE amount = 0
  <2>1. s.worker = 0 /\ s.refund = 0
    BY <1>3, <1>11
  <2>2. pot' = pot /\ wallet' = wallet
    BY <1>1, <1>4, <2>1, NothingDecided
  <2>3. received' = received
    BY <1>1, <1>4, <2>1
  <2>4. app'[a] = [app[a] EXCEPT !.disputePending = FALSE]
    BY <1>1, <1>4, <1>11
  <2>5. GoesOn(a)
    BY <1>1, <2>4 DEF GoesOn, Application
  <2>6. /\ HireOK(a)' /\ FreshOK(a)' /\ ReferenceOK(a)' /\ SameWork(a) /\ Stays(a)
        /\ RequestOK(a)'
    BY <1>4, <1>7, <2>5, GoesOnDocs
  <2>7. DocsOK(a)' /\ SameClaim(a)
    BY <1>8, <1>9, <2>6 DEF DocsOK, SameClaim, SameOffer
  <2>8. Unfinished(app') = Unfinished(app)
    <3>1. \A b \in Apps : SameWork(b)
      BY <1>5, <1>7, <2>6, SameDocs DEF SameClaim, FundsInv, MoreInv
    <3> QED
      BY <3>1, SameHires
  <2>9. SameJob
    <3>1. CASE completes
      <4>1. Cardinality(Hires(app)) >= job.positionsNeeded /\ Unfinished(app) = {}
        BY <1>1, <2>8, <3>1 DEF CapacityRespected
      <4>2. Over
        BY <1>1, <4>1 DEF JobOK
      <4>3. job.status = "Completed"
        BY <1>10, <3>1, <4>2
      <4>4. Over'
        BY <1>7, <3>1 DEF Over, TerminalJobStatuses
      <4> QED
        BY <1>7, <3>1, <4>2, <4>3, <4>4 DEF SameJob
    <3> QED
      BY <1>7, <3>1
  <2> QED
    BY <1>5, <2>2, <2>3, <2>6, <2>7, <2>9, QuietAt
<1>12. CASE amount > 0
  <2> DEFINE agreed == app[a].agreedAmount
  <2>1. app[a].status = "Hired" /\ app[a].paymentStatus # "Paid"
    BY <1>3, <1>12 DEF StillOwed
  <2>2. /\ received[a] = 0 /\ AlreadyPaid(a) = 0 /\ RemainingAgreed(a) = agreed
        /\ StillOwed(a) = agreed /\ agreed \in Nat /\ agreed >= job.salary
        /\ app[a].workStatus \notin {"Completed", "Cancelled"}
    BY <2>1, DueClaim
  <2>3. s.refund = 0 /\ s.worker = agreed /\ agreed > 0 /\ s.type # "FULL_REFUND"
    <3>1. ~ (s.refund > 0 /\ s.worker + s.refund = agreed)
      BY <2>2 DEF ClosesAssignment
    <3> HIDE DEF agreed, amount
    <3> QED
      BY <1>3, <1>12, <2>2, <3>1
  <2>4. /\ app'[a].status = "Hired" /\ app'[a].workStatus = "Completed"
        /\ app'[a].paymentStatus = "Paid" /\ app'[a].paidAmount = agreed
        /\ app'[a].agreedAmount = agreed
    <3> DEFINE d == DecidedApplication(app[a], s)
    <3>1. s.alreadyPaid + s.worker = agreed
      BY <2>2, <2>3
    <3>2. d = [app[a] EXCEPT !.paymentStatus = "Paid", !.paidAmount = agreed,
                             !.workStatus = "Completed"]
      <4>1. ~ (s.outstanding > 0) /\ agreed >= agreed
        BY <1>3, <2>2
      <4> QED
        BY <2>3, <3>1, <4>1 DEF DecidedApplication
    <3>3. /\ d.status = app[a].status /\ d.workStatus = "Completed"
          /\ d.paymentStatus = "Paid" /\ d.paidAmount = agreed /\ d.agreedAmount = agreed
          /\ d \in Application
      BY <1>1, <2>2, <3>2 DEF Application, PaymentStatus, WorkStatus
    <3>4. app'[a] = [d EXCEPT !.disputePending = FALSE]
      BY <1>1, <1>4, <1>12
    <3> HIDE DEF d, agreed
    <3> QED
      BY <2>1, <3>3, <3>4 DEF Application
  <2>5. DocsOK(a)' /\ StillOwed(a)' = 0 /\ Stays(a)
    <3>1. HireOK(a)'
      BY <1>7, <2>2, <2>4 DEF HireOK
    <3>2. FreshOK(a)' /\ RequestOK(a)'
      BY <2>4 DEF FreshOK, RequestOK, IsAssignment
    <3>3. ReferenceOK(a)'
      BY <1>2, <1>4, <2>1 DEF DocsOK, ReferenceOK
    <3>4. StillOwed(a)' = 0 /\ Stays(a)
      BY <2>1, <2>2, <2>4 DEF StillOwed, Stays
    <3> QED
      BY <1>8, <1>9, <3>1, <3>2, <3>3, <3>4 DEF DocsOK
  <2>6. /\ DocsInv' /\ \A b \in Apps : Stays(b)
        /\ \A b \in Apps \ {a} : StillOwed(b)' = StillOwed(b)
    BY <1>5, <1>7, <2>5, OthersSame DEF SameClaim, SameWork
  <2>7. ~ Over
    <3>1. a \in Unfinished(app)
      BY <2>1, <2>2 DEF Unfinished, Hires
    <3> QED
      BY <1>1, <3>1 DEF JobOK
  <2>8. Hires(app') = Hires(app)
    BY <1>5, <2>1, <2>4 DEF Hires, Same
  <2>9. /\ AmountOf(wallet') + AmountOf(pot') + s.worker = AmountOf(wallet) + AmountOf(pot)
        /\ AmountOf(pot') = AmountOf(pot) - s.worker - s.refund
        /\ AmountOf(wallet') >= AmountOf(wallet)
    BY <1>1, KeepConserves DEF Conserves, Spends
  <2>10. /\ AmountOf(pot) \in Nat /\ pot["EMPLOYER"] \in Nat
         /\ Promised \in Nat /\ Reserved \in Nat /\ Vacant \in Nat
    BY <1>1, OwedType, Terms
  <2> HIDE DEF agreed, completes
  <2>11. AmountOf(pot') = AmountOf(pot) - agreed
    BY <2>2, <2>3, <2>9, <2>10
  <2>12. Promised' = Promised - agreed
    <3>1. Promised' = Promised - StillOwed(a) + StillOwed(a)'
      BY <1>1, <2>6, PromisedChange
    <3> QED
      BY <2>2, <2>5, <2>10, <3>1
  <2>13. Reserved' = Reserved
    BY ReservedSame
  <2>14. Vacant' = Vacant
    <3>1. job'.hiredCount = job.hiredCount
      BY <1>1, <2>8 DEF CapacityRespected
    <3> QED
      BY <1>7, <3>1 DEF Vacant
  <2>15. EmployerLast
    BY <1>1, <1>3, <1>4, SpendsEmployerLast
  <2>16. completes => Over' /\ ActiveOffers(offer) = {} /\ AmountOf(pot') = 0
    <3> SUFFICES ASSUME completes
                 PROVE  Over' /\ ActiveOffers(offer) = {} /\ AmountOf(pot') = 0
      OBVIOUS
    <3>1. Over'
      BY <1>7 DEF Over, TerminalJobStatuses
    <3>2. job.hiredCount >= job.positionsNeeded /\ Unfinished(app') = {}
      BY DEF completes
    <3>3. ActiveOffers(offer) = {}
      <4>1. /\ job.hiredCount \in Nat /\ job.positionsNeeded \in Nat
            /\ job.hiredCount + job.reservedOfferCount <= job.positionsNeeded
            /\ job.reservedOfferCount = Cardinality(ActiveOffers(offer))
        BY <1>1, Terms DEF CapacityRespected
      <4>2. Cardinality(ActiveOffers(offer)) \in Nat /\ IsFiniteSet(ActiveOffers(offer))
        BY CountType
      <4>3. Cardinality(ActiveOffers(offer)) = 0
        BY <3>2, <4>1, <4>2
      <4> QED
        BY <4>2, <4>3, FS_EmptySet
    <3>4. Reserved = 0
      <4>1. \A b \in Apps : offer[b].status = "none"
        BY <1>1, <3>3 DEF ActiveOffers, Offer
      <4>2. \A b \in Apps : offer[b].extra = 0
        BY <4>1 DEF FundsInv, MoreInv, DocsInv, DocsOK, OfferOK
      <4> QED
        BY <4>2, ReservedZero
    <3>5. Promised' = 0
      <4>1. \A b \in Apps : StillOwed(b)' = 0
        <5>1. ASSUME NEW b \in Apps PROVE StillOwed(b)' = 0
          <6>1. app'[b].status = "Hired" => app'[b].workStatus \in {"Completed", "Cancelled"}
            BY <3>2 DEF Unfinished, Hires
          <6>2. HireOK(b)'
            BY <2>6 DEF DocsInv, DocsOK
          <6> QED
            BY <6>1, <6>2 DEF HireOK, StillOwed
        <5> QED
          BY <5>1
      <4> DEFINE g == [b \in Apps |-> StillOwed(b)']
      <4>2. IsFiniteSet(Apps) /\ IsFiniteSet({}) /\ \A b \in Apps : g[b] = 0
        BY <4>1, ScopeAssumption, FS_EmptySet
      <4>3. Promised' = Sum(g, Apps)
        BY DEF Promised
      <4> HIDE DEF g
      <4>4. Sum(g, Apps) = Sum(g, {})
        BY <4>2, SumOfPart
      <4>5. Sum(g, {}) = 0
        BY <4>2, SumStep
      <4> QED
        BY <4>3, <4>4, <4>5
    <3>6. AmountOf(pot) >= Promised + Reserved /\ AmountOf(pot) <= Promised + Reserved + Vacant
      BY DEF FundsInv, MoreInv, FundsOK
    <3>7. Vacant = 0
      BY <1>1, <3>2, Terms
    <3>8. AmountOf(pot') = 0
      BY <2>2, <2>10, <2>11, <2>12, <3>4, <3>5, <3>6, <3>7
    <3> QED
      BY <3>1, <3>3, <3>8
  <2>17. ~ completes => ~ Over'
    BY <1>7, <2>7 DEF SameJob
  <2>18. ~ completes /\ Cardinality(Hires(app)) >= job.positionsNeeded => Unfinished(app') # {}
    <3>1. r.paymentStatus = "Paid"
      <4>1. app'[a] = r
        BY <1>1, <1>4
      <4> HIDE DEF r
      <4> QED
        BY <2>4, <4>1
    <3>2. job.hiredCount = Cardinality(Hires(app))
      BY <1>1 DEF CapacityRespected
    <3> HIDE DEF r
    <3> QED
      BY <1>6, <3>1, <3>2 DEF completes
  <2>19. JobOK'
    <3>1. job'.cancellationPending => job'.closedManually /\ ActiveOffers(offer') = {}
      BY <1>1, <1>7 DEF JobOK
    <3>2. Hires(app') # {} => job'.hireConfirmed
      BY <1>1, <1>7, <2>8 DEF JobOK
    <3>3. Over' => ActiveOffers(offer') = {} /\ Unfinished(app') = {} /\ AmountOf(pot') = 0
      BY <2>16, <2>17 DEF completes
    <3>4. ~ Over' /\ Cardinality(Hires(app')) >= job'.positionsNeeded => Unfinished(app') # {}
      BY <1>7, <2>8, <2>16, <2>18
    <3>5. job'.status # "Cancelled"
      <4>1. CASE completes
        BY <1>7, <4>1
      <4>2. CASE ~ completes
        BY <2>17, <4>2 DEF Over, TerminalJobStatuses
      <4> QED
        BY <4>1, <4>2
    <3> QED
      BY <3>1, <3>2, <3>3, <3>4, <3>5 DEF JobOK
  <2>20. FundsOK'
    <3>1. Slack' - Slack = Vacant' - Vacant /\ Vacant' >= Vacant
      BY <2>2, <2>10, <2>11, <2>12, <2>13, <2>14 DEF Slack
    <3>2. Firm' => Firm
      BY <1>7, <2>7 DEF Firm
    <3>3. \/ pot'["EMPLOYER"] >= pot["EMPLOYER"] /\ Reserved' <= Reserved
          \/ pot'["EMPLOYER"] = AmountOf(pot')
      BY <2>10, <2>13, <2>15 DEF EmployerLast
    <3> QED
      BY <1>1, <3>1, <3>2, <3>3, FundsStep
  <2>21. Pays
    <3>1. \A b \in Apps : received[b] \in Nat /\ StillOwed(b) \in Nat
      BY <1>1, OwedType
    <3>2. \A b \in Apps \ {a} : /\ received'[b] >= received[b]
                                /\ StillOwed(b)' + (received'[b] - received[b]) <= StillOwed(b)
      <4> TAKE b \in Apps \ {a}
      <4>1. received'[b] = received[b] /\ StillOwed(b)' = StillOwed(b)
        BY <1>1, <1>4, <2>6
      <4> QED
        BY <3>1, <4>1
    <3>3. /\ received'[a] >= received[a]
          /\ StillOwed(a)' + (received'[a] - received[a]) <= StillOwed(a)
      <4>1. received'[a] = 0 + agreed /\ received[a] = 0
        BY <1>1, <1>4, <2>2, <2>3
      <4> QED
        BY <2>2, <2>5, <4>1
    <3> QED
      BY <2>7, <2>9, <3>2, <3>3 DEF Pays
  <2> QED
    BY <2>6, <2>7, <2>19, <2>20, <2>21, Concludes DEF Moved
<1> QED
  BY <1>3, <1>11, <1>12

\* A case that is saved moves on, and nothing else does.
LEMMA SaveAdvances ==
  ASSUME FundsInv, BaseInv', NEW u \in saving, SaveCase(u)
  PROVE  Advances
<1> DEFINE a == u.case
           d == Saved(dispute[a], u)
<1>1. /\ a \in Apps /\ dispute \in [Apps -> Dispute] /\ dispute[a] \in Dispute
      /\ u.settles \in BOOLEAN /\ u.restarts = FALSE /\ CallOK(u) /\ DisputeOK(a)
  BY DEF FundsInv, BaseInv, PaidInv, TypeOK, Update, MoreInv, DocsInv, DocsOK,
         CallsInv, CallOK
<1>2. /\ dispute'[a] = d /\ \A b \in Apps \ {a} : dispute'[b] = dispute[b]
      /\ UNCHANGED << job, app, offer, cancellation, pot, wallet, received, references >>
  BY <1>1 DEF SaveCase
<1>3. /\ d.status = dispute[a].status /\ d.active = dispute[a].active
      /\ d.kind = dispute[a].kind /\ d.disputedAmount = dispute[a].disputedAmount
      /\ d.stage = u.stage /\ d.settled = (u.settles \/ dispute[a].settled)
      /\ d.settlement = IF u.settles THEN u.settlement ELSE dispute[a].settlement
  BY <1>1 DEF Saved, Dispute
<1> HIDE DEF a, d
<1>4. \A b \in Apps \ {a} : Same(b)
  BY <1>2 DEF Same
<1>5. GoesOn(a) /\ StillOwed(a)' = StillOwed(a)
  BY <1>2 DEF GoesOn, StillOwed
<1>6. RequestOK(a)'
  BY <1>1, <1>2, <1>5, GoesOnDocs
<1>7. CallOK(u) /\ a = u.case
  BY <1>1 DEF a
<1>8. DisputeOK(a)'
  BY <1>1, <1>2, <1>3, <1>5, <1>7 DEF DisputeOK, CallOK
<1> QED
  BY <1>1, <1>2, <1>4, <1>5, <1>6, <1>8, NotesAdvance

\* A case opened about all that is unpaid.
LEMMA OpenAdvances ==
  ASSUME FundsInv, BaseInv', NEW a \in Apps, NEW amount, GoesOn(a),
         \A b \in Apps \ {a} : app'[b] = app[b],
         dispute' = [dispute EXCEPT ![a] = NewDispute("other", amount)],
         amount = StillOwed(a),
         UNCHANGED << job, offer, cancellation, pot, wallet, received, references >>
  PROVE  Advances
<1>1. dispute \in [Apps -> Dispute]
  BY DEF FundsInv, BaseInv, PaidInv, TypeOK
<1>2. dispute'[a] = NewDispute("other", amount) /\ \A b \in Apps \ {a} : dispute'[b] = dispute[b]
  BY <1>1
<1>3. \A b \in Apps \ {a} : Same(b)
  BY <1>2 DEF Same
<1>4. RequestOK(a)' /\ SameWork(a)
  BY GoesOnDocs
<1>5. StillOwed(a)' = amount
  BY <1>4 DEF SameWork
<1>6. DisputeOK(a)'
  BY <1>2, <1>5 DEF DisputeOK, NewDispute
<1> QED
  BY <1>3, <1>4, <1>6, NotesAdvance

LEMMA OpenDisputeAdvances ==
  ASSUME FundsInv, BaseInv', NEW a \in Apps, OpenDispute(a)
  PROVE  Advances
<1> DEFINE settled == \/ app[a].paymentStatus \in {"Paid", "Refunded", "Partially paid"}
                      \/ app[a].status = "Cancelled"
           contested == IF settled THEN 0 ELSE Unpaid(app[a])
<1>1. app \in [Apps -> Application] /\ app[a] \in Application
  BY DEF FundsInv, BaseInv, PaidInv, TypeOK
<1>2. /\ app[a].status \in {"Hired", "Cancelled"}
      /\ dispute' = [dispute EXCEPT ![a] = NewDispute("other", contested)]
      /\ app' = [app EXCEPT ![a].disputePending = contested > 0]
      /\ UNCHANGED << job, offer, cancellation, pot, wallet, received, references >>
  BY DEF OpenDispute, OpenCase
<1>3. contested = StillOwed(a)
  <2>1. HireOK(a)
    BY DEF FundsInv, MoreInv, DocsInv, DocsOK
  <2>2. CASE app[a].status = "Cancelled"
    BY <2>2 DEF StillOwed
  <2>3. CASE app[a].status = "Hired"
    BY <2>1, <2>3 DEF StillOwed, HireOK
  <2> QED
    BY <1>2, <2>2, <2>3
<1> HIDE DEF contested
<1>4. GoesOn(a) /\ \A b \in Apps \ {a} : app'[b] = app[b]
  BY <1>1, <1>2 DEF GoesOn, Application
<1> QED
  BY <1>2, <1>3, <1>4, OpenAdvances

LEMMA OpenPaymentDisputeAdvances ==
  ASSUME PlainCases, FundsInv, BaseInv', NEW a \in Apps,
         NEW amount \in 1 .. app[a].agreedAmount, OpenPaymentDispute(a, amount)
  PROVE  Advances
<1> DEFINE held == FundsHeld(a) > 0
<1>1. app \in [Apps -> Application] /\ app[a] \in Application
  BY DEF FundsInv, BaseInv, PaidInv, TypeOK
<1>2. /\ app[a].status = "Hired" /\ app[a].workStatus = "Submitted"
      /\ app[a].paymentStatus \in {"Secured", "Authorized"}
      /\ amount = RemainingAgreed(a)
      /\ dispute' = [dispute EXCEPT ![a] = NewDispute("other", amount)]
      /\ app' = [app EXCEPT ![a].paymentStatus = "Disputed", ![a].disputePending = held]
      /\ UNCHANGED << job, offer, cancellation, pot, wallet, received, references >>
  BY DEF OpenPaymentDispute, OpenCase, PlainCases
<1> HIDE DEF held
<1>3. amount = StillOwed(a)
  BY <1>2, DueClaim
<1>4. /\ app'[a] = [app[a] EXCEPT !.paymentStatus = "Disputed", !.disputePending = held]
      /\ \A b \in Apps \ {a} : app'[b] = app[b]
  BY <1>1, <1>2
<1>5. /\ app'[a].status = app[a].status /\ app'[a].workStatus = app[a].workStatus
      /\ app'[a].agreedAmount = app[a].agreedAmount /\ app'[a].paidAmount = app[a].paidAmount
      /\ app'[a].paymentStatus = "Disputed"
  BY <1>1, <1>4 DEF Application
<1>6. GoesOn(a)
  BY <1>2, <1>5 DEF GoesOn
<1> QED
  BY <1>2, <1>3, <1>4, <1>6, OpenAdvances

\* A proposal divides all that is disputed.
LEMMA ProposalDivides ==
  ASSUME FundsInv, NEW a \in Apps, dispute[a].active, NEW type \in SettlementType,
         NEW share \in Shares(a, type), NEW s, s.type = type,
         s.worker = share[1], s.refund = share[2],
         s.outstanding = IF type = "FULL_REFUND" THEN 0
           ELSE Monus(dispute[a].disputedAmount, share[1] + share[2])
  PROVE  Divides(s, dispute[a].disputedAmount)
<1> DEFINE amount == dispute[a].disputedAmount
<1>1. /\ TypeOK /\ dispute[a] \in Dispute /\ dispute \in [Apps -> Dispute]
      /\ DisputeOK(a)
  BY DEF FundsInv, BaseInv, PaidInv, TypeOK, MoreInv, DocsInv, DocsOK
<1>4. dispute[a].active /\ amount = StillOwed(a) /\ amount \in Nat
  BY <1>1, OwedType DEF DisputeOK
<1>5. Available(a) = amount
  <2>1. RemainingJobFunds \in Nat /\ RemainingJobFunds >= StillOwed(a)
    <3>1. AmountOf(pot) \in Nat /\ Promised \in Nat /\ Reserved \in Nat
          /\ StillOwed(a) \in Nat
      BY <1>1, OwedType, Terms DEF FundsInv, BaseInv
    <3>2. AmountOf(pot) >= Promised + Reserved
      BY DEF FundsInv, MoreInv, FundsOK
    <3>3. StillOwed(a) <= Promised
      BY <1>1, ClaimWithin
    <3> QED
      BY <3>1, <3>2, <3>3 DEF RemainingJobFunds
  <2>2. RemainingAgreed(a) \in Nat /\ RemainingAgreed(a) >= StillOwed(a)
    <3>1. RemainingAgreed(a) \in Nat
      BY <1>1, SnapshotType
    <3>2. CASE app[a].status = "Hired" /\ app[a].paymentStatus # "Paid"
      BY <3>1, <3>2, DueClaim
    <3>3. CASE ~ (app[a].status = "Hired" /\ app[a].paymentStatus # "Paid")
      BY <3>1, <3>3 DEF StillOwed
    <3> QED
      BY <3>2, <3>3
  <2> QED
    BY <1>4, <2>1, <2>2 DEF Available, FundsHeld, Least
<1>6. Divides(s, amount)
  <2>1. /\ share[1] \in Nat /\ share[2] \in Nat /\ share[1] + share[2] = amount
        /\ type = "FULL_REFUND" => share[1] = 0
    <3>2. CASE type = "FULL_REFUND"
      <4>1. share = << 0, amount >>
        BY <1>5, <3>2 DEF Shares
      <4> QED
        BY <1>4, <3>2, <4>1
    <3>3. CASE type = "COMPLETE_PAYMENT"
      <4>1. share = << amount, 0 >>
        BY <1>5, <3>3 DEF Shares
      <4> QED
        BY <1>4, <3>3, <4>1
    <3>4. CASE type = "PARTIAL_PAYMENT"
      <4>1. PICK w \in 0 .. amount : share = << w, amount - w >>
        BY <1>5, <3>4 DEF Shares
      <4> QED
        BY <1>4, <3>4, <4>1
    <3> QED
      BY <3>2, <3>3, <3>4 DEF SettlementType
  <2>2. Monus(amount, share[1] + share[2]) = 0
    BY <1>4, <2>1 DEF Monus
  <2> QED
    BY <2>1, <2>2 DEF Divides
<1> QED
  BY <1>6

LEMMA ApproveAdvances ==
  ASSUME FundsInv, BaseInv', NEW a \in Apps, ApproveSettlement(a)
  PROVE  Advances
<1> DEFINE s == dispute[a].settlement
<1>1. /\ TypeOK /\ dispute[a] \in Dispute /\ dispute \in [Apps -> Dispute]
      /\ DisputeOK(a) /\ RequestOK(a)
  BY DEF FundsInv, BaseInv, PaidInv, TypeOK, MoreInv, DocsInv, DocsOK
<1>2. /\ dispute[a].stage = "PENDING_FINANCE_APPROVAL" /\ AlreadyPaid(a) = s.alreadyPaid
      /\ IF ClosesAssignment(a, s) THEN ResolveCancelledAssignment(a, s.worker, FALSE)
         ELSE KeepAssignment(a, s)
      /\ dispute' = [dispute EXCEPT ![a].status = "resolved", ![a].active = FALSE,
                       ![a].stage = "RESOLVED", ![a].settlement = NoSettlement]
      /\ UNCHANGED offer
  BY DEF ApproveSettlement
<1>3. dispute[a].settled /\ dispute[a].active /\ Divides(s, StillOwed(a))
  BY <1>1, <1>2 DEF DisputeOK
<1>4. s \in Settlement /\ s.worker \in Nat /\ s.refund \in Nat
  BY <1>1 DEF Dispute, Settlement
<1>5. CaseOver(a)
  <2>1. dispute'[a] = [dispute[a] EXCEPT !.status = "resolved", !.active = FALSE,
                       !.stage = "RESOLVED", !.settlement = NoSettlement]
        /\ \A b \in Apps \ {a} : dispute'[b] = dispute[b]
    BY <1>1, <1>2
  <2>2. dispute'[a].active = FALSE /\ dispute'[a].status = "resolved"
        /\ dispute'[a].stage = "RESOLVED"
    BY <1>1, <2>1 DEF Dispute
  <2> QED
    BY <2>1, <2>2 DEF CaseOver
<1> HIDE DEF s
<1>6. CASE ClosesAssignment(a, s)
  <2>1. app[a].status = "Hired"
    <3>1. CASE dispute[a].kind = "cancellation"
      BY <1>1, <1>3, <3>1 DEF DisputeOK, RequestOK
    <3>2. CASE s.refund > 0
      <4>1. StillOwed(a) # 0
        BY <1>3, <1>4, <3>2 DEF Divides
      <4> QED
        BY <4>1 DEF StillOwed
    <3> QED
      BY <1>6, <3>1, <3>2 DEF ClosesAssignment
  <2>2. UnpaidIfRetained(a, s.worker, FALSE)
    BY DEF UnpaidIfRetained
  <2> QED
    BY <1>2, <1>4, <1>5, <1>6, <2>1, <2>2, ResolveAdvances
<1>7. CASE ~ ClosesAssignment(a, s)
  BY <1>2, <1>3, <1>4, <1>5, <1>7, KeepAdvances DEF s
<1> QED
  BY <1>6, <1>7

LEMMA DisputeStepAdvances ==
  ASSUME PlainCases, FundsInv, BaseInv', NEW a \in Apps, DisputeStep(a)
  PROVE  Advances
<1>1. ASSUME NEW u, Reads(u) PROVE Advances
  <2>1. UNCHANGED << job, app, offer, cancellation, dispute, pot, wallet, received,
                     references >>
    BY <1>1 DEF Reads
  <2>2. (\A b \in Apps : Same(b)) /\ SameJob
    BY <2>1 DEF Same, SameJob, Over
  <2> QED
    BY <2>1, <2>2, QuietPosting
<1>2. ASSUME NEW s, AssignSupport(a, s) \/ RequestEvidence(a, s)
                      \/ CompleteInvestigation(a, s)
      PROVE  Advances
  BY <1>1, <1>2 DEF AssignSupport, RequestEvidence, CompleteInvestigation
<1>3. ASSUME NEW f, NEW type, ProposeSettlement(a, f, type) PROVE Advances
  BY <1>1, <1>3 DEF ProposeSettlement
<1>4. ~ SubmitAppeal(a)
  BY DEF SubmitAppeal, PlainCases
<1> QED
  BY <1>2, <1>3, <1>4, OpenDisputeAdvances, OpenPaymentDisputeAdvances,
     ApproveAdvances DEF DisputeStep

(* ---- the posting ---------------------------------------------------------------------- *)

\* Documents, claims and escrow stay: only the job's own switches move.
LEMMA StandsStill ==
  ASSUME FundsInv, BaseInv', job'.salary = job.salary,
         job'.positionsNeeded = job.positionsNeeded,
         UNCHANGED << app, offer, cancellation, dispute, received, references >>
  PROVE  /\ DocsInv' /\ \A b \in Apps : Stays(b) /\ StillOwed(b)' = StillOwed(b)
         /\ Promised' = Promised /\ Reserved' = Reserved /\ Vacant' = Vacant
<1>1. \A b \in Apps : DocsOK(b)' /\ Stays(b) /\ StillOwed(b)' = StillOwed(b)
  <2>1. \A b \in Apps : Same(b)
    BY DEF Same
  <2> QED
    BY <2>1, SameDocs DEF SameClaim, SameWork, FundsInv, MoreInv
<1>2. Promised' = Promised /\ Reserved' = Reserved
  BY <1>1, PromisedSame, ReservedSame
<1>3. job'.hiredCount = job.hiredCount
  BY DEF FundsInv, BaseInv, CapacityRespected
<1> QED
  BY <1>1, <1>2, <1>3 DEF DocsInv, Vacant

LEMMA ReopenAdvances ==
  ASSUME FundsInv, BaseInv', ReopenJob
  PROVE  Advances
<1> DEFINE open == [job EXCEPT !.closedManually = FALSE, !.archived = FALSE]
           k == SyncCapacity(open, app, offer)
<1>1. TypeOK /\ CapacityRespected /\ JobOK /\ FundsOK /\ job \in Job
  BY DEF FundsInv, BaseInv, PaidInv, TypeOK, MoreInv
<1>2. /\ ~ Over /\ ~ job.cancellationPending
      /\ RemainingJobFunds >= RequiredJobFunds(job, app, offer)
      /\ job' = k
      /\ UNCHANGED << app, offer, cancellation, dispute, pot, wallet, received, references >>
  BY DEF ReopenJob, Over
<1>3. /\ open \in Job /\ open.positionsNeeded = job.positionsNeeded /\ open.salary = job.salary
      /\ open.hireConfirmed = job.hireConfirmed /\ open.status = job.status
      /\ open.cancellationPending = job.cancellationPending
  BY <1>1 DEF Job
<1> HIDE DEF open
<1>4. /\ SameTerms(open, k) /\ k.cancellationPending = open.cancellationPending
      /\ k.status \in TerminalJobStatuses => open.status \in TerminalJobStatuses
  BY <1>3, SyncCounts
<1> HIDE DEF k
<1>5. /\ job'.positionsNeeded = job.positionsNeeded /\ job'.salary = job.salary
      /\ job'.hireConfirmed = job.hireConfirmed
      /\ job'.cancellationPending = job.cancellationPending
      /\ ~ Over'
  BY <1>2, <1>3, <1>4 DEF SameTerms, Over
<1>6. /\ DocsInv' /\ \A b \in Apps : Stays(b) /\ StillOwed(b)' = StillOwed(b)
      /\ Promised' = Promised /\ Reserved' = Reserved /\ Vacant' = Vacant
  BY <1>2, <1>5, StandsStill
<1>7. JobOK'
  <2>1. job'.status # "Cancelled"
    BY <1>5 DEF Over, TerminalJobStatuses
  <2> QED
    BY <1>1, <1>2, <1>5, <2>1 DEF JobOK
<1>8. AmountOf(pot) >= Promised + Reserved + Vacant
  <2>1. \A a \in Apps : OfferOK(a)
    BY DEF FundsInv, MoreInv, DocsInv, DocsOK
  <2>2. RequiredJobFunds(job, app, offer) = Vacant + Promised + Reserved
    BY <1>1, <2>1, RequiredFunds
  <2>3. Promised \in Nat /\ Reserved \in Nat /\ Vacant \in Nat /\ AmountOf(pot) \in Nat
    BY <1>1, OwedType, Terms
  <2>4. AmountOf(pot) >= Vacant + Promised + Reserved
    BY <1>2, <2>2 DEF RemainingJobFunds
  <2> QED
    BY <2>3, <2>4
<1>9. FundsOK'
  <2>1. pot' = pot
    BY <1>2
  <2> QED
    BY <1>1, <1>6, <1>8, <2>1 DEF FundsOK
<1>10. Rests
  BY <1>2, <1>5, <1>6 DEF Rests
<1> QED
  BY <1>2, <1>6, <1>7, <1>9, <1>10, Concludes DEF Moved

\* Closing recruitment gives nothing back unless that was all the posting waited for.
LEMMA CloseAdvances ==
  ASSUME FundsInv, BaseInv', CloseJob
  PROVE  Advances
<1> DEFINE shut == [job EXCEPT !.closedManually = TRUE]
           closed == SyncCapacity(shut, app, offer)
           ends == Finalizes(closed, app, offer)
<1>1. /\ TypeOK /\ CapacityRespected /\ JobOK /\ FundsOK /\ job \in Job
      /\ app \in [Apps -> Application] /\ offer \in [Apps -> Offer]
  BY DEF FundsInv, BaseInv, PaidInv, TypeOK, MoreInv
<1>2. /\ ~ Over /\ ~ job.cancellationPending
      /\ job' = Finalized(closed, app, offer)
      /\ ReleaseFunds(Nothing, Nothing, ends)
      /\ UNCHANGED << app, offer, cancellation, dispute, received, references >>
  BY DEF CloseJob, Over
<1>3. /\ shut \in Job /\ shut.positionsNeeded = job.positionsNeeded /\ shut.salary = job.salary
      /\ shut.hireConfirmed = job.hireConfirmed /\ shut.status = job.status
      /\ shut.cancellationPending = job.cancellationPending
      /\ shut.closedManually
  BY <1>1 DEF Job
<1>4. /\ ~ ends => AmountOf(pot') = AmountOf(pot)
      /\ ends => AmountOf(pot') = 0
      /\ AmountOf(wallet') >= AmountOf(wallet)
  BY <1>1, CloseConserves
<1> HIDE DEF shut
<1>5. /\ SameTerms(shut, closed) /\ closed.cancellationPending = shut.cancellationPending
      /\ closed.status \in TerminalJobStatuses => shut.status \in TerminalJobStatuses
      /\ closed \in Job
  BY <1>1, <1>3, SyncCounts, SyncType
<1>6. ends => /\ ActiveOffers(offer) = {}
              /\ \A h \in Hires(app) : app[h].workStatus = "Completed"
  BY DEF Finalizes
<1> HIDE DEF closed
<1>7. /\ job'.positionsNeeded = job.positionsNeeded /\ job'.salary = job.salary
      /\ job'.hireConfirmed = job.hireConfirmed
      /\ job'.cancellationPending = job.cancellationPending
      /\ job'.closedManually
      /\ job'.status = IF ends THEN "Completed" ELSE closed.status
  <2> DEFINE k == Finalized(closed, app, offer)
  <2>1. /\ SameTerms(closed, k) /\ k.cancellationPending = closed.cancellationPending
        /\ k.status = IF Finalizes(closed, app, offer) THEN "Completed" ELSE closed.status
    BY <1>5, FinalCounts
  <2>2. job' = k
    BY <1>2
  <2> HIDE DEF k
  <2> QED
    BY <1>3, <1>5, <2>1, <2>2 DEF SameTerms
<1> HIDE DEF ends
<1>8. /\ DocsInv' /\ \A b \in Apps : Stays(b) /\ StillOwed(b)' = StillOwed(b)
      /\ Promised' = Promised /\ Reserved' = Reserved /\ Vacant' = Vacant
  BY <1>2, <1>7, StandsStill
<1>9. CASE ends
  <2>1. Over' /\ job'.status # "Cancelled"
    BY <1>7, <1>9 DEF Over, TerminalJobStatuses
  <2>2. Unfinished(app) = {}
    BY <1>6, <1>9 DEF Unfinished
  <2>3. JobOK'
    BY <1>1, <1>2, <1>4, <1>6, <1>7, <1>9, <2>1, <2>2 DEF JobOK
  <2>4. MoreInv'
    BY <1>8, <2>1, <2>3, EndsWell
  <2>5. Pays
    <3>1. \A b \in Apps : received[b] \in Nat /\ StillOwed(b) \in Nat
      BY <1>1, OwedType DEF TypeOK
    <3>2. \A b \in Apps : /\ received'[b] >= received[b]
                          /\ StillOwed(b)' + (received'[b] - received[b]) <= StillOwed(b)
      BY <1>2, <1>8, <3>1
    <3> QED
      BY <1>2, <1>4, <3>2 DEF Pays
  <2> QED
    BY <1>2, <1>8, <2>4, <2>5 DEF Advances, Outcomes, Stays, Moved
<1>10. CASE ~ ends
  <2>1. ~ Over'
    BY <1>2, <1>3, <1>5, <1>7, <1>10 DEF Over
  <2>2. pot' = pot /\ wallet' = wallet
    <3>1. /\ pot' = [w \in Wallets |-> pot[w] - (0 + 0)]
          /\ wallet' = [w \in Wallets |-> wallet[w] + 0]
      BY <1>2, <1>10 DEF ReleaseFunds, Minus, Plus, Nothing
    <3>2. pot \in [Wallets -> Nat] /\ wallet \in [Wallets -> Nat]
      BY <1>1 DEF TypeOK
    <3> QED
      BY <3>1, <3>2
  <2>3. JobOK'
    <3>1. job'.status # "Cancelled"
      BY <2>1 DEF Over, TerminalJobStatuses
    <3> QED
      BY <1>1, <1>2, <1>7, <2>1, <3>1 DEF JobOK
  <2>4. FundsOK'
    <3>1. Firm' => Firm
      BY <1>2, <1>7 DEF Firm
    <3> QED
      BY <1>1, <1>8, <2>2, <3>1 DEF FundsOK
  <2>5. Rests
    BY <1>2, <1>8, <2>1, <2>2 DEF Rests
  <2> QED
    BY <1>2, <1>8, <2>3, <2>4, <2>5, Concludes DEF Moved
<1> QED
  BY <1>9, <1>10

\* Before the first hire the escrow follows the posting's size and pay.
LEMMA UpdateJobAdvances ==
  ASSUME FundsInv, BaseInv', NEW positions \in 1 .. MaxPositions, NEW salary \in Salaries,
         UpdateJob(positions, salary)
  PROVE  Advances
<1> DEFINE before == job.positionsNeeded * job.salary
           after == positions * salary
           fromEmployer == Least(wallet["EMPLOYER"], after - before)
           added == [w \in Wallets |-> IF w = "EMPLOYER" THEN fromEmployer
                                       ELSE after - before - fromEmployer]
<1>1. /\ TypeOK /\ TypeOK' /\ CapacityRespected /\ CapacityRespected' /\ JobOK /\ FundsOK
      /\ job \in Job
  BY DEF FundsInv, BaseInv, PaidInv, TypeOK, MoreInv
<1>2. /\ ~ job.hireConfirmed /\ ~ Over /\ ~ job.cancellationPending
      /\ job' = [job EXCEPT !.positionsNeeded = positions, !.salary = salary]
      /\ UNCHANGED << app, offer, cancellation, dispute, received, references >>
  BY DEF UpdateJob, Over
<1>3. /\ job'.positionsNeeded = positions /\ job'.salary = salary
      /\ job'.hiredCount = job.hiredCount /\ job'.status = job.status
      /\ job'.hireConfirmed = job.hireConfirmed /\ job'.closedManually = job.closedManually
      /\ job'.cancellationPending = job.cancellationPending
  BY <1>1, <1>2 DEF Job
<1>4. Hires(app) = {} /\ job.hiredCount = 0
  <2>1. Hires(app) = {}
    BY <1>1, <1>2 DEF JobOK
  <2> QED
    BY <1>1, <2>1, FS_EmptySet DEF CapacityRespected
<1>5. ~ Over'
  BY <1>2, <1>3 DEF Over
<1>6. \A b \in Apps : StillOwed(b)' = StillOwed(b)
  BY <1>2 DEF StillOwed
<1>7. DocsInv'
  <2>1. ASSUME NEW b \in Apps PROVE DocsOK(b)'
    <3>1. DocsOK(b) /\ app[b].status # "Hired"
      BY <1>4 DEF FundsInv, MoreInv, DocsInv, Hires
    <3>2. HireOK(b)'
      BY <1>2, <3>1 DEF HireOK
    <3>3. OfferOK(b)' /\ FreshOK(b)' /\ RequestOK(b)' /\ ReferenceOK(b)'
      BY <1>2, <3>1 DEF DocsOK, OfferOK, FreshOK, RequestOK, ReferenceOK, IsAssignment
    <3>4. DisputeOK(b)'
      BY <1>2, <1>6, <3>1 DEF DocsOK, DisputeOK
    <3> QED
      BY <3>2, <3>3, <3>4 DEF DocsOK
  <2> QED
    BY <2>1 DEF DocsInv
<1>8. \A b \in Apps : Stays(b)
  BY <1>2 DEF Stays
<1>9. Promised' = Promised /\ Reserved' = Reserved
  BY <1>2, <1>6, PromisedSame, ReservedSame
<1>10. /\ AmountOf(pot') = AmountOf(pot) + (after - before)
       /\ before \in Nat /\ after \in Nat
  BY <1>1, UpdateJobConserves
<1>11. Vacant = before /\ Vacant' = after
  <2>1. job.positionsNeeded \in Nat /\ positions \in Nat
    BY <1>1, Terms, AmountsAssumption
  <2>2. job.positionsNeeded - job.hiredCount = job.positionsNeeded
        /\ job'.positionsNeeded - job'.hiredCount = positions
    BY <1>3, <1>4, <2>1
  <2> QED
    BY <1>3, <2>2 DEF Vacant
<1>12. JobOK'
  <2>1. Unfinished(app') = {} /\ Cardinality(Hires(app')) = 0
    BY <1>2, <1>4, FS_EmptySet DEF Unfinished
  <2>2. ~ (0 >= positions)
    BY AmountsAssumption
  <2> QED
    BY <1>1, <1>2, <1>3, <1>4, <1>5, <2>1, <2>2 DEF JobOK, Over, TerminalJobStatuses
<1>13. \/ pot'["EMPLOYER"] >= pot["EMPLOYER"] /\ Reserved' <= Reserved
       \/ pot'["EMPLOYER"] = AmountOf(pot')
  <2>1. pot["EMPLOYER"] \in Nat /\ wallet["EMPLOYER"] \in Nat /\ Reserved \in Nat
    BY <1>1, OwedType DEF TypeOK, Wallets
  <2> HIDE DEF before, after
  <2>2. CASE after >= before
    <3>1. pot' = Plus(pot, added)
      BY <2>2 DEF UpdateJob, before, after
    <3>2. pot'["EMPLOYER"] = pot["EMPLOYER"] + fromEmployer
      BY <3>1 DEF Plus, Wallets
    <3>3. fromEmployer \in Nat
      BY <1>10, <2>1, <2>2 DEF Least
    <3> HIDE DEF fromEmployer
    <3> QED
      BY <1>9, <2>1, <3>2, <3>3
  <2>3. CASE ~ (after >= before)
    <3>1. ReleaseFunds(Nothing, JobSpendingSources(pot, before - after), FALSE)
      BY <2>3 DEF UpdateJob, before, after
    <3>2. before - after \in Nat
      BY <1>10, <2>3
    <3>3. EmployerLast
      BY <1>1, <3>1, <3>2, SpendsEmployerLast
    <3> QED
      BY <1>9, <2>1, <3>3 DEF EmployerLast
  <2> QED
    BY <2>2, <2>3
<1> HIDE DEF before, after
<1>14. FundsOK'
  <2>1. Firm
    BY <1>2 DEF Firm
  <2>2. Slack' - Slack = Vacant' - Vacant
    <3>1. AmountOf(pot) \in Nat /\ Promised \in Nat /\ Reserved \in Nat
      BY <1>1, OwedType, Terms
    <3> QED
      BY <1>9, <1>10, <1>11, <3>1 DEF Slack
  <2> QED
    BY <1>1, <1>13, <2>1, <2>2, FundsStep
<1>15. Adjusts
  BY <1>2, <1>5, <1>6 DEF Adjusts
<1> QED
  BY <1>2, <1>7, <1>8, <1>12, <1>14, <1>15, Concludes DEF Moved

\* Nothing is reserved once every offer is withdrawn.
LEMMA ReservedGone ==
  (\A b \in Apps : offer[b].extra = 0) => Reserved = 0
BY ReservedZero

\* The end of recruitment returns the extras and the pay of work not begun.
LEMMA RequestAdvances ==
  ASSUME FundsInv, BaseInv', NEW workerPayment \in Proposals,
         RequestPostingCancellation(workerPayment)
  PROVE  Advances
<1> DEFINE hired == {b \in Hires(app) : app[b].workStatus # "Completed"}
           idle == {a \in hired : app[a].workStatus = "Not started"}
           extras == SumOver([a \in Apps |-> offer[a].extra], ActiveOffers(offer))
           h == [a \in Apps |-> Unpaid(app[a])]
           unused == SumOver(h, idle)
           stopped == [job EXCEPT !.cancellationPending = TRUE,
                                  !.closedManually = TRUE, !.status = "Closed"]
           synced == SyncCapacity(stopped, app', offer')
           ends == EndsPosting(synced, app')
<1>1. /\ TypeOK /\ TypeOK' /\ CapacityRespected /\ CapacityRespected' /\ JobOK /\ FundsOK
      /\ app \in [Apps -> Application] /\ offer \in [Apps -> Offer] /\ job \in Job
      /\ app' \in [Apps -> Application] /\ offer' \in [Apps -> Offer]
  BY DEF FundsInv, BaseInv, PaidInv, TypeOK, MoreInv
<1>2. /\ ~ Over /\ ~ job.cancellationPending
      /\ \A b \in Apps : ~ ActiveDispute(b)
      /\ \A b \in hired : Cancellable(b)
      /\ offer' = [a \in Apps |-> [status |-> "none", extra |-> 0]]
      /\ job' = EndPosting(synced, app')
      /\ UNCHANGED << dispute, received >>
  BY DEF RequestPostingCancellation, Over
<1>3. app' = [a \in Apps |->
           IF a \in idle THEN CancelledApplication(app[a], 0)
           ELSE IF a \in hired THEN [app[a] EXCEPT !.cancellationPending = TRUE]
           ELSE IF app[a].status \in {"Applied", "Offer Sent", "Position filled"}
                THEN [app[a] EXCEPT !.status = "Cancelled"]
           ELSE app[a]]
  BY DEF RequestPostingCancellation
<1>4. cancellation' = [a \in Apps |->
           IF a \in idle THEN [status |-> "resolved", workerPayment |-> 0]
           ELSE IF a \in hired
                THEN [status |-> "pending", workerPayment |-> workerPayment]
           ELSE cancellation[a]]
  BY DEF RequestPostingCancellation
<1>5. \A b \in Apps \ idle, kind \in {"cancellation-payment", "assignment-cancellation-refund"} :
         << kind, b >> \in references' => << kind, b >> \in references
  BY DEF RequestPostingCancellation
<1>6. /\ ~ ends => /\ AmountOf(pot') = AmountOf(pot) - extras - unused
      /\ ends => AmountOf(pot') = 0
      /\ AmountOf(wallet') >= AmountOf(wallet)
  BY <1>1, RequestConserves
<1>7. \A b \in Apps : offer'[b].extra = 0 /\ offer'[b].status = "none" /\ OfferOK(b)'
  BY <1>2 DEF OfferOK
<1>8. ActiveOffers(offer') = {} /\ Reserved' = 0
  <2>1. (\A b \in Apps : offer[b].extra = 0)' => (Reserved = 0)'
    BY ReservedGone, PTL
  <2> QED
    BY <1>7, <2>1 DEF ActiveOffers
<1>9. /\ stopped \in Job /\ stopped.positionsNeeded = job.positionsNeeded
      /\ stopped.salary = job.salary /\ stopped.hireConfirmed = job.hireConfirmed
      /\ stopped.cancellationPending /\ stopped.closedManually /\ stopped.status = "Closed"
  BY <1>1 DEF Job, JobStatus
<1> HIDE DEF stopped
<1>10. /\ SameTerms(stopped, synced) /\ synced.cancellationPending
       /\ synced.status = "Closed" /\ synced \in Job
  BY <1>1, <1>9, SyncCounts, SyncType
<1> HIDE DEF synced
<1>11. ends <=> Unfinished(app') = {}
  BY <1>10 DEF EndsPosting
<1>12. /\ job'.positionsNeeded = job.positionsNeeded /\ job'.salary = job.salary
       /\ job'.hireConfirmed = job.hireConfirmed /\ job'.closedManually
       /\ ends => job'.status = "Cancelled" /\ job'.cancellationPending = FALSE
       /\ ~ ends => job'.status = "Closed"
  <2>1. CASE ends
    <3>1. job' = [synced EXCEPT !.status = "Cancelled", !.cancellationPending = FALSE]
      BY <1>2, <2>1 DEF EndPosting
    <3> QED
      BY <1>9, <1>10, <2>1, <3>1 DEF SameTerms, Job
  <2>2. CASE ~ ends
    <3>1. job' = synced
      BY <1>2, <2>2 DEF EndPosting
    <3> QED
      BY <1>9, <1>10, <2>2, <3>1 DEF SameTerms
  <2> QED
    BY <2>1, <2>2
<1>13. (ends => Over') /\ (~ ends => ~ Over')
  BY <1>12 DEF Over, TerminalJobStatuses
<1> HIDE DEF ends
\* What becomes of each application.
<1>14. \A b \in Apps : DocsOK(b)
  BY DEF FundsInv, MoreInv, DocsInv
<1>15. ASSUME NEW b \in Apps PROVE DisputeOK(b)'
  <2>1. /\ ~ dispute[b].active /\ dispute[b].status # "investigating"
        /\ dispute[b].stage # "PENDING_FINANCE_APPROVAL"
        /\ dispute[b].stage = "FOR_FINANCE_REVIEW" => dispute[b].settled
    BY <1>2, <1>14 DEF DocsOK, DisputeOK, ActiveDispute
  <2>2. dispute' = dispute
    BY <1>2
  <2> QED
    BY <2>1, <2>2 DEF DisputeOK
<1>16. ASSUME NEW b \in idle
       PROVE  /\ b \in Apps /\ app'[b].status = "Cancelled" /\ DocsOK(b)' /\ Stays(b)
              /\ StillOwed(b)' = 0 /\ h[b] = StillOwed(b) /\ h[b] \in Nat
  <2>1. b \in Apps /\ app[b].status = "Hired" /\ app[b].workStatus = "Not started"
        /\ app[b].paymentStatus # "Paid"
    BY <1>2 DEF Hires, Cancellable
  <2>2. app'[b] = CancelledApplication(app[b], 0) /\ cancellation'[b].status = "resolved"
    BY <1>3, <1>4, <2>1
  <2>3. app'[b].status = "Cancelled" /\ app'[b].workStatus = "Cancelled"
    <3>1. app[b] \in Application
      BY <1>1, <2>1
    <3>2. /\ CancelledApplication(app[b], 0).status = "Cancelled"
          /\ CancelledApplication(app[b], 0).workStatus = "Cancelled"
      BY <3>1 DEF CancelledApplication, Application
    <3> QED
      BY <2>2, <3>2
  <2>4. HireOK(b)' /\ FreshOK(b)' /\ RequestOK(b)' /\ ReferenceOK(b)'
    BY <2>2, <2>3 DEF HireOK, FreshOK, RequestOK, ReferenceOK
  <2>5. Stays(b) /\ StillOwed(b)' = 0
    BY <2>1, <2>3 DEF Stays, StillOwed
  <2>6. h[b] = StillOwed(b) /\ StillOwed(b) \in Nat
    BY <1>1, <2>1, OwedType DEF StillOwed
  <2> HIDE DEF h, idle
  <2> QED
    BY <1>7, <1>15, <2>1, <2>3, <2>4, <2>5, <2>6 DEF DocsOK
<1>17. ASSUME NEW b \in Apps \ idle
       PROVE  DocsOK(b)' /\ SameWork(b) /\ Stays(b)
  <2>1. CASE b \in hired
    <3>1. app[b].status = "Hired" /\ app[b].workStatus # "Completed"
          /\ app[b].workStatus # "Not started"
      BY <2>1 DEF Hires
    <3>2. app'[b] = [app[b] EXCEPT !.cancellationPending = TRUE]
      BY <1>3, <2>1
    <3>3. /\ app'[b].status = app[b].status /\ app'[b].workStatus = app[b].workStatus
          /\ app'[b].paymentStatus = app[b].paymentStatus
          /\ app'[b].agreedAmount = app[b].agreedAmount
          /\ app'[b].paidAmount = app[b].paidAmount
      BY <1>1, <3>2 DEF Application
    <3>4. HireOK(b)' /\ FreshOK(b)'
      BY <1>12, <1>14, <3>3 DEF DocsOK, HireOK, FreshOK, IsAssignment
    <3>5. RequestOK(b)'
      BY <3>1, <3>3 DEF RequestOK
    <3>6. ReferenceOK(b)'
      BY <1>5, <1>14, <3>3 DEF DocsOK, ReferenceOK
    <3>7. SameWork(b) /\ Stays(b)
      BY <3>3 DEF SameWork, Stays, StillOwed, Unpaid
    <3> QED
      BY <1>7, <1>15, <3>4, <3>5, <3>6, <3>7 DEF DocsOK
  <2>2. CASE app[b].status \in {"Applied", "Offer Sent", "Position filled"}
    <3>1. b \notin hired
      BY <2>2 DEF Hires
    <3>2. app'[b] = [app[b] EXCEPT !.status = "Cancelled"] /\ cancellation'[b] = cancellation[b]
      BY <1>3, <1>4, <2>2, <3>1
    <3>3. app'[b].status = "Cancelled" /\ app'[b].workStatus = app[b].workStatus
      BY <1>1, <3>2 DEF Application
    <3>4. ~ IsAssignment(app[b])
      BY <2>2 DEF IsAssignment
    <3>5. dispute'[b] = dispute[b]
      BY <1>2
    <3>6. \A kind \in {"cancellation-payment", "assignment-cancellation-refund"} :
             << kind, b >> \in references' => << kind, b >> \in references
      BY <1>5
    <3> HIDE DEF idle, hired
    <3> QED
      BY <1>7, <3>2, <3>3, <3>4, <3>5, <3>6, UnhiredDocs
  <2>3. CASE b \notin hired /\ app[b].status \notin {"Applied", "Offer Sent", "Position filled"}
    <3>1. app'[b] = app[b] /\ cancellation'[b] = cancellation[b]
      BY <1>3, <1>4, <2>3
    <3>2. HireOK(b)' /\ FreshOK(b)' /\ RequestOK(b)'
      <4>1. HireOK(b) /\ FreshOK(b) /\ RequestOK(b) /\ job'.salary = job.salary
        BY <1>12, <1>14 DEF DocsOK
      <4>2. HireOK(b)'
        BY <3>1, <4>1 DEF HireOK
      <4>3. FreshOK(b)' /\ RequestOK(b)'
        BY <3>1, <4>1 DEF FreshOK, RequestOK, IsAssignment
      <4> QED
        BY <4>2, <4>3
    <3>3. ReferenceOK(b)'
      BY <1>5, <1>14, <3>1 DEF DocsOK, ReferenceOK
    <3>4. SameWork(b) /\ Stays(b)
      BY <3>1 DEF SameWork, Stays, StillOwed
    <3> QED
      BY <1>7, <1>15, <3>2, <3>3, <3>4 DEF DocsOK
  <2> QED
    BY <2>1, <2>2, <2>3
<1>18. /\ DocsInv' /\ \A b \in Apps : Stays(b)
  <2>1. \A b \in Apps : DocsOK(b)' /\ Stays(b)
    BY <1>16, <1>17
  <2> QED
    BY <2>1 DEF DocsInv
<1>19. /\ \A b \in Apps \ idle : StillOwed(b)' = StillOwed(b)
       /\ \A b \in idle : b \notin Hires(app')
       /\ Hires(app') \subseteq Hires(app)
       /\ Unfinished(app) \subseteq idle \cup Unfinished(app')
  <2>1. \A b \in Apps \ idle : SameWork(b)
    BY <1>17
  <2>2. \A b \in idle : b \in Apps /\ app'[b].status = "Cancelled"
    BY <1>16
  <2> HIDE DEF idle, hired
  <2>3. /\ \A b \in Apps \ idle : StillOwed(b)' = StillOwed(b)
        /\ \A b \in idle : b \notin Hires(app')
        /\ Hires(app') \subseteq Hires(app)
    BY <2>1, <2>2 DEF SameWork, Hires
  <2>4. Unfinished(app) \subseteq idle \cup Unfinished(app')
    BY <2>1 DEF SameWork, Unfinished, Hires
  <2> QED
    BY <2>3, <2>4
\* The escrow.
<1>20. idle \in SUBSET Apps /\ IsFiniteSet(idle)
  <2>1. idle \in SUBSET Apps
    BY DEF Hires
  <2> QED
    BY <2>1, ScopeAssumption, FS_Subset
<1> HIDE DEF idle, hired, h
<1>21. unused = Sum(h, idle)
  BY <1>16, <1>20, SumOverIsSum
<1>22. Promised' = Promised - unused /\ unused \in Nat
  <2>1. \A b \in idle : h[b] = StillOwed(b) /\ StillOwed(b)' = 0
    BY <1>16
  <2> QED
    BY <1>1, <1>19, <1>20, <1>21, <2>1, PromisedDrop
<1>23. extras = Reserved
  BY <1>1, <1>14, SumsOfTheCode DEF OfferExtras, DocsOK
<1> HIDE DEF extras, unused
<1>24. /\ AmountOf(pot) \in Nat /\ Promised \in Nat /\ Reserved \in Nat
       /\ job.hiredCount \in Nat /\ job.positionsNeeded \in Nat
       /\ job.hiredCount <= job.positionsNeeded
  BY <1>1, OwedType, Terms
<1>25. job'.hiredCount <= job.hiredCount
  BY <1>1, <1>19, CountType, FS_Subset DEF CapacityRespected
<1>26. Vacant' >= Vacant
  BY <1>1, <1>12, <1>25, VacantSteps
<1>27. Unfinished(app') # {} => job.hireConfirmed
  <2>1. Unfinished(app') # {} => Hires(app) # {}
    BY <1>19 DEF Unfinished
  <2> QED
    BY <1>1, <2>1 DEF JobOK
<1>28. Cardinality(Hires(app')) < job.positionsNeeded \/ ~ ends
  <2> SUFFICES ASSUME ends, ~ (Cardinality(Hires(app')) < job.positionsNeeded)
               PROVE  FALSE
    OBVIOUS
  <2>1. /\ IsFiniteSet(Hires(app)) /\ Cardinality(Hires(app)) = job.hiredCount
        /\ Cardinality(Hires(app')) = job'.hiredCount
        /\ Cardinality(Hires(app')) \in Nat
    BY <1>1, CountType DEF CapacityRespected
  <2>2. Cardinality(Hires(app)) >= job.positionsNeeded
    BY <1>24, <1>25, <2>1
  <2>3. PICK b \in Unfinished(app) : TRUE
    BY <1>1, <1>2, <2>2 DEF JobOK
  <2>4. b \in Hires(app) /\ Hires(app') \subseteq Hires(app) \ {b}
    BY <1>11, <1>19, <2>3 DEF Unfinished
  <2>5. /\ IsFiniteSet(Hires(app) \ {b})
        /\ Cardinality(Hires(app) \ {b}) = Cardinality(Hires(app)) - 1
    BY <2>1, <2>4, FS_RemoveElement
  <2>6. Cardinality(Hires(app')) <= Cardinality(Hires(app) \ {b})
    BY <2>4, <2>5, FS_Subset
  <2> QED
    BY <1>24, <2>1, <2>5, <2>6
<1>29. JobOK'
  <2>1. job'.cancellationPending => job'.closedManually /\ ActiveOffers(offer') = {}
    BY <1>8, <1>12
  <2>2. Hires(app') # {} => job'.hireConfirmed
    BY <1>1, <1>12, <1>19 DEF JobOK
  <2>3. Over' => ActiveOffers(offer') = {} /\ Unfinished(app') = {} /\ AmountOf(pot') = 0
    BY <1>6, <1>8, <1>11, <1>13
  <2>4. ~ Over' => Unfinished(app') # {}
    BY <1>11, <1>13
  <2>5. job'.status = "Cancelled" => Cardinality(Hires(app')) < job'.positionsNeeded
    BY <1>12, <1>28
  <2> QED
    BY <2>1, <2>2, <2>3, <2>4, <2>5 DEF JobOK
<1>30. MoreInv'
  <2>1. CASE ends
    BY <1>13, <1>18, <1>29, <2>1, EndsWell
  <2>2. CASE ~ ends
    <3>1. Slack' = Slack
      BY <1>6, <1>8, <1>22, <1>23, <1>24, <2>2 DEF Slack
    <3>2. ~ Firm'
      BY <1>11, <1>12, <1>27, <2>2 DEF Firm
    <3>3. FundsOK'
      BY <1>1, <1>8, <1>26, <3>1, <3>2, FundsStep
    <3> QED
      BY <1>18, <1>29, <3>3 DEF MoreInv
  <2> QED
    BY <2>1, <2>2
<1>31. Pays
  <2>1. ASSUME NEW b \in Apps
        PROVE  /\ received'[b] >= received[b]
               /\ StillOwed(b)' + (received'[b] - received[b]) <= StillOwed(b)
    <3>1. received'[b] = received[b] /\ received[b] \in Nat /\ StillOwed(b) \in Nat
      BY <1>1, <1>2, OwedType DEF TypeOK
    <3>2. StillOwed(b)' = 0 \/ StillOwed(b)' = StillOwed(b)
      BY <1>16, <1>19
    <3> QED
      BY <3>1, <3>2
  <2> QED
    BY <1>2, <1>6, <2>1 DEF Pays
<1> QED
  BY <1>2, <1>18, <1>30, <1>31 DEF Advances, Outcomes, Stays, Moved

LEMMA PostingStepAdvances ==
  ASSUME FundsInv, BaseInv', PostingStep
  PROVE  Advances
<1>1. ASSUME NEW positions \in 1 .. MaxPositions, NEW salary \in Salaries,
             UpdateJob(positions, salary)
      PROVE  Advances
  BY <1>1, UpdateJobAdvances
<1>2. CASE ArchiveJob
  <2>1. job' = [job EXCEPT !.archived = TRUE]
        /\ UNCHANGED << app, offer, cancellation, dispute, pot, wallet, received, references >>
    BY <1>2 DEF ArchiveJob
  <2>2. \A b \in Apps : Same(b)
    BY <2>1 DEF Same
  <2>3. job \in Job
    BY DEF FundsInv, BaseInv, PaidInv, TypeOK
  <2>4. SameJob
    BY <2>1, <2>3 DEF SameJob, Over, Job
  <2> QED
    BY <2>1, <2>2, <2>4, QuietPosting
<1>3. CASE BeginMarkDone \/ AbortMarkDone
  <2>1. UNCHANGED << job, app, offer, cancellation, dispute, pot, wallet, received, references >>
    BY <1>3 DEF BeginMarkDone, AbortMarkDone
  <2>2. (\A b \in Apps : Same(b)) /\ SameJob
    BY <2>1 DEF Same, SameJob, Over
  <2> QED
    BY <2>1, <2>2, QuietPosting
<1>4. ASSUME NEW workerPayment \in Proposals, RequestPostingCancellation(workerPayment)
      PROVE  Advances
  BY <1>4, RequestAdvances
<1> QED
  BY <1>1, <1>2, <1>3, <1>4, CloseAdvances, ReopenAdvances, CommitMarkDoneAdvances
     DEF PostingStep

(* ---- the inductive invariant ------------------------------------------------------------ *)

LEMMA InitFunds == Init => FundsInv
<1> SUFFICES ASSUME Init PROVE FundsInv
  OBVIOUS
<1>1. PICK positions \in 1 .. MaxPositions, salary \in Salaries :
        CreateJob(positions, salary)
  BY DEF Init
<1>2. /\ job = NewJob(positions, salary)
      /\ \A a \in Apps : /\ app[a] = NoApplication /\ offer[a] = NoOffer
                         /\ cancellation[a] = [status |-> "none", workerPayment |-> 0]
                         /\ dispute[a].status = "none" /\ dispute[a].active = FALSE
                         /\ dispute[a].stage = "UNDER_INVESTIGATION"
      /\ references = {} /\ saving = {}
  BY <1>1 DEF CreateJob, Init
<1>3. PaidInv /\ CapacityRespected /\ TypeOK
  BY InitPaid, InitCapacity DEF CapacityInv, PaidInv
<1>4. ASSUME NEW a \in Apps
      PROVE  /\ DocsOK(a) /\ StillOwed(a) = 0 /\ offer[a].extra = 0
             /\ offer[a].status = "none" /\ app[a].status = "None"
  <2>1. /\ app[a].status = "None" /\ app[a].workStatus = "In Progress"
        /\ offer[a].status = "none" /\ offer[a].extra = 0 /\ cancellation[a].status = "none"
    <3>1. app[a] = NoApplication /\ offer[a] = NoOffer /\ cancellation[a].status = "none"
      <4>1. /\ app[a] = NoApplication /\ offer[a] = NoOffer
            /\ cancellation[a] = [status |-> "none", workerPayment |-> 0]
        BY <1>2
      <4> QED
        BY <4>1
    <3>2. app[a].status = "None" /\ app[a].workStatus = "In Progress"
      <4>1. app[a] = NoApplication
        BY <3>1
      <4>2. NoApplication.status = "None" /\ NoApplication.workStatus = "In Progress"
        BY Zenon DEF NoApplication
      <4> QED
        BY <4>1, <4>2, Zenon
    <3>3. offer[a].status = "none" /\ offer[a].extra = 0
      BY <3>1 DEF NoOffer
    <3> QED
      BY <3>1, <3>2, <3>3
  <2>2. OfferOK(a) /\ HireOK(a) /\ FreshOK(a) /\ RequestOK(a) /\ ReferenceOK(a)
    <3>1. OfferOK(a) /\ HireOK(a) /\ FreshOK(a) /\ RequestOK(a)
      BY <2>1 DEF OfferOK, HireOK, FreshOK, RequestOK
    <3>2. references = {}
      BY <1>2
    <3> QED
      BY <3>1, <3>2 DEF ReferenceOK
  <2>3. DisputeOK(a)
    BY <1>2 DEF DisputeOK
  <2> QED
    BY <2>1, <2>2, <2>3 DEF DocsOK, StillOwed
<1>5. Hires(app) = {} /\ Unfinished(app) = {} /\ ActiveOffers(offer) = {}
  BY <1>4 DEF Hires, Unfinished, ActiveOffers
<1>6. /\ job.status = "Available" /\ job.cancellationPending = FALSE
      /\ job.positionsNeeded = positions /\ job.salary = salary /\ job.hiredCount = 0
  BY <1>2 DEF NewJob
<1>7. positions \in Nat \ {0} /\ salary \in Nat
  BY AmountsAssumption
<1>8. JobOK
  <2>1. ~ (Cardinality(Hires(app)) >= job.positionsNeeded)
    BY <1>5, <1>6, <1>7, FS_EmptySet
  <2> QED
    BY <1>5, <1>6, <2>1 DEF JobOK, Over, TerminalJobStatuses
<1>9. Promised = 0 /\ Reserved = 0
  BY <1>4, PromisedZero, ReservedZero
<1>10. AmountOf(pot) = Vacant /\ Vacant \in Nat /\ pot["EMPLOYER"] \in Nat
  <2> DEFINE escrow == positions * salary
             fromEmployer == Least(escrow,
               Monus(Least(WalletAtStart["EMPLOYER"], escrow + PostingFee), PostingFee))
  <2>1. pot["EMPLOYER"] = fromEmployer /\ pot["WORKER"] = escrow - fromEmployer
    BY <1>1 DEF CreateJob, Wallets
  <2>2. Vacant \in Nat /\ pot["EMPLOYER"] \in Nat
    BY <1>3, Terms
  <2>3. Vacant = escrow
    <3>1. positions - 0 = positions
      BY <1>7
    <3> QED
      BY <1>6, <3>1 DEF Vacant
  <2> HIDE DEF escrow, fromEmployer
  <2> QED
    BY <2>1, <2>2, <2>3 DEF AmountOf
<1>11. FundsOK
  BY <1>9, <1>10 DEF FundsOK
<1> QED
  BY <1>2, <1>3, <1>4, <1>8, <1>11 DEF FundsInv, BaseInv, MoreInv, DocsInv, CallsInv

(* ---- what staff have read and not saved ------------------------------------------------- *)

\* A proposal is made on a case that has none, and that nobody else proposes on.
LEMMA ReadsCalls ==
  ASSUME PlainCases, FundsInv, NEW u, Reads(u), CallOK(u), u.settles => u.by \in Proposers
  PROVE  CallsInv'
<1>1. /\ saving' = saving \cup {u} /\ dispute' = dispute
      /\ \A v \in saving : v.case = u.case => v.by # u.by
  BY DEF Reads
<1>2. \A v \in saving' : CallOK(v)'
  BY <1>1 DEF FundsInv, CallsInv, CallOK
<1>3. \A v \in saving : v.settles => v.by \in Proposers
  BY DEF FundsInv, CallsInv, CallOK
<1>4. \A v \in saving : u.settles /\ v.settles => v.case # u.case
  BY <1>1, <1>3 DEF PlainCases
<1> QED
  BY <1>1, <1>2, <1>4 DEF FundsInv, CallsInv

\* The case of a changes: calls on other cases are not concerned.
LEMMA OtherCalls ==
  ASSUME FundsInv, NEW a \in Apps, saving' \subseteq saving,
         \A b \in Apps \ {a} : dispute'[b] = dispute[b],
         \A u \in saving' : u.case = a => CallOK(u)'
  PROVE  CallsInv'
<1>1. \A u \in saving' : u.case \in Apps
  BY DEF FundsInv, BaseInv, PaidInv, TypeOK, Update
<1>2. \A u \in saving' : u.case # a => CallOK(u)'
  BY <1>1 DEF FundsInv, CallsInv, CallOK
<1> QED
  BY <1>2 DEF FundsInv, CallsInv

LEMMA OpenCalls ==
  ASSUME FundsInv, NEW a \in Apps, NEW d, OpenCase(a, d)
  PROVE  CallsInv'
<1>1. dispute \in [Apps -> Dispute]
  BY DEF FundsInv, BaseInv, PaidInv, TypeOK
<1>2. /\ saving' \subseteq saving /\ \A u \in saving' : u.case # a
      /\ \A b \in Apps \ {a} : dispute'[b] = dispute[b]
  BY <1>1 DEF OpenCase
<1> QED
  BY <1>2, OtherCalls

LEMMA CallsStayOK ==
  ASSUME FundsInv, UNCHANGED << dispute, saving >>
  PROVE  CallsInv'
BY DEF FundsInv, CallsInv, CallOK

LEMMA DisputeStepCalls ==
  ASSUME PlainCases, FundsInv, NEW a \in Apps, DisputeStep(a)
  PROVE  CallsInv'
<1>1. /\ dispute \in [Apps -> Dispute] /\ dispute[a] \in Dispute /\ DisputeOK(a)
      /\ \A u \in saving : CallOK(u)
  BY DEF FundsInv, BaseInv, PaidInv, TypeOK, MoreInv, DocsInv, DocsOK, CallsInv
<1>2. CASE OpenDispute(a)
  BY <1>2, OpenCalls DEF OpenDispute
<1>3. ASSUME NEW amount, OpenPaymentDispute(a, amount) PROVE CallsInv'
  BY <1>3, OpenCalls DEF OpenPaymentDispute
<1>4. ASSUME NEW s, AssignSupport(a, s) PROVE CallsInv'
  <2> DEFINE u == [ToStage(a, s, "UNDER_INVESTIGATION") EXCEPT
                     !.restarts = dispute[a].status # "investigating"]
  <2>1. Reads(u) /\ dispute[a].active
    BY <1>4 DEF AssignSupport
  <2>2. /\ u.case = a /\ u.stage = "UNDER_INVESTIGATION" /\ u.settles = FALSE
        /\ u.restarts = (dispute[a].status # "investigating")
    BY DEF ToStage
  <2>3. dispute[a].status = "investigating"
    BY <1>1, <2>1 DEF DisputeOK
  <2> HIDE DEF u
  <2>4. CallOK(u)
    BY <2>1, <2>2, <2>3 DEF CallOK
  <2> QED
    BY <2>1, <2>2, <2>4, ReadsCalls
<1>5. ASSUME NEW s, RequestEvidence(a, s) \/ CompleteInvestigation(a, s) PROVE CallsInv'
  <2>1. PICK stage \in {"UNDER_INVESTIGATION", "FOR_FINANCE_REVIEW"} :
          Reads(ToStage(a, s, stage)) /\ dispute[a].active
    BY <1>5 DEF RequestEvidence, CompleteInvestigation
  <2> DEFINE u == ToStage(a, s, stage)
  <2>2. u.case = a /\ u.stage = stage /\ u.settles = FALSE /\ u.restarts = FALSE
    BY Zenon DEF ToStage
  <2>3. Reads(u)
    BY <2>1
  <2> HIDE DEF u
  <2>4. CallOK(u)
    BY <2>1, <2>2 DEF CallOK
  <2> QED
    BY <2>2, <2>3, <2>4, ReadsCalls
<1>6. ASSUME NEW f \in Proposers, NEW type \in SettlementType,
             ProposeSettlement(a, f, type)
      PROVE  CallsInv'
  <2> DEFINE s(share) == [type |-> type, worker |-> share[1], refund |-> share[2],
               alreadyPaid |-> AlreadyPaid(a),
               outstanding |-> IF type = "FULL_REFUND" THEN 0
                 ELSE Monus(dispute[a].disputedAmount, share[1] + share[2])]
             u(share) == [ToStage(a, f, "PENDING_FINANCE_APPROVAL") EXCEPT
               !.settles = TRUE, !.settlement = s(share)]
  <2>1. /\ dispute[a].stage = "FOR_FINANCE_REVIEW" /\ ~ dispute[a].settled
        /\ \E share \in Shares(a, type) : Reads(u(share))
    BY <1>6 DEF ProposeSettlement
  <2>2. PICK share \in Shares(a, type) : Reads(u(share))
    BY <2>1
  <2>3. dispute[a].active /\ dispute[a].settled = FALSE
    BY <1>1, <2>1 DEF DisputeOK, Dispute
  <2>4. Divides(s(share), dispute[a].disputedAmount)
    BY <2>3, ProposalDivides
  <2> HIDE DEF s
  <2>5. /\ u(share).case = a /\ u(share).by = f /\ u(share).settles = TRUE
        /\ u(share).restarts = FALSE /\ u(share).settlement = s(share)
    BY Zenon DEF ToStage
  <2> HIDE DEF u
  <2>6. CallOK(u(share))
    BY <2>3, <2>4, <2>5 DEF CallOK
  <2> QED
    BY <2>2, <2>5, <2>6, ReadsCalls
<1>7. CASE ApproveSettlement(a)
  <2>1. /\ dispute[a].stage = "PENDING_FINANCE_APPROVAL" /\ saving' = saving
        /\ dispute' = [dispute EXCEPT ![a].status = "resolved", ![a].active = FALSE,
                         ![a].stage = "RESOLVED", ![a].settlement = NoSettlement]
    BY <1>7 DEF ApproveSettlement
  <2>2. /\ dispute'[a].settled = dispute[a].settled
        /\ \A b \in Apps \ {a} : dispute'[b] = dispute[b]
    BY <1>1, <2>1 DEF Dispute
  <2>3. dispute[a].settled
    BY <1>1, <2>1 DEF DisputeOK
  <2>4. \A u \in saving' : u.case = a => CallOK(u)'
    BY <1>1, <2>1, <2>2, <2>3 DEF CallOK
  <2> QED
    BY <2>1, <2>2, <2>4, OtherCalls
<1>8. ~ SubmitAppeal(a)
  BY DEF SubmitAppeal, PlainCases
<1> QED
  BY <1>2, <1>3, <1>4, <1>5, <1>6, <1>7, <1>8 DEF DisputeStep

\* A case that is saved with a proposal has no other one under way.
LEMMA SaveCalls ==
  ASSUME FundsInv, NEW u \in saving, SaveCase(u) \/ LoseCase(u)
  PROVE  CallsInv'
<1> DEFINE a == u.case
           d == Saved(dispute[a], u)
<1>1. /\ a \in Apps /\ dispute \in [Apps -> Dispute] /\ dispute[a] \in Dispute
      /\ u.settles \in BOOLEAN /\ \A v \in saving : CallOK(v) /\ v.settles \in BOOLEAN
      /\ \A v \in saving : u.settles /\ v.settles /\ u.case = v.case => u = v
  BY DEF FundsInv, BaseInv, PaidInv, TypeOK, Update, CallsInv
<1>2. CASE LoseCase(u)
  <2>1. saving' \subseteq saving /\ dispute' = dispute
    BY <1>2 DEF LoseCase
  <2>2. \A v \in saving' : v.case = a => CallOK(v)'
    BY <1>1, <2>1 DEF CallOK
  <2> QED
    BY <1>1, <2>1, <2>2, OtherCalls
<1>3. CASE SaveCase(u)
  <2>1. /\ saving' = saving \ {u}
        /\ dispute'[a] = d /\ \A b \in Apps \ {a} : dispute'[b] = dispute[b]
    BY <1>1, <1>3 DEF SaveCase
  <2>2. /\ d.active = dispute[a].active /\ d.disputedAmount = dispute[a].disputedAmount
        /\ d.settled = (u.settles \/ dispute[a].settled)
    BY <1>1 DEF Saved, Dispute
  <2> HIDE DEF d
  <2>3. ASSUME NEW v \in saving', v.case = a PROVE CallOK(v)'
    <3>1. v \in saving /\ CallOK(v) /\ v # u
      BY <1>1, <2>1, <2>3
    <3>2. v.settles => ~ u.settles
      BY <1>1, <2>3, <3>1
    <3> QED
      BY <1>1, <2>1, <2>2, <2>3, <3>1, <3>2 DEF CallOK, Dispute
  <2> QED
    BY <1>1, <2>1, <2>3, OtherCalls
<1> QED
  BY <1>2, <1>3

LEMMA NextCalls ==
  ASSUME PlainCases, FundsInv, [Next]_vars
  PROVE  CallsInv'
<1>1. CASE PostingStep
  <2>1. UNCHANGED << dispute, saving >>
    BY <1>1 DEF PostingStep, UpdateJob, CloseJob, ReopenJob, ArchiveJob, BeginMarkDone,
                CommitMarkDone, AbortMarkDone, RequestPostingCancellation
  <2> QED
    BY <2>1, CallsStayOK
<1>2. ASSUME NEW a \in Apps, OfferStep(a) PROVE CallsInv'
  <2>1. UNCHANGED << dispute, saving >>
    BY <1>2 DEF OfferStep, ApplyForJob, WithdrawApplication, UpdateApplicationStatus,
                CreateJobOffer, AcceptJobOffer, RejectJobOffer, CancelJobOffer, ExpireOffer,
                DropOffer, ConfirmOfferHire
  <2> QED
    BY <2>1, CallsStayOK
<1>3. ASSUME NEW a \in Apps, AssignmentStep(a) PROVE CallsInv'
  <2>1. UNCHANGED << dispute, saving >>
    BY <1>3 DEF AssignmentStep, StartWork, AuthorizePayment, SubmitWork, RequestChanges,
                Transition, SettleDirect
  <2> QED
    BY <2>1, CallsStayOK
<1>4. ASSUME NEW a \in Apps, CancellationStep(a) PROVE CallsInv'
  <2>1. UNCHANGED << dispute, saving >> \/ \E d : OpenCase(a, d)
    BY <1>4 DEF CancellationStep, CancelBeforeStart, RequestAssignmentCancellation,
                AcceptCancellation, RejectCancellation, EscalateOverdueCancellation,
                EscalateCancellation
  <2> QED
    BY <2>1, CallsStayOK, OpenCalls
<1>5. CASE UNCHANGED vars
  BY <1>5, CallsStayOK DEF vars
<1> QED
  BY <1>1, <1>2, <1>3, <1>4, <1>5, DisputeStepCalls, SaveCalls DEF Next

LEMMA NextFunds ==
  ASSUME PlainCases
  PROVE  FundsInv /\ [Next]_vars => FundsInv' /\ Outcomes /\ Moved
<1> SUFFICES ASSUME FundsInv, [Next]_vars PROVE FundsInv' /\ Outcomes /\ Moved
  OBVIOUS
<1>1. BaseInv'
  <2>1. PaidInv /\ CapacityInv
    BY DEF FundsInv, BaseInv, PaidInv, CapacityInv
  <2> QED
    BY <2>1, NextPaid, NextCapacity DEF BaseInv, CapacityInv
<1>2. CallsInv'
  BY NextCalls
<1>3. CASE PostingStep
  BY <1>1, <1>2, <1>3, PostingStepAdvances DEF Advances, FundsInv
<1>4. ASSUME NEW a \in Apps,
             OfferStep(a) \/ AssignmentStep(a) \/ CancellationStep(a) \/ DisputeStep(a)
      PROVE  FundsInv' /\ Outcomes /\ Moved
  BY <1>1, <1>2, <1>4, OfferStepAdvances, AssignmentStepAdvances, CancellationStepAdvances,
     DisputeStepAdvances DEF Advances, FundsInv
<1>5. ASSUME NEW u \in saving, SaveCase(u) PROVE FundsInv' /\ Outcomes /\ Moved
  BY <1>1, <1>2, <1>5, SaveAdvances DEF Advances, FundsInv
<1>6. CASE UNCHANGED vars \/ \E u \in saving : LoseCase(u)
  <2>1. (\A b \in Apps : Same(b)) /\ SameJob /\ UNCHANGED << pot, wallet, received >>
    BY <1>6 DEF vars, LoseCase, Same, SameJob, Over
  <2> QED
    BY <1>1, <1>2, <2>1, QuietPosting DEF Advances, FundsInv
<1> QED
  BY <1>3, <1>4, <1>5, <1>6 DEF Next

(***************************************************************************)
(* When the parties dispute all that is unpaid, nobody appeals and no two  *)
(* proposals on one case overlap, the invariant of this module always      *)
(* holds: each document agrees with the escrow, for any number of workers, *)
(* positions and amounts and whatever else staff do at the same time.      *)
(***************************************************************************)
THEOREM FundsInvariant ==
  ASSUME PlainCases
  PROVE  Spec => []FundsInv
<1>1. Init => FundsInv
  BY InitFunds
<1>2. FundsInv /\ [Next]_vars => FundsInv'
  BY NextFunds
<1> QED
  BY <1>1, <1>2, PTL DEF Spec

(***************************************************************************)
(* No payment, refund, expiry or cancellation, nor Finance's decision,     *)
(* ever spends what was promised to somebody else: the escrow covers every *)
(* hire and offer, and every vacancy while the posting recruits.           *)
(***************************************************************************)
THEOREM SolventAlways ==
  ASSUME PlainCases
  PROVE  Spec => []Solvent
<1>1. FundsInv => Solvent
  <2> SUFFICES ASSUME FundsInv PROVE Solvent
    OBVIOUS
  <2>1. TypeOK /\ CapacityRespected /\ FundsOK /\ \A a \in Apps : OfferOK(a)
    BY DEF FundsInv, BaseInv, PaidInv, MoreInv, DocsInv, DocsOK
  <2>2. Owed(app) = Promised /\ OfferExtras = Reserved
    BY <2>1, SumsOfTheCode
  <2>3. RequiredJobFunds(job, app, offer) = Vacant + Promised + Reserved
    BY <2>1, RequiredFunds
  <2>4. Promised \in Nat /\ Reserved \in Nat /\ Vacant \in Nat /\ AmountOf(pot) \in Nat
    BY <2>1, OwedType, Terms
  <2>5. AmountOf(pot) >= Promised + Reserved
    BY <2>1 DEF FundsOK
  <2>6. ~ job.closedManually /\ job.status \notin TerminalJobStatuses
          => AmountOf(pot) >= Promised + Reserved + Vacant
    BY <2>1 DEF FundsOK, Firm, Over
  <2>7. Promised + Reserved + Vacant = Vacant + Promised + Reserved
    BY <2>4
  <2> QED
    BY <2>2, <2>3, <2>5, <2>6, <2>7 DEF Solvent, RemainingJobFunds
<1> QED
  BY <1>1, FundsInvariant, PTL

(***************************************************************************)
(* The extra of every offer can be given back to the employer wallet it    *)
(* came from, whatever was paid and refunded in between.                   *)
(***************************************************************************)
THEOREM ExtrasRefundableAlways ==
  ASSUME PlainCases
  PROVE  Spec => []ExtrasRefundable
<1>1. FundsInv => ExtrasRefundable
  <2> SUFFICES ASSUME FundsInv PROVE ExtrasRefundable
    OBVIOUS
  <2>1. TypeOK /\ FundsOK /\ \A a \in Apps : OfferOK(a)
    BY DEF FundsInv, BaseInv, PaidInv, MoreInv, DocsInv, DocsOK
  <2>2. OfferExtras = Reserved
    BY <2>1, SumsOfTheCode
  <2> QED
    BY <2>1, <2>2 DEF ExtrasRefundable, FundsOK
<1> QED
  BY <1>1, FundsInvariant, PTL

(***************************************************************************)
(* A posting that is over stays over, and no handler takes up again an     *)
(* assignment that was cancelled or paid in full.                          *)
(***************************************************************************)
THEOREM OutcomesKeptAlways ==
  ASSUME PlainCases
  PROVE  Spec => OutcomesKept
<1>1. FundsInv /\ [Next]_vars =>
        [/\ job.status \in TerminalJobStatuses => job'.status = job.status
         /\ \A a \in Apps :
              /\ app[a].status = "Cancelled" => app'[a].status = "Cancelled"
              /\ app[a].workStatus = "Completed" => app'[a].workStatus = "Completed" ]_vars
  BY NextFunds DEF Outcomes, Over
<1> QED
  BY <1>1, FundsInvariant, PTL DEF Spec, OutcomesKept

(* ---- the account -------------------------------------------------------------------------- *)

\* The totals of the account are the sums of the posting.
LEMMA TotalIsSum ==
  ASSUME NEW f, IsFiniteSet(Apps), \A a \in Apps : f[a] \in Nat
  PROVE  Account!Total(f) = Sum(f, Apps)
<1>1. Account!RawTotal(f) = Sum(f, Apps)
  BY Zenon DEF Account!RawTotal, Sum, Account!MapThenSumSet, MapThenSumSet,
               Account!MapThenFoldSet, MapThenFoldSet
<1>2. Sum(f, Apps) \in Nat
  BY SumIsNumber
<1> QED
  BY <1>1, <1>2 DEF Account!Total

LEMMA AccountTotals ==
  TypeOK => /\ Account!Total(received) = SumOver(received, Apps)
            /\ Account!Total([a \in Apps |-> StillOwed(a)]) = Promised
<1> SUFFICES ASSUME TypeOK
             PROVE  /\ Account!Total(received) = SumOver(received, Apps)
                    /\ Account!Total([a \in Apps |-> StillOwed(a)]) = Promised
  OBVIOUS
<1> DEFINE owed == [a \in Apps |-> StillOwed(a)]
<1>1. IsFiniteSet(Apps) /\ \A a \in Apps : received[a] \in Nat /\ owed[a] \in Nat
  BY OwedType DEF TypeOK
<1>2. Promised = Sum(owed, Apps)
  BY DEF Promised
<1> HIDE DEF owed
<1>3. Account!Total(owed) = Sum(owed, Apps) /\ Account!Total(received) = Sum(received, Apps)
  BY <1>1, TotalIsSum
<1>4. SumOver(received, Apps) = Sum(received, Apps)
  BY <1>1, SumOverIsSum
<1> QED
  BY <1>2, <1>3, <1>4 DEF owed

\* Nobody is owed anything by a posting that is over.
NothingOwed == AmountOf(pot) = 0 /\ \A a \in Apps : StillOwed(a) = 0

LEMMA OverOwesNothing == FundsInv /\ Over => NothingOwed
<1> SUFFICES ASSUME FundsInv, Over
             PROVE  NothingOwed
  OBVIOUS
<1>1. TypeOK /\ JobOK /\ \A a \in Apps : HireOK(a)
  BY DEF FundsInv, BaseInv, PaidInv, MoreInv, DocsInv, DocsOK
<1>2. AmountOf(pot) = 0 /\ Unfinished(app) = {}
  BY <1>1 DEF JobOK
<1>3. ASSUME NEW a \in Apps
      PROVE  StillOwed(a) = 0
  <2>1. a \notin Unfinished(app)
    BY <1>2
  <2>2. app[a].status = "Hired" => app[a].paymentStatus = "Paid"
    BY <1>1, <2>1 DEF HireOK, Unfinished, Hires
  <2> QED
    BY <2>2 DEF StillOwed
<1> QED
  BY <1>2, <1>3 DEF NothingOwed

LEMMA OwedAmounts == TypeOK => \A b \in Apps : StillOwed(b) \in Nat
BY OwedType

\* No money is made, and what is owed is there.
LEMMA AccountCovered ==
  ASSUME FundsInv, FundsInv', MoneyConserved, MoneyConserved'
  PROVE  Account!Covered
<1>1. TypeOK /\ TypeOK' /\ FundsOK'
  BY DEF FundsInv, BaseInv, PaidInv, MoreInv
<1> DEFINE owed == [a \in Apps |-> StillOwed(a)]
<1>2. Account!Total(received) = SumOver(received, Apps)
  BY <1>1, AccountTotals
<1>3. /\ Account!Total(received') = SumOver(received', Apps)
      /\ Account!Total(owed') = Promised'
  <2>1. (/\ Account!Total(received) = SumOver(received, Apps)
         /\ Account!Total([a \in Apps |-> StillOwed(a)]) = Promised)'
    BY <1>1, AccountTotals, PTL
  <2> QED
    BY <2>1
<1>4. /\ SumOver(received, Apps) \in Nat /\ SumOver(received', Apps) \in Nat
      /\ AmountOf(pot) \in Int /\ AmountOf(pot') \in Int
      /\ AmountOf(wallet) \in Int /\ AmountOf(wallet') \in Int
  BY <1>1 DEF SumOver, TypeOK, AmountOf, Wallets
<1>5. /\ AmountOf(wallet) + AmountOf(pot) + SumOver(received, Apps) + PostingFee
           = AmountOf(WalletAtStart) + TopUp
      /\ AmountOf(wallet') + AmountOf(pot') + SumOver(received', Apps) + PostingFee
           = AmountOf(WalletAtStart) + TopUp
  BY DEF MoneyConserved, RemainingJobFunds
<1>6. AmountOf(pot') + AmountOf(wallet') + SumOver(received', Apps)
        = AmountOf(pot) + AmountOf(wallet) + SumOver(received, Apps)
  <2>1. PostingFee \in Int
    BY AmountsAssumption
  <2>2. AmountOf(wallet') + AmountOf(pot') + SumOver(received', Apps) + PostingFee
          = AmountOf(wallet) + AmountOf(pot) + SumOver(received, Apps) + PostingFee
    BY <1>5, Zenon
  <2>3. \A w, p, s, v, q, r \in Int :
          v + q + r + PostingFee = w + p + s + PostingFee => q + v + r = p + w + s
    BY <2>1
  <2> QED
    BY <1>4, <2>2, <2>3
<1>7. AmountOf(pot') >= Promised'
  <2>1. (Promised \in Nat)' /\ (Reserved \in Nat)'
    BY <1>1, OwedPrimed, PTL
  <2>2. AmountOf(pot') >= Promised' + Reserved'
    BY <1>1 DEF FundsOK
  <2> QED
    BY <1>4, <2>1, <2>2
<1> QED
  BY <1>2, <1>3, <1>6, <1>7 DEF Account!Covered, RemainingJobFunds

\* Whatever a step of the posting does is a step of the account, or none.
LEMMA AccountStep ==
  ASSUME FundsInv, FundsInv', MoneyConserved, MoneyConserved', Moved
  PROVE  [Account!Next]_(Account!account)
<1> DEFINE owed == [a \in Apps |-> StillOwed(a)]
<1>1. Account!Covered
  BY AccountCovered
<1>2. TypeOK /\ TypeOK'
  BY DEF FundsInv, BaseInv, PaidInv
<1>3. \A b \in Apps : /\ StillOwed(b) \in Nat /\ StillOwed(b)' \in Nat
                      /\ received[b] \in Nat /\ received'[b] \in Nat
  <2>1. \A b \in Apps : StillOwed(b) \in Nat
    BY <1>2, OwedType
  <2>2. (\A b \in Apps : StillOwed(b) \in Nat)'
    BY <1>2, OwedAmounts, PTL
  <2> QED
    BY <1>2, <2>1, <2>2 DEF TypeOK
<1>4. ASSUME \A b \in Apps : StillOwed(b)' = StillOwed(b)
      PROVE  owed' = owed
  BY <1>4
<1>5. CASE Rests
  <2>1. owed' = owed
    BY <1>4, <1>5 DEF Rests
  <2> QED
    BY <1>5, <2>1 DEF Rests, Over, Account!account, RemainingJobFunds
<1>6. CASE Adjusts
  <2>1. owed' = owed
    BY <1>4, <1>6 DEF Adjusts
  <2>2. Account!Adjust
    BY <1>1, <1>6, <2>1 DEF Adjusts, Over, Account!Adjust
  <2> QED
    BY <2>2 DEF Account!Next
<1>7. ASSUME NEW a \in Apps, Promises(a)
      PROVE  Account!Next
  <2>1. owed' = [owed EXCEPT ![a] = owed'[a]]
    BY <1>7 DEF Promises
  <2>2. owed[a] = 0 /\ owed'[a] > 0
    BY <1>7 DEF Promises
  <2>3. Account!Promise(a)
    BY <1>1, <1>7, <2>1, <2>2 DEF Promises, Over, Account!Promise, RemainingJobFunds
  <2> QED
    BY <2>3 DEF Account!Next
<1>8. CASE Pays
  <2>1. CASE ~ Over'
    <3>1. Account!Discharge
      BY <1>1, <1>3, <1>8, <2>1 DEF Pays, Over, Account!Discharge
    <3> QED
      BY <3>1 DEF Account!Next
  <2>2. CASE Over'
    <3>1. NothingOwed'
      BY <2>2, OverOwesNothing, PTL
    <3>2. AmountOf(pot') = 0 /\ \A b \in Apps : StillOwed(b)' = 0
      BY <3>1 DEF NothingOwed
    <3>3. Account!Close
      BY <1>1, <1>3, <1>8, <2>2, <3>2 DEF Pays, Over, Account!Close, RemainingJobFunds
    <3> QED
      BY <3>3 DEF Account!Next
  <2> QED
    BY <2>1, <2>2
<1> QED
  BY <1>5, <1>6, <1>7, <1>8 DEF Moved

LEMMA AccountOpens == Init => Account!Open
<1> SUFFICES ASSUME Init PROVE Account!Open
  OBVIOUS
<1>1. FundsInv /\ TypeOK
  BY InitFunds, InitType
<1>2. AmountOf(pot) \in Nat /\ AmountOf(wallet) \in Nat
  BY <1>1 DEF TypeOK, AmountOf, Wallets
<1>3. PICK positions \in 1 .. MaxPositions, salary \in Salaries :
        CreateJob(positions, salary)
  BY DEF Init
<1>4. job.status = "Available"
  <2>1. job = NewJob(positions, salary)
    BY <1>3 DEF CreateJob
  <2> QED
    BY <2>1 DEF NewJob
<1>5. app = [a \in Apps |-> NoApplication] /\ received = [a \in Apps |-> 0]
  BY DEF Init
<1>6. \A a \in Apps : StillOwed(a) = 0
  <2>1. NoApplication.status = "None"
    BY Zenon DEF NoApplication
  <2>2. \A a \in Apps : app[a].status = "None"
    BY <1>5, <2>1
  <2> QED
    BY <2>2 DEF StillOwed
<1>7. [a \in Apps |-> StillOwed(a)] = [a \in Apps |-> 0]
  BY <1>6
<1> QED
  BY <1>2, <1>4, <1>5, <1>7 DEF Account!Open, RemainingJobFunds, TerminalJobStatuses

(***************************************************************************)
(* The posting, with all its documents, is the account of module Escrow:   *)
(* whatever handler runs, a worker is paid only out of what a confirmed    *)
(* hire promised, the promise never grows, the employer gets back only     *)
(* what nobody is owed, and a posting that is over is settled for good.    *)
(***************************************************************************)
THEOREM AccountKeptAlways ==
  ASSUME PlainCases
  PROVE  Spec => AccountKept
<1>1. Init => Account!Open
  BY AccountOpens
<1>2. /\ FundsInv /\ FundsInv' /\ MoneyConserved /\ MoneyConserved' /\ [Next]_vars
      => [Account!Next]_(Account!account)
  BY NextFunds, AccountStep
<1> QED
  BY <1>1, <1>2, FundsInvariant, MoneyConservedAlways, PTL DEF Spec, AccountKept, Account!Spec

(* ---- while no party opens a case ---------------------------------------------------------- *)

Undisputed == MaxDisputed = 0

\* The only cases are those of cancellations, and each request that waits is
\* marked on its assignment.
EndOK(a) ==
  /\ dispute[a].active => dispute[a].kind = "cancellation"
  /\ cancellation[a].status = "staff_review" => dispute[a].active
  /\ app[a].cancellationPending <=> cancellation[a].status \in {"pending", "staff_review"}

\* A posting being cancelled waits for some assignment, and is not over before.
WaitOK ==
  /\ job.cancellationPending => Unfinished(app) # {}
  /\ Over => ~ job.cancellationPending

EndsInv == WaitOK /\ \A a \in Apps : EndOK(a)

SameEnd(a) ==
  /\ app'[a].cancellationPending = app[a].cancellationPending
  /\ cancellation'[a] = cancellation[a]
  /\ dispute'[a].active = dispute[a].active
  /\ dispute'[a].kind = dispute[a].kind

LEMMA SameEndOK ==
  ASSUME NEW a \in Apps, EndOK(a), SameEnd(a)
  PROVE  EndOK(a)'
BY DEF EndOK, SameEnd

\* A posting is made to wait by nothing else than the request to cancel it.
StillWaits ==
  job'.cancellationPending =>
    /\ job.cancellationPending /\ job'.status = job.status
    /\ Unfinished(app) # {} => Unfinished(app') # {}

LEMMA WaitsOn ==
  ASSUME EndsInv, StillWaits, \A b \in Apps : EndOK(b)'
  PROVE  EndsInv'
<1>1. WaitOK'
  BY DEF EndsInv, WaitOK, StillWaits, Over
<1> QED
  BY <1>1 DEF EndsInv

\* An application changes its status, and no hire does.
LEMMA OfferStepWaits ==
  ASSUME TypeOK, EndsInv, NEW a \in Apps, OfferStep(a)
  PROVE  EndsInv'
<1>1. app \in [Apps -> Application] /\ job \in Job
  BY DEF TypeOK
<1>2. ASSUME app' = app \/ (app[a].status # "Hired"
                             /\ \E status : app' = [app EXCEPT ![a].status = status]),
             job' = job \/ job' = SyncCapacity(job, app', offer'),
             UNCHANGED << cancellation, dispute >>
      PROVE  EndsInv'
  <2>1. /\ \A b \in Apps : SameEnd(b) /\ app'[b].workStatus = app[b].workStatus
        /\ \A b \in Apps : app[b].status = "Hired" => app'[b].status = "Hired"
    BY <1>1, <1>2 DEF SameEnd, Application
  <2>2. Unfinished(app) \subseteq Unfinished(app')
    BY <2>1 DEF Unfinished, Hires
  <2>3. StillWaits
    BY <1>1, <1>2, <2>2, SyncCounts DEF StillWaits
  <2> QED
    BY <2>1, <2>3, SameEndOK, WaitsOn DEF EndsInv
<1>3. ASSUME DropOffer(a) PROVE EndsInv'
  <2>1. app' = app \/ (app[a].status # "Hired"
                        /\ \E status : app' = [app EXCEPT ![a].status = status])
    BY <1>3 DEF DropOffer, ToShortlist
  <2> QED
    BY <1>2, <1>3, <2>1 DEF DropOffer
<1>4. CASE ConfirmOfferHire(a)
  <2>1. UNCHANGED << cancellation, dispute >> /\ app[a].status = "Offer Sent" /\ Recruiting
    BY <1>4 DEF ConfirmOfferHire
  <2>2. \A b \in Apps : app'[b].cancellationPending = app[b].cancellationPending
    BY <1>1, <1>4 DEF ConfirmOfferHire, Application
  <2>3. \A b \in Apps : SameEnd(b)
    BY <2>1, <2>2 DEF SameEnd
  <2>4. job'.cancellationPending = FALSE
    BY <1>1, <1>4, <2>1 DEF ConfirmOfferHire, Recruiting, Job
  <2> QED
    BY <2>3, <2>4, SameEndOK, WaitsOn DEF EndsInv, StillWaits
<1>5. CASE ApplyForJob(a)
  BY <1>2, <1>5 DEF ApplyForJob
<1>6. CASE WithdrawApplication(a)
  BY <1>2, <1>6 DEF WithdrawApplication
<1>7. ASSUME NEW status, UpdateApplicationStatus(a, status) PROVE EndsInv'
  BY <1>2, <1>7 DEF UpdateApplicationStatus
<1>8. ASSUME NEW extra, CreateJobOffer(a, extra) PROVE EndsInv'
  BY <1>2, <1>8 DEF CreateJobOffer
<1>9. CASE AcceptJobOffer(a)
  <2>1. app' = app /\ job' = SyncCapacity(job, app', offer') /\ UNCHANGED << cancellation, dispute >>
    BY <1>9 DEF AcceptJobOffer
  <2> QED
    BY <1>2, <2>1
<1> QED
  BY <1>3, <1>4, <1>5, <1>6, <1>7, <1>8, <1>9
     DEF OfferStep, RejectJobOffer, CancelJobOffer, ExpireOffer

LEMMA SettleWaits ==
  ASSUME TypeOK, EndsInv, NEW S \in SUBSET Apps, NEW j \in Job, Settle(S, j),
         j.cancellationPending = FALSE, UNCHANGED << cancellation, dispute >>
  PROVE  EndsInv'
<1>1. app \in [Apps -> Application]
  BY DEF TypeOK
<1>2. /\ app' = [a \in Apps |-> IF a \notin S THEN app[a]
                   ELSE [app[a] EXCEPT !.paymentStatus = "Paid", !.workStatus = "Completed",
                           !.paidAmount = AlreadyPaid(a) + RemainingAgreed(a)]]
      /\ job' = Finalized(j, app', offer)
  BY DEF Settle
<1>3. \A b \in Apps : app'[b].cancellationPending = app[b].cancellationPending
  BY <1>1, <1>2 DEF Application
<1>4. \A b \in Apps : SameEnd(b)
  BY <1>3 DEF SameEnd
<1>5. job'.cancellationPending = FALSE
  <2>1. Finalized(j, app', offer).cancellationPending = j.cancellationPending
    BY FinalCounts
  <2> QED
    BY <1>2, <2>1, Zenon
<1> QED
  BY <1>4, <1>5, SameEndOK, WaitsOn DEF EndsInv, StillWaits

\* No assignment is worked on or paid while the posting is being cancelled.
LEMMA AssignmentStepWaits ==
  ASSUME TypeOK, EndsInv, NEW a \in Apps, AssignmentStep(a)
  PROVE  EndsInv'
<1>1. app \in [Apps -> Application] /\ job \in Job
  BY DEF TypeOK
<1>2. CASE SettleDirect(a)
  <2>1. Settle({a}, job) /\ job.cancellationPending = FALSE /\ UNCHANGED << cancellation, dispute >>
    BY <1>1, <1>2 DEF SettleDirect, Job
  <2>2. {a} \in SUBSET Apps
    OBVIOUS
  <2> QED
    BY <1>1, <2>1, <2>2, SettleWaits, Zenon
<1>3. CASE StartWork(a) \/ AuthorizePayment(a) \/ SubmitWork(a) \/ RequestChanges(a)
  <2>1. /\ ~ job.cancellationPending /\ UNCHANGED << job, cancellation, dispute >>
    BY <1>3 DEF StartWork, AuthorizePayment, SubmitWork, RequestChanges, Transition, Movable
  <2>2. \A b \in Apps : app'[b].cancellationPending = app[b].cancellationPending
    <3>1. \E status : \/ app' = [app EXCEPT ![a].workStatus = status]
                      \/ app' = [app EXCEPT ![a].paymentStatus = status]
      BY <1>3 DEF StartWork, AuthorizePayment, SubmitWork, RequestChanges, Transition
    <3> QED
      BY <1>1, <3>1 DEF Application
  <2>3. \A b \in Apps : SameEnd(b)
    BY <2>1, <2>2 DEF SameEnd
  <2> QED
    BY <2>1, <2>3, SameEndOK, WaitsOn DEF EndsInv, StillWaits
<1> QED
  BY <1>2, <1>3 DEF AssignmentStep

\* The last assignment that is cancelled ends the posting.
LEMMA ResolveWaits ==
  ASSUME TypeOK, TypeOK', EndsInv, NEW a \in Apps, NEW amount, NEW retainBaseFunding,
         ResolveCancelledAssignment(a, amount, retainBaseFunding),
         \A b \in Apps \ {a} : dispute'[b] = dispute[b],
         dispute'[a] = dispute[a] \/ dispute'[a].active = FALSE
  PROVE  EndsInv'
<1> DEFINE after == AfterCancelling(job, Retains(app[a], retainBaseFunding))
           synced == SyncCapacity(after, app', offer)
<1>1. /\ app \in [Apps -> Application] /\ job \in Job /\ cancellation \in [Apps -> Cancellation]
  BY DEF TypeOK
<1>2. /\ app' = [app EXCEPT ![a] = CancelledApplication(app[a], amount)]
      /\ cancellation' = [cancellation EXCEPT
           ![a] = [status |-> "resolved", workerPayment |-> amount]]
      /\ job' = EndPosting(synced, app')
  BY DEF ResolveCancelledAssignment
<1>3. app'[a].cancellationPending = FALSE /\ cancellation'[a].status = "resolved"
  <2>1. app[a] \in Application /\ app'[a] = CancelledApplication(app[a], amount)
    BY <1>1, <1>2
  <2>2. app'[a].cancellationPending = FALSE
    BY <2>1 DEF CancelledApplication, Application
  <2> QED
    BY <1>1, <1>2, <2>2
<1>4. EndOK(a)'
  BY <1>3 DEF EndOK, EndsInv
<1>5. \A b \in Apps \ {a} : SameEnd(b)
  BY <1>1, <1>2 DEF SameEnd
<1>6. \A b \in Apps : EndOK(b)'
  BY <1>4, <1>5, SameEndOK DEF EndsInv
<1>7. /\ after \in Job /\ after.cancellationPending = job.cancellationPending
      /\ job.cancellationPending => after.status = job.status
  BY <1>1 DEF AfterCancelling, Job, JobStatus
<1> HIDE DEF after
<1>8. /\ synced.cancellationPending = job.cancellationPending
      /\ job.cancellationPending => synced.status = job.status
  BY <1>7, SyncCounts
<1>9. synced \in Job
  BY <1>7, SyncType DEF TypeOK
<1> HIDE DEF synced
<1>10. /\ EndsPosting(synced, app') => job'.cancellationPending = FALSE
       /\ ~ EndsPosting(synced, app') => job' = synced
  <2>1. ~ EndsPosting(synced, app') => job' = synced
    BY <1>2 DEF EndPosting
  <2> QED
    BY <1>2, <1>9, <2>1, EndCounts
<1>11. StillWaits
  BY <1>8, <1>10 DEF StillWaits, EndsPosting
<1> QED
  BY <1>6, <1>11, WaitsOn

LEMMA CancellationStepWaits ==
  ASSUME TypeOK, TypeOK', EndsInv, DocsInv, NEW a \in Apps, CancellationStep(a)
  PROVE  EndsInv'
<1>1. /\ app \in [Apps -> Application] /\ cancellation \in [Apps -> Cancellation]
      /\ dispute \in [Apps -> Dispute]
  BY DEF TypeOK
<1>2. ASSUME app'[a].workStatus = app[a].workStatus, app'[a].status = app[a].status,
             \A b \in Apps \ {a} : app'[b] = app[b], job' = job
      PROVE  StillWaits
  <2>1. Unfinished(app') = Unfinished(app)
    BY <1>2 DEF Unfinished, Hires
  <2> QED
    BY <1>2, <2>1 DEF StillWaits
<1>3. CASE CancelBeforeStart(a)
  <2>1. ResolveCancelledAssignment(a, 0, TRUE) /\ dispute' = dispute
    BY <1>3 DEF CancelBeforeStart
  <2> QED
    BY <2>1, ResolveWaits
<1>4. ASSUME NEW workerPayment \in Proposals,
             RequestAssignmentCancellation(a, workerPayment)
      PROVE  EndsInv'
  <2>1. /\ app' = [app EXCEPT ![a].cancellationPending = TRUE]
        /\ cancellation' = [cancellation EXCEPT
             ![a] = [status |-> "pending", workerPayment |-> workerPayment]]
        /\ UNCHANGED << job, dispute >>
    BY <1>4 DEF RequestAssignmentCancellation
  <2>2. /\ app'[a].cancellationPending = TRUE /\ cancellation'[a].status = "pending"
        /\ app'[a].workStatus = app[a].workStatus /\ app'[a].status = app[a].status
        /\ \A b \in Apps \ {a} : app'[b] = app[b] /\ cancellation'[b] = cancellation[b]
    BY <1>1, <2>1 DEF Application
  <2>3. EndOK(a)'
    BY <2>1, <2>2 DEF EndsInv, EndOK
  <2>4. \A b \in Apps \ {a} : SameEnd(b)
    BY <2>1, <2>2 DEF SameEnd
  <2>5. \A b \in Apps : EndOK(b)'
    BY <2>3, <2>4, SameEndOK DEF EndsInv
  <2>6. StillWaits
    BY <1>2, <2>1, <2>2
  <2> QED
    BY <2>5, <2>6, WaitsOn
<1>5. CASE AcceptCancellation(a)
  <2>1. ResolveCancelledAssignment(a, cancellation[a].workerPayment, TRUE) /\ dispute' = dispute
    BY <1>5 DEF AcceptCancellation
  <2> QED
    BY <2>1, ResolveWaits
<1>6. CASE EscalateCancellation(a)
  <2>1. /\ cancellation[a].status = "pending"
        /\ app' = [app EXCEPT ![a].disputePending = TRUE]
        /\ cancellation' = [cancellation EXCEPT ![a].status = "staff_review"]
        /\ dispute' = IF ActiveDispute(a) THEN dispute ELSE [dispute EXCEPT
             ![a] = NewDispute("cancellation", Unpaid(app[a]))]
        /\ UNCHANGED job
    BY <1>6 DEF EscalateCancellation, OpenCase
  <2>2. /\ app'[a].cancellationPending = app[a].cancellationPending
        /\ app'[a].workStatus = app[a].workStatus /\ app'[a].status = app[a].status
        /\ cancellation'[a].status = "staff_review"
        /\ \A b \in Apps \ {a} : /\ app'[b] = app[b] /\ cancellation'[b] = cancellation[b]
                                 /\ dispute'[b] = dispute[b]
    BY <1>1, <2>1 DEF Application, Cancellation
  <2>3. dispute'[a].active = TRUE /\ dispute'[a].kind = "cancellation"
    <3>1. CASE ActiveDispute(a)
      <4>1. dispute'[a] = dispute[a] /\ dispute[a].active
        BY <2>1, <3>1 DEF ActiveDispute, DocsInv, DocsOK, DisputeOK
      <4>2. dispute[a].kind = "cancellation" /\ dispute[a].active \in BOOLEAN
        BY <1>1, <4>1 DEF EndsInv, EndOK, Dispute
      <4> QED
        BY <4>1, <4>2
    <3>2. CASE ~ ActiveDispute(a)
      <4>1. dispute'[a] = NewDispute("cancellation", Unpaid(app[a]))
        BY <1>1, <2>1, <3>2
      <4> QED
        BY <4>1 DEF NewDispute
    <3> QED
      BY <3>1, <3>2
  <2>4. EndOK(a)'
    BY <2>1, <2>2, <2>3 DEF EndsInv, EndOK
  <2>5. \A b \in Apps \ {a} : SameEnd(b)
    BY <2>2 DEF SameEnd
  <2>6. \A b \in Apps : EndOK(b)'
    BY <2>4, <2>5, SameEndOK DEF EndsInv
  <2>7. StillWaits
    BY <1>2, <2>1, <2>2
  <2> QED
    BY <2>6, <2>7, WaitsOn
<1> QED
  BY <1>3, <1>4, <1>5, <1>6
     DEF CancellationStep, RejectCancellation, EscalateOverdueCancellation

\* Finance decides cancellations only, and each decision ends the assignment.
LEMMA DisputeStepWaits ==
  ASSUME TypeOK, TypeOK', EndsInv, DocsInv, Undisputed, PlainCases,
         NEW a \in Apps, DisputeStep(a)
  PROVE  EndsInv'
<1>1. dispute \in [Apps -> Dispute] /\ dispute[a] \in Dispute
  BY DEF TypeOK
<1>2. ~ MayDispute(a)
  <2> DEFINE others == {b \in Apps \ {a} : dispute[b].status # "none"}
  <2>1. IsFiniteSet(others)
    BY ScopeAssumption, FS_Subset
  <2>2. Cardinality(others) \in Nat
    BY <2>1, FS_CardinalityType
  <2>3. MayDispute(a) <=> Cardinality(others) < 0
    BY DEF MayDispute, Undisputed
  <2> HIDE DEF others
  <2> QED
    BY <2>2, <2>3
<1>3. ASSUME NEW u, Reads(u) PROVE EndsInv'
  <2>1. UNCHANGED << job, app, cancellation, dispute >>
    BY <1>3 DEF Reads
  <2>2. (\A b \in Apps : SameEnd(b)) /\ StillWaits
    BY <2>1 DEF SameEnd, StillWaits
  <2> QED
    BY <2>2, SameEndOK, WaitsOn DEF EndsInv
<1>4. ASSUME NEW s, AssignSupport(a, s) \/ RequestEvidence(a, s)
                      \/ CompleteInvestigation(a, s)
      PROVE  EndsInv'
  BY <1>3, <1>4 DEF AssignSupport, RequestEvidence, CompleteInvestigation
<1>5. ASSUME NEW f, NEW type, ProposeSettlement(a, f, type) PROVE EndsInv'
  BY <1>3, <1>5 DEF ProposeSettlement
<1>6. CASE ApproveSettlement(a)
  <2> DEFINE s == dispute[a].settlement
  <2>1. dispute[a].kind = "cancellation"
    <3>1. dispute[a].stage = "PENDING_FINANCE_APPROVAL"
      BY <1>6 DEF ApproveSettlement
    <3>2. dispute[a].active
      BY <3>1 DEF DocsInv, DocsOK, DisputeOK
    <3> QED
      BY <3>2 DEF EndsInv, EndOK
  <2>2. ClosesAssignment(a, s)
    BY <2>1 DEF ClosesAssignment
  <2>3. ResolveCancelledAssignment(a, s.worker, FALSE)
    BY <1>6, <2>2 DEF ApproveSettlement
  <2>4. /\ \A b \in Apps \ {a} : dispute'[b] = dispute[b]
        /\ dispute'[a].active = FALSE
    <3>1. dispute' = [dispute EXCEPT ![a].status = "resolved", ![a].active = FALSE,
                        ![a].stage = "RESOLVED", ![a].settlement = NoSettlement]
      BY <1>6 DEF ApproveSettlement
    <3> QED
      BY <1>1, <3>1 DEF Dispute
  <2> QED
    BY <2>3, <2>4, ResolveWaits
<1> QED
  BY <1>2, <1>4, <1>5, <1>6
     DEF DisputeStep, OpenDispute, OpenPaymentDispute, SubmitAppeal, PlainCases

\* A case that is saved keeps its kind and stays open or closed.
LEMMA SaveStepWaits ==
  ASSUME TypeOK, EndsInv, NEW u \in saving, SaveCase(u) \/ LoseCase(u)
  PROVE  EndsInv'
<1>1. u.case \in Apps /\ dispute \in [Apps -> Dispute]
  BY DEF TypeOK, Update
<1>2. UNCHANGED << job, app, cancellation >>
  BY DEF SaveCase, LoseCase
<1>3. ASSUME NEW b \in Apps
      PROVE  dispute'[b].active = dispute[b].active /\ dispute'[b].kind = dispute[b].kind
  <2> DEFINE d == Saved(dispute[u.case], u)
  <2>1. \/ dispute' = dispute
        \/ dispute' = [dispute EXCEPT ![u.case] = d]
    BY DEF SaveCase, LoseCase
  <2>2. d.active = dispute[u.case].active /\ d.kind = dispute[u.case].kind
    BY <1>1 DEF Saved, Dispute
  <2> HIDE DEF d
  <2> QED
    BY <1>1, <2>1, <2>2
<1>4. (\A b \in Apps : SameEnd(b)) /\ StillWaits
  BY <1>2, <1>3 DEF SameEnd, StillWaits
<1> QED
  BY <1>4, SameEndOK, WaitsOn DEF EndsInv

\* The posting starts to wait if some assignment was begun, and is over if none was.
LEMMA RequestWaits ==
  ASSUME TypeOK, TypeOK', EndsInv, NEW workerPayment \in Proposals,
         RequestPostingCancellation(workerPayment)
  PROVE  EndsInv'
<1> DEFINE hired == {b \in Hires(app) : app[b].workStatus # "Completed"}
           idle == {a \in hired : app[a].workStatus = "Not started"}
           stopped == [job EXCEPT !.cancellationPending = TRUE,
                                  !.closedManually = TRUE, !.status = "Closed"]
           synced == SyncCapacity(stopped, app', offer')
<1>1. /\ app \in [Apps -> Application] /\ job \in Job /\ cancellation \in [Apps -> Cancellation]
      /\ app' \in [Apps -> Application] /\ offer' \in [Apps -> Offer]
  BY DEF TypeOK
<1>2. job' = EndPosting(synced, app') /\ dispute' = dispute
  BY DEF RequestPostingCancellation
<1>3. app' = [a \in Apps |->
           IF a \in idle THEN CancelledApplication(app[a], 0)
           ELSE IF a \in hired THEN [app[a] EXCEPT !.cancellationPending = TRUE]
           ELSE IF app[a].status \in {"Applied", "Offer Sent", "Position filled"}
                THEN [app[a] EXCEPT !.status = "Cancelled"]
           ELSE app[a]]
  BY DEF RequestPostingCancellation
<1>4. cancellation' = [a \in Apps |->
           IF a \in idle THEN [status |-> "resolved", workerPayment |-> 0]
           ELSE IF a \in hired
                THEN [status |-> "pending", workerPayment |-> workerPayment]
           ELSE cancellation[a]]
  BY DEF RequestPostingCancellation
<1>5. /\ stopped \in Job /\ stopped.cancellationPending = TRUE /\ stopped.status = "Closed"
  BY <1>1 DEF Job, JobStatus
<1> HIDE DEF hired, idle, stopped
<1>6. ASSUME NEW b \in Apps PROVE EndOK(b)'
  <2>1. app[b] \in Application /\ dispute'[b] = dispute[b] /\ EndOK(b)
    BY <1>1, <1>2 DEF EndsInv
  <2>2. CASE b \in idle
    <3>1. app'[b] = CancelledApplication(app[b], 0) /\ cancellation'[b].status = "resolved"
      BY <1>3, <1>4, <2>2
    <3>2. app'[b].cancellationPending = FALSE
      BY <2>1, <3>1 DEF CancelledApplication, Application
    <3> QED
      BY <2>1, <3>1, <3>2 DEF EndOK
  <2>3. CASE b \notin idle /\ b \in hired
    <3>1. /\ app'[b] = [app[b] EXCEPT !.cancellationPending = TRUE]
          /\ cancellation'[b].status = "pending"
      BY <1>3, <1>4, <2>3
    <3>2. app'[b].cancellationPending = TRUE
      BY <2>1, <3>1 DEF Application
    <3> QED
      BY <2>1, <3>1, <3>2 DEF EndOK
  <2>4. CASE b \notin idle /\ b \notin hired
    <3>1. /\ app'[b] = app[b] \/ app'[b] = [app[b] EXCEPT !.status = "Cancelled"]
          /\ cancellation'[b] = cancellation[b]
      BY <1>3, <1>4, <2>4
    <3>2. app'[b].cancellationPending = app[b].cancellationPending
      BY <2>1, <3>1 DEF Application
    <3> QED
      BY <2>1, <3>1, <3>2 DEF EndOK
  <2> QED
    BY <2>2, <2>3, <2>4
<1>7. synced.cancellationPending = TRUE /\ synced.status = "Closed" /\ synced \in Job
  BY <1>1, <1>5, SyncCounts, SyncType
<1> HIDE DEF synced
<1>8. CASE Unfinished(app') = {}
  <2>1. EndsPosting(synced, app')
    BY <1>7, <1>8 DEF EndsPosting
  <2>2. job'.cancellationPending = FALSE
    BY <1>2, <1>7, <2>1, EndCounts
  <2>3. WaitOK'
    BY <2>2 DEF WaitOK
  <2> QED
    BY <1>6, <2>3 DEF EndsInv
<1>9. CASE Unfinished(app') # {}
  <2>1. job' = synced
    BY <1>2, <1>9 DEF EndPosting, EndsPosting
  <2>2. WaitOK'
    BY <1>7, <1>9, <2>1 DEF WaitOK, Over, TerminalJobStatuses
  <2> QED
    BY <1>6, <2>2 DEF EndsInv
<1> QED
  BY <1>8, <1>9

LEMMA PostingStepWaits ==
  ASSUME TypeOK, TypeOK', EndsInv, PostingStep
  PROVE  EndsInv'
<1>1. /\ app \in [Apps -> Application] /\ offer \in [Apps -> Offer] /\ job \in Job
      /\ marking \in SUBSET Apps
  BY DEF TypeOK
<1>2. ASSUME UNCHANGED << app, cancellation, dispute >>,
             job'.cancellationPending => job' = job
      PROVE  EndsInv'
  <2>1. \A b \in Apps : SameEnd(b)
    BY <1>2 DEF SameEnd
  <2>2. StillWaits
    BY <1>2 DEF StillWaits
  <2> QED
    BY <2>1, <2>2, SameEndOK, WaitsOn DEF EndsInv
<1>3. ASSUME NEW positions \in 1 .. MaxPositions, NEW salary \in Salaries,
             UpdateJob(positions, salary)
      PROVE  EndsInv'
  <2>1. /\ job' = [job EXCEPT !.positionsNeeded = positions, !.salary = salary]
        /\ ~ job.cancellationPending /\ UNCHANGED << app, cancellation, dispute >>
    BY <1>3 DEF UpdateJob
  <2>2. ~ job'.cancellationPending
    BY <1>1, <2>1 DEF Job
  <2> QED
    BY <1>2, <2>1, <2>2
<1>4. CASE CloseJob
  <2> DEFINE closing == [job EXCEPT !.closedManually = TRUE]
             closed == SyncCapacity(closing, app, offer)
  <2>1. /\ job' = Finalized(closed, app, offer) /\ ~ job.cancellationPending
        /\ UNCHANGED << app, cancellation, dispute >>
    BY <1>4 DEF CloseJob
  <2>2. closing \in Job /\ closing.cancellationPending = job.cancellationPending
    BY <1>1 DEF Job
  <2> HIDE DEF closing
  <2>3. closed \in Job /\ closed.cancellationPending = job.cancellationPending
    BY <1>1, <2>2, SyncCounts, SyncType
  <2> HIDE DEF closed
  <2>4. job'.cancellationPending = job.cancellationPending
    BY <2>1, <2>3, FinalCounts
  <2> QED
    BY <1>2, <2>1, <2>4
<1>5. CASE ReopenJob
  <2> DEFINE opened == [job EXCEPT !.closedManually = FALSE, !.archived = FALSE]
  <2>1. /\ job' = SyncCapacity(opened, app, offer) /\ ~ job.cancellationPending
        /\ UNCHANGED << app, cancellation, dispute >>
    BY <1>5 DEF ReopenJob
  <2>2. opened \in Job /\ opened.cancellationPending = job.cancellationPending
    BY <1>1 DEF Job
  <2> HIDE DEF opened
  <2>3. job'.cancellationPending = job.cancellationPending
    BY <2>1, <2>2, SyncCounts
  <2> QED
    BY <1>2, <2>1, <2>3
<1>6. CASE ArchiveJob
  <2>1. /\ job' = [job EXCEPT !.archived = TRUE] /\ ~ job.cancellationPending
        /\ UNCHANGED << app, cancellation, dispute >>
    BY <1>6 DEF ArchiveJob
  <2>2. ~ job'.cancellationPending
    BY <1>1, <2>1 DEF Job
  <2> QED
    BY <1>2, <2>1, <2>2
<1>7. CASE BeginMarkDone \/ AbortMarkDone
  <2>1. UNCHANGED << job, app, cancellation, dispute >>
    BY <1>7 DEF BeginMarkDone, AbortMarkDone
  <2> QED
    BY <1>2, <2>1
<1>8. CASE CommitMarkDone
  <2> DEFINE due == {a \in marking : app[a].paymentStatus # "Paid"}
             closed == [job EXCEPT !.closedManually = TRUE]
  <2>1. /\ Settle(due, closed) /\ ~ job.cancellationPending
        /\ UNCHANGED << cancellation, dispute >>
    BY <1>8 DEF CommitMarkDone
  <2>2. closed \in Job /\ closed.cancellationPending = FALSE
    BY <1>1, <2>1 DEF Job
  <2>3. due \in SUBSET Apps
    BY <1>1
  <2> HIDE DEF due, closed
  <2> QED
    BY <2>1, <2>2, <2>3, SettleWaits
<1> QED
  BY <1>3, <1>4, <1>5, <1>6, <1>7, <1>8, RequestWaits DEF PostingStep

LEMMA InitEnds == Init => EndsInv
<1> SUFFICES ASSUME Init PROVE EndsInv
  OBVIOUS
<1>1. PICK positions \in 1 .. MaxPositions, salary \in Salaries :
        CreateJob(positions, salary)
  BY DEF Init
<1>2. job.status = "Available" /\ job.cancellationPending = FALSE
  <2>1. job = NewJob(positions, salary)
    BY <1>1 DEF CreateJob
  <2> QED
    BY <2>1 DEF NewJob
<1>3. WaitOK
  BY <1>2 DEF WaitOK, Over, TerminalJobStatuses
<1>4. ASSUME NEW a \in Apps PROVE EndOK(a)
  <2>1. app[a] = NoApplication
    BY DEF Init
  <2>2. NoApplication.cancellationPending = FALSE
    BY Zenon DEF NoApplication
  <2>3. app[a].cancellationPending = FALSE
    BY <2>1, <2>2, Zenon
  <2>4. cancellation[a].status = "none" /\ dispute[a].active = FALSE
    BY DEF Init
  <2> QED
    BY <2>3, <2>4 DEF EndOK
<1> QED
  BY <1>3, <1>4 DEF EndsInv

LEMMA NextEnds ==
  ASSUME PlainCases, Undisputed
  PROVE  FundsInv /\ EndsInv /\ [Next]_vars => EndsInv'
<1> SUFFICES ASSUME FundsInv, EndsInv, [Next]_vars PROVE EndsInv'
  OBVIOUS
<1>1. TypeOK /\ DocsInv
  BY DEF FundsInv, BaseInv, PaidInv, MoreInv
<1>2. TypeOK'
  BY <1>1, NextType
<1>3. CASE PostingStep
  BY <1>1, <1>2, <1>3, PostingStepWaits
<1>4. ASSUME NEW a \in Apps,
             OfferStep(a) \/ AssignmentStep(a) \/ CancellationStep(a) \/ DisputeStep(a)
      PROVE  EndsInv'
  BY <1>1, <1>2, <1>4, OfferStepWaits, AssignmentStepWaits, CancellationStepWaits,
     DisputeStepWaits
<1>5. CASE UNCHANGED vars
  <2>1. (\A b \in Apps : SameEnd(b)) /\ StillWaits
    BY <1>5 DEF vars, SameEnd, StillWaits
  <2> QED
    BY <2>1, SameEndOK, WaitsOn DEF EndsInv
<1> QED
  BY <1>1, <1>3, <1>4, <1>5, SaveStepWaits DEF Next

(***************************************************************************)
(* While no party opens a dispute, the cases there are come from           *)
(* cancellations, every request that waits is marked on its assignment,    *)
(* and a posting being cancelled waits for an assignment and not longer.   *)
(***************************************************************************)
THEOREM EndsInvariant ==
  ASSUME PlainCases, Undisputed
  PROVE  Spec => []EndsInv
<1>1. Init => EndsInv
  BY InitEnds
<1>2. FundsInv /\ EndsInv /\ [Next]_vars => EndsInv'
  BY NextEnds
<1> QED
  BY <1>1, <1>2, FundsInvariant, PTL DEF Spec

(***************************************************************************)
(* A posting that is over, by whichever handler came last, keeps no        *)
(* escrow, no offer, no hire at work or unpaid and no cancellation that    *)
(* waits.                                                                  *)
(***************************************************************************)
THEOREM NothingLeftBehindAlways ==
  ASSUME PlainCases, Undisputed
  PROVE  Spec => []NothingLeftBehind
<1>1. FundsInv /\ EndsInv => NothingLeftBehind
  BY DEF FundsInv, MoreInv, JobOK, EndsInv, WaitOK, Over, NothingLeftBehind,
         RemainingJobFunds
<1> QED
  BY <1>1, FundsInvariant, EndsInvariant, PTL

(***************************************************************************)
(* A posting being cancelled waits for an assignment that somebody can     *)
(* still resolve: by an answer, or by Finance with an open case.           *)
(***************************************************************************)
THEOREM CancellationCanFinishAlways ==
  ASSUME PlainCases, Undisputed
  PROVE  Spec => []CancellationCanFinish
<1>1. EndsInv => CancellationCanFinish
  BY DEF EndsInv, EndOK, WaitOK, CancellationCanFinish
<1> QED
  BY <1>1, EndsInvariant, PTL

==============================================================================
