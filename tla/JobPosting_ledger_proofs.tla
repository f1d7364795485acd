------------------------ MODULE JobPosting_ledger_proofs ------------------------
(***************************************************************************)
(* What holds of a posting's money and of its counters for every value of  *)
(* the constants, disputes over part of the pay and appeals included: no   *)
(* money is made or lost, and no position is given twice.                  *)
(***************************************************************************)
EXTENDS JobPosting_proofs, FiniteSetLemmas

(* ---- amounts ----------------------------------------------------------- *)

\* The sums of the model are the sums of the lemmas.
LEMMA SumOverIsSum ==
  ASSUME NEW f, NEW S, IsFiniteSet(S), \A x \in S : f[x] \in Nat
  PROVE  SumOver(f, S) = Sum(f, S)
<1>1. RawSum(f, S) = Sum(f, S)
  BY DEF RawSum, Sum
<1>2. Sum(f, S) \in Nat
  BY SumIsNumber
<1> QED
  BY <1>1, <1>2 DEF SumOver

\* A payment out of two wallets is the payment.
LEMMA SourcesAmount ==
  ASSUME NEW f \in [Wallets -> Int], NEW amount \in Nat
  PROVE  AmountOf(JobSpendingSources(f, amount)) = amount
BY DEF JobSpendingSources, Least, AmountOf, Wallets

LEMMA Amounts ==
  ASSUME NEW f \in Money, NEW g \in Money, NEW amount \in Nat
  PROVE  /\ AmountOf(Plus(f, g)) = AmountOf(f) + AmountOf(g)
         /\ AmountOf(Minus(f, g)) = AmountOf(f) - AmountOf(g)
         /\ AmountOf(FromEmployer(amount)) = amount
         /\ AmountOf(Nothing) = 0
         /\ f["EMPLOYER"] \in Nat /\ f["WORKER"] \in Nat
BY DEF Plus, Minus, FromEmployer, Nothing, AmountOf, Money, Wallets

(***************************************************************************)
(* What a step that pays workers "gain" in all does to the employer's      *)
(* money: the wallets and the escrow lose exactly that, and no wallet and  *)
(* its share of the escrow together gain.                                  *)
(***************************************************************************)
Spends(gain) ==
  /\ AmountOf(wallet') + AmountOf(pot') + gain = AmountOf(wallet) + AmountOf(pot)
  /\ \A w \in Wallets : wallet'[w] + pot'[w] <= wallet[w] + pot[w]

LEMMA ReleaseSpends ==
  ASSUME TypeOK, NEW spent \in Money, NEW returned \in Money, NEW ends \in BOOLEAN,
         ReleaseFunds(spent, returned, ends)
  PROVE  /\ Spends(AmountOf(spent))
         /\ ~ ends => AmountOf(pot') = AmountOf(pot) - AmountOf(spent) - AmountOf(returned)
         /\ ends => AmountOf(pot') = 0
         /\ AmountOf(wallet') >= AmountOf(wallet)
<1>1. /\ spent["EMPLOYER"] \in Nat /\ spent["WORKER"] \in Nat
      /\ returned["EMPLOYER"] \in Nat /\ returned["WORKER"] \in Nat
      /\ pot["EMPLOYER"] \in Nat /\ pot["WORKER"] \in Nat
      /\ wallet["EMPLOYER"] \in Nat /\ wallet["WORKER"] \in Nat
  BY DEF TypeOK, Money, Wallets
<1>2. /\ spent["EMPLOYER"] + returned["EMPLOYER"] <= pot["EMPLOYER"]
      /\ spent["WORKER"] + returned["WORKER"] <= pot["WORKER"]
  BY DEF ReleaseFunds, Wallets
<1>3. CASE ends
  <2>1. /\ pot'["EMPLOYER"] = 0 /\ pot'["WORKER"] = 0
        /\ wallet'["EMPLOYER"] = wallet["EMPLOYER"] + (pot["EMPLOYER"] - spent["EMPLOYER"])
        /\ wallet'["WORKER"] = wallet["WORKER"] + (pot["WORKER"] - spent["WORKER"])
    BY <1>3 DEF ReleaseFunds, Nothing, Plus, Minus, Wallets
  <2> QED
    BY <1>1, <1>2, <1>3, <2>1 DEF Spends, AmountOf, Wallets
<1>4. CASE ~ ends
  <2>1. /\ pot'["EMPLOYER"] = pot["EMPLOYER"] - (spent["EMPLOYER"] + returned["EMPLOYER"])
        /\ pot'["WORKER"] = pot["WORKER"] - (spent["WORKER"] + returned["WORKER"])
        /\ wallet'["EMPLOYER"] = wallet["EMPLOYER"] + returned["EMPLOYER"]
        /\ wallet'["WORKER"] = wallet["WORKER"] + returned["WORKER"]
    BY <1>4 DEF ReleaseFunds, Plus, Minus, Wallets
  <2> QED
    BY <1>1, <1>2, <1>4, <2>1 DEF Spends, AmountOf, Wallets
<1> QED
  BY <1>3, <1>4

(***************************************************************************)
(* The spending of a payment and then of what it leaves over.              *)
(***************************************************************************)
LEMMA PaysAndReturns ==
  ASSUME TypeOK, NEW amount \in Nat, NEW returned \in Nat, NEW ends \in BOOLEAN,
         ReleaseFunds(JobSpendingSources(pot, amount),
                      JobSpendingSources(Minus(pot, JobSpendingSources(pot, amount)), returned),
                      ends)
  PROVE  /\ Spends(amount)
         /\ ~ ends => AmountOf(pot') = AmountOf(pot) - amount - returned
         /\ ends => AmountOf(pot') = 0
         /\ AmountOf(wallet') >= AmountOf(wallet)
<1> DEFINE spent == JobSpendingSources(pot, amount)
           rest == Minus(pot, spent)
           back == JobSpendingSources(rest, returned)
<1>1. pot \in Money /\ pot \in [Wallets -> Int] /\ pot["WORKER"] \in Nat
  BY DEF TypeOK, Money, Wallets
<1>2. spent \in Money /\ AmountOf(spent) = amount
  BY <1>1, SourcesType, SourcesAmount
<1>3. back \in Money
  BY <1>1, SpentFirstType
<1>4. rest \in [Wallets -> Int]
  <2> HIDE DEF spent
  <2> QED
    BY <1>1, <1>2 DEF Minus, Money
<1>5. AmountOf(back) = returned
  <2> HIDE DEF rest
  <2> QED
    BY <1>4, SourcesAmount
<1>6. ReleaseFunds(spent, back, ends)
  OBVIOUS
<1> HIDE DEF spent, back
<1> QED
  BY <1>2, <1>3, <1>5, <1>6, ReleaseSpends

(* ---- what workers receive ---------------------------------------------- *)

Payments == Sum(received, Apps)

LEMMA PaymentsType ==
  ASSUME TypeOK
  PROVE  Payments \in Nat /\ SumOver(received, Apps) = Payments /\ IsFiniteSet(Apps)
<1>1. IsFiniteSet(Apps) /\ \A a \in Apps : received[a] \in Nat
  BY ScopeAssumption DEF TypeOK
<1> QED
  BY <1>1, SumIsNumber, SumOverIsSum DEF Payments

\* One worker is paid.
LEMMA OneIsPaid ==
  ASSUME TypeOK, NEW a \in Apps, NEW amount \in Nat,
         received' = [received EXCEPT ![a] = received[a] + amount]
  PROVE  Payments' = Payments + amount
<1> DEFINE f == received
           g == received'
<1>1. /\ IsFiniteSet(Apps)
      /\ \A b \in Apps : f[b] \in Int
      /\ \A b \in Apps \ {a} : g[b] = f[b]
      /\ g[a] = f[a] + amount
  BY ScopeAssumption DEF TypeOK
<1>2. amount \in Int
  OBVIOUS
<1>3. Payments = Sum(f, Apps) /\ Payments' = Sum(g, Apps)
  BY DEF Payments
<1> HIDE DEF f, g
<1>4. Sum(g, Apps) = Sum(f, Apps) + amount
  BY ONLY <1>1, <1>2, SumRaise, a \in Apps
<1> QED
  BY <1>3, <1>4

\* Several are paid at once.
LEMMA SettlePays ==
  ASSUME TypeOK, NEW S \in SUBSET Apps, NEW j, Settle(S, j)
  PROVE  /\ SumOver([a \in Apps |-> RemainingAgreed(a)], S) \in Nat
         /\ SumOver([a \in Apps |-> RemainingAgreed(a)], S)
              = Sum([a \in Apps |-> RemainingAgreed(a)], S)
         /\ Payments' = Payments + SumOver([a \in Apps |-> RemainingAgreed(a)], S)
<1> DEFINE owed == [a \in Apps |-> RemainingAgreed(a)]
           part == [a \in Apps |-> IF a \in S THEN RemainingAgreed(a) ELSE 0]
<1>1. \A a \in Apps : RemainingAgreed(a) \in Nat /\ received[a] \in Nat
  BY SnapshotType
<1>2. IsFiniteSet(Apps) /\ IsFiniteSet(S)
  BY ScopeAssumption, FS_Subset
<1>3. \A a \in Apps : part[a] \in Int /\ received[a] \in Int
                      /\ received'[a] = received[a] + part[a]
  <2>1. received' = [a \in Apps |-> received[a] + (IF a \in S THEN RemainingAgreed(a) ELSE 0)]
    BY DEF Settle
  <2> QED
    BY <1>1, <2>1
<1>4. /\ \A a \in S : owed[a] \in Nat /\ part[a] = owed[a]
      /\ \A a \in Apps \ S : part[a] = 0
  BY <1>1
<1> HIDE DEF owed, part
<1>5. Sum(received', Apps) = Sum(received, Apps) + Sum(part, Apps)
  BY <1>2, <1>3, SumPlus
<1>6. Sum(part, Apps) = Sum(part, S)
  BY <1>2, <1>3, <1>4, SumOfPart
<1>7. Sum(part, S) = Sum(owed, S)
  BY <1>2, <1>4, SumEqual
<1>8. SumOver(owed, S) = Sum(owed, S)
  BY <1>2, <1>4, SumOverIsSum
<1>9. Sum(owed, S) \in Nat
  BY <1>2, <1>4, SumIsNumber
<1> QED
  BY <1>5, <1>6, <1>7, <1>8, <1>9 DEF Payments, owed

(* ---- what each step does to the money ----------------------------------- *)

\* A step that pays workers "gain" in all, and keeps the rest of the money.
Conserves(gain) == gain \in Nat /\ Spends(gain) /\ Payments' = Payments + gain

\* A step that moves no money.
LEMMA QuietConserves ==
  ASSUME TypeOK, UNCHANGED << pot, wallet, received >>
  PROVE  Conserves(0)
<1>1. /\ AmountOf(wallet) \in Nat /\ AmountOf(pot) \in Nat
      /\ \A w \in Wallets : wallet[w] \in Nat /\ pot[w] \in Nat
  BY MoneyType DEF TypeOK, Money, AmountOf, Wallets
<1>2. Payments \in Nat /\ Payments' = Payments
  BY PaymentsType DEF Payments
<1>3. Spends(0)
  BY <1>1 DEF Spends
<1> QED
  BY <1>2, <1>3 DEF Conserves

\* An extra goes back to the employer.
LEMMA RefundConserves ==
  ASSUME TypeOK, NEW a \in Apps, RefundOfferExtra(a), UNCHANGED received
  PROVE  /\ Conserves(0)
         /\ AmountOf(pot') = AmountOf(pot) - offer[a].extra
         /\ AmountOf(wallet') >= AmountOf(wallet)
         /\ pot'["EMPLOYER"] = pot["EMPLOYER"] - offer[a].extra
<1> DEFINE extra == offer[a].extra
<1>1. extra \in Nat /\ pot \in Money /\ pot["EMPLOYER"] \in Nat
  BY DEF TypeOK, Offer, Money, Wallets
<1>2. ReleaseFunds(Nothing, FromEmployer(extra), FALSE)
  BY DEF RefundOfferExtra
<1> HIDE DEF extra
<1>3. /\ Nothing \in Money /\ FromEmployer(extra) \in Money
      /\ AmountOf(Nothing) = 0 /\ AmountOf(FromEmployer(extra)) = extra
      /\ AmountOf(pot) \in Nat
  BY <1>1, MoneyType, Amounts
<1>4. /\ Spends(0)
      /\ AmountOf(pot') = AmountOf(pot) - 0 - extra
      /\ AmountOf(wallet') >= AmountOf(wallet)
  BY <1>2, <1>3, ReleaseSpends
<1>5. pot'["EMPLOYER"] = pot["EMPLOYER"] - (0 + extra)
  BY <1>2 DEF ReleaseFunds, Minus, Plus, Nothing, FromEmployer, Wallets
<1>6. Payments \in Nat /\ Payments' = Payments
  BY PaymentsType DEF Payments
<1>7. Conserves(0)
  BY <1>4, <1>6 DEF Conserves
<1>8. AmountOf(pot) - 0 - extra = AmountOf(pot) - extra
      /\ pot["EMPLOYER"] - (0 + extra) = pot["EMPLOYER"] - extra
  BY <1>1, <1>3
<1> QED
  BY <1>4, <1>5, <1>7, <1>8 DEF extra

\* The employer puts an extra into escrow.
LEMMA OfferConserves ==
  ASSUME TypeOK, NEW a \in Apps, NEW extra \in Extras, CreateJobOffer(a, extra)
  PROVE  /\ Conserves(0)
         /\ AmountOf(pot') = AmountOf(pot) + extra
         /\ pot'["EMPLOYER"] = pot["EMPLOYER"] + extra
<1>1. /\ extra \in Nat
      /\ pot["EMPLOYER"] \in Nat /\ pot["WORKER"] \in Nat
      /\ wallet["EMPLOYER"] \in Nat /\ wallet["WORKER"] \in Nat
  BY AmountsAssumption DEF TypeOK, Wallets
<1>2. /\ pot' = Plus(pot, FromEmployer(extra))
      /\ wallet' = Minus(wallet, FromEmployer(extra))
      /\ received' = received
  BY DEF CreateJobOffer
<1>3. /\ pot'["EMPLOYER"] = pot["EMPLOYER"] + extra
      /\ pot'["WORKER"] = pot["WORKER"] + 0
      /\ wallet'["EMPLOYER"] = wallet["EMPLOYER"] - extra
      /\ wallet'["WORKER"] = wallet["WORKER"] - 0
  BY <1>2 DEF Plus, Minus, FromEmployer, Wallets
<1>4. Spends(0) /\ AmountOf(pot') = AmountOf(pot) + extra
  BY <1>1, <1>3 DEF Spends, AmountOf, Wallets
<1>5. Payments \in Nat /\ Payments' = Payments
  BY <1>2, PaymentsType DEF Payments
<1> QED
  BY <1>3, <1>4, <1>5 DEF Conserves

\* The escrow follows the posting's size and pay.
LEMMA UpdateJobConserves ==
  ASSUME TypeOK, NEW positions \in 1 .. MaxPositions, NEW salary \in Salaries,
         UpdateJob(positions, salary)
  PROVE  /\ Conserves(0)
         /\ AmountOf(pot') = AmountOf(pot)
              + (positions * salary - job.positionsNeeded * job.salary)
         /\ job.positionsNeeded * job.salary \in Nat /\ positions * salary \in Nat
<1> DEFINE before == job.positionsNeeded * job.salary
           after == positions * salary
           fromEmployer == Least(wallet["EMPLOYER"], after - before)
           added == [w \in Wallets |-> IF w = "EMPLOYER" THEN fromEmployer
                                       ELSE after - before - fromEmployer]
<1>1. job \in Job /\ pot \in Money /\ wallet \in Money
  BY DEF TypeOK, Money
<1>2. before \in Nat /\ after \in Nat
  <2>1. /\ job.positionsNeeded \in Nat /\ job.salary \in Nat
        /\ positions \in Nat /\ salary \in Nat
    <3>1. MaxPositions \in Nat
      BY AmountsAssumption
    <3>2. job.positionsNeeded \in 1 .. MaxPositions /\ job.salary \in Salaries
      BY <1>1 DEF Job
    <3>3. job.salary \in Nat /\ salary \in Nat
      BY <3>2, SalaryType
    <3> QED
      BY <3>1, <3>2, <3>3
  <2> QED
    BY <2>1
<1>3. Payments \in Nat /\ Payments' = Payments
  BY PaymentsType DEF Payments, UpdateJob
<1> HIDE DEF before, after
<1>4. /\ wallet["EMPLOYER"] \in Nat /\ wallet["WORKER"] \in Nat
      /\ pot["EMPLOYER"] \in Nat /\ pot["WORKER"] \in Nat
  BY <1>1 DEF Money, Wallets
<1>5. CASE after >= before
  <2>1. wallet' = Minus(wallet, added) /\ pot' = Plus(pot, added)
    BY <1>5 DEF UpdateJob, before, after
  <2>2. fromEmployer \in Int
    BY <1>2, <1>4 DEF Least
  <2> HIDE DEF fromEmployer
  <2>3. /\ wallet'["EMPLOYER"] = wallet["EMPLOYER"] - fromEmployer
        /\ wallet'["WORKER"] = wallet["WORKER"] - (after - before - fromEmployer)
        /\ pot'["EMPLOYER"] = pot["EMPLOYER"] + fromEmployer
        /\ pot'["WORKER"] = pot["WORKER"] + (after - before - fromEmployer)
    BY <2>1 DEF Minus, Plus, Wallets
  <2>4. Spends(0) /\ AmountOf(pot') = AmountOf(pot) + (after - before)
    BY <1>2, <1>4, <2>2, <2>3 DEF Spends, AmountOf, Wallets
  <2>5. Conserves(0)
    BY <1>3, <2>4 DEF Conserves
  <2> QED
    BY <1>2, <2>4, <2>5 DEF before, after
<1>6. CASE ~ (after >= before)
  <2>1. ReleaseFunds(Nothing, JobSpendingSources(pot, before - after), FALSE)
    BY <1>6 DEF UpdateJob, before, after
  <2>2. Nothing \in Money /\ AmountOf(Nothing) = 0
    BY <1>1, MoneyType, Amounts
  <2>3. before - after \in Nat
    BY <1>2, <1>6
  <2>4. /\ JobSpendingSources(pot, before - after) \in Money
        /\ AmountOf(JobSpendingSources(pot, before - after)) = before - after
    BY <1>1, <2>3, SourcesType, SourcesAmount DEF Money, Wallets
  <2>5. Spends(0) /\ AmountOf(pot') = AmountOf(pot) - 0 - (before - after)
    BY <2>1, <2>2, <2>4, ReleaseSpends
  <2>6. AmountOf(pot) \in Nat
    BY <1>4 DEF AmountOf
  <2>7. AmountOf(pot') = AmountOf(pot) + (after - before)
    BY <1>2, <2>5, <2>6
  <2>8. Conserves(0)
    BY <1>3, <2>5 DEF Conserves
  <2> QED
    BY <1>2, <2>7, <2>8 DEF before, after
<1> QED
  BY <1>5, <1>6

\* Payments come out of the escrow, and what is over goes back.
LEMMA SettleConserves ==
  ASSUME TypeOK, NEW S \in SUBSET Apps, NEW j, Settle(S, j)
  PROVE  LET total == SumOver([a \in Apps |-> RemainingAgreed(a)], S)
             ends == Finalizes(j, app', offer)
         IN  /\ Conserves(total)
             /\ ~ ends => AmountOf(pot') = AmountOf(pot) - total
             /\ ends => AmountOf(pot') = 0
             /\ AmountOf(wallet') >= AmountOf(wallet)
<1> DEFINE total == SumOver([a \in Apps |-> RemainingAgreed(a)], S)
           ends == Finalizes(j, app', offer)
           spent == JobSpendingSources(pot, total)
<1>1. total \in Nat /\ Payments' = Payments + total
  BY SettlePays
<1>2. ends \in BOOLEAN
  BY DEF Finalizes
<1>3. ReleaseFunds(spent, Nothing, ends)
  BY DEF Settle
<1> HIDE DEF total, ends
<1>4. /\ spent \in Money /\ AmountOf(spent) = total
      /\ Nothing \in Money /\ AmountOf(Nothing) = 0 /\ AmountOf(pot) \in Nat
  BY <1>1, SourcesType, SourcesAmount, MoneyType, Amounts DEF TypeOK, Money, Wallets
<1> HIDE DEF spent
<1>5. /\ Spends(total)
      /\ ~ ends => AmountOf(pot') = AmountOf(pot) - total - 0
      /\ ends => AmountOf(pot') = 0
      /\ AmountOf(wallet') >= AmountOf(wallet)
  BY <1>2, <1>3, <1>4, ReleaseSpends
<1>6. AmountOf(pot) - total - 0 = AmountOf(pot) - total
  BY <1>1, <1>4
<1> QED
  BY <1>1, <1>5, <1>6 DEF Conserves, total, ends

\* A cancelled assignment: the payment goes to its worker, what nobody needs
\* any more to the employer.
LEMMA ResolveConserves ==
  ASSUME TypeOK, NEW a \in Apps, NEW amount \in Nat, NEW retainBaseFunding \in BOOLEAN,
         ResolveCancelledAssignment(a, amount, retainBaseFunding)
  PROVE  LET retains == Retains(app[a], retainBaseFunding)
             unused == Monus(Unpaid(app[a]) - amount, IF retains THEN job.salary ELSE 0)
             returned == IF << "assignment-cancellation-refund", a >> \in references
                         THEN 0 ELSE unused
             synced == SyncCapacity(AfterCancelling(job, retains), app', offer)
             ends == EndsPosting(synced, app')
         IN  /\ Conserves(amount)
             /\ unused \in Nat
             /\ ~ ends => AmountOf(pot') = AmountOf(pot) - amount - returned
             /\ ends => AmountOf(pot') = 0
             /\ AmountOf(wallet') >= AmountOf(wallet)
<1> DEFINE retains == Retains(app[a], retainBaseFunding)
           unused == Monus(Unpaid(app[a]) - amount, IF retains THEN job.salary ELSE 0)
           returned == IF << "assignment-cancellation-refund", a >> \in references
                       THEN 0 ELSE unused
           synced == SyncCapacity(AfterCancelling(job, retains), app', offer)
           ends == EndsPosting(synced, app')
<1>1. unused \in Nat
  <2>1. amount <= Unpaid(app[a]) /\ Unpaid(app[a]) \in Nat
    BY SnapshotType DEF ResolveCancelledAssignment
  <2>2. job.salary \in Salaries
    BY DEF TypeOK, Job
  <2>3. job.salary \in Nat
    BY <2>2, SalaryType
  <2> QED
    BY <2>1, <2>3 DEF Monus
<1>2. returned \in Nat
  BY <1>1
<1>3. ends \in BOOLEAN
  BY DEF EndsPosting
<1>4. ReleaseFunds(JobSpendingSources(pot, amount),
        JobSpendingSources(Minus(pot, JobSpendingSources(pot, amount)), returned), ends)
  BY DEF ResolveCancelledAssignment
<1>5. received' = [received EXCEPT ![a] = received[a] + amount]
  BY DEF ResolveCancelledAssignment
<1> HIDE DEF unused, returned, ends
<1>6. /\ Spends(amount)
      /\ ~ ends => AmountOf(pot') = AmountOf(pot) - amount - returned
      /\ ends => AmountOf(pot') = 0
      /\ AmountOf(wallet') >= AmountOf(wallet)
  BY <1>2, <1>3, <1>4, PaysAndReturns
<1>7. Payments' = Payments + amount
  BY <1>5, OneIsPaid
<1> QED
  BY <1>1, <1>6, <1>7 DEF Conserves, unused, returned, ends

\* A decision on an assignment that goes on.
LEMMA KeepConserves ==
  ASSUME TypeOK, NEW a \in Apps, NEW s \in Settlement, KeepAssignment(a, s)
  PROVE  /\ Conserves(s.worker)
         /\ AmountOf(pot') = AmountOf(pot) - s.worker - s.refund
         /\ AmountOf(wallet') >= AmountOf(wallet)
<1>1. s.worker \in Nat /\ s.refund \in Nat
  BY DEF Settlement
<1>2. /\ ReleaseFunds(JobSpendingSources(pot, s.worker),
           JobSpendingSources(Minus(pot, JobSpendingSources(pot, s.worker)), s.refund),
           FALSE)
      /\ received' = [received EXCEPT ![a] = received[a] + s.worker]
  BY DEF KeepAssignment
<1>3. /\ Spends(s.worker)
      /\ AmountOf(pot') = AmountOf(pot) - s.worker - s.refund
      /\ AmountOf(wallet') >= AmountOf(wallet)
  BY <1>1, <1>2, PaysAndReturns
<1>4. Payments' = Payments + s.worker
  BY <1>1, <1>2, OneIsPaid
<1> QED
  BY <1>1, <1>3, <1>4 DEF Conserves

\* Closing by hand, which may finalize the posting.
LEMMA CloseConserves ==
  ASSUME TypeOK, CloseJob
  PROVE  LET ends == Finalizes(SyncCapacity([job EXCEPT !.closedManually = TRUE], app, offer),
                               app, offer)
         IN  /\ Conserves(0)
             /\ ~ ends => AmountOf(pot') = AmountOf(pot)
             /\ ends => AmountOf(pot') = 0
             /\ AmountOf(wallet') >= AmountOf(wallet)
<1> DEFINE ends == Finalizes(SyncCapacity([job EXCEPT !.closedManually = TRUE], app, offer),
                             app, offer)
<1>1. /\ ReleaseFunds(Nothing, Nothing, ends) /\ ends \in BOOLEAN
      /\ received' = received
  BY DEF CloseJob, Finalizes
<1>2. Nothing \in Money /\ AmountOf(Nothing) = 0 /\ AmountOf(pot) \in Nat
  BY MoneyType, Amounts DEF TypeOK, Money
<1>3. Payments \in Nat /\ Payments' = Payments
  BY <1>1, PaymentsType DEF Payments
<1> HIDE DEF ends
<1>4. /\ Spends(0)
      /\ ~ ends => AmountOf(pot') = AmountOf(pot) - 0 - 0
      /\ ends => AmountOf(pot') = 0
      /\ AmountOf(wallet') >= AmountOf(wallet)
  BY <1>1, <1>2, ReleaseSpends
<1>5. AmountOf(pot) - 0 - 0 = AmountOf(pot)
  BY <1>2
<1>6. Conserves(0)
  BY <1>3, <1>4 DEF Conserves
<1> QED
  BY <1>4, <1>5, <1>6 DEF ends

\* The end of recruitment: the extras and the pay of work not begun go back.
LEMMA RequestConserves ==
  ASSUME TypeOK, NEW workerPayment \in Proposals,
         RequestPostingCancellation(workerPayment)
  PROVE  LET idle == {a \in {b \in Hires(app) : app[b].workStatus # "Completed"} :
                        app[a].workStatus = "Not started"}
             extras == SumOver([a \in Apps |-> offer[a].extra], ActiveOffers(offer))
             unused == SumOver([a \in Apps |-> Unpaid(app[a])], idle)
             stopped == [job EXCEPT !.cancellationPending = TRUE,
                                    !.closedManually = TRUE, !.status = "Closed"]
             ends == EndsPosting(SyncCapacity(stopped, app', offer'), app')
         IN  /\ Conserves(0)
             /\ ~ ends => /\ AmountOf(pot') = AmountOf(pot) - extras - unused
                          /\ pot'["EMPLOYER"] + extras <= pot["EMPLOYER"]
             /\ ends => AmountOf(pot') = 0
             /\ AmountOf(wallet') >= AmountOf(wallet)
<1> DEFINE idle == {a \in {b \in Hires(app) : app[b].workStatus # "Completed"} :
                      app[a].workStatus = "Not started"}
           extras == SumOver([a \in Apps |-> offer[a].extra], ActiveOffers(offer))
           unused == SumOver([a \in Apps |-> Unpaid(app[a])], idle)
           stopped == [job EXCEPT !.cancellationPending = TRUE,
                                  !.closedManually = TRUE, !.status = "Closed"]
           ends == EndsPosting(SyncCapacity(stopped, app', offer'), app')
           withdrawn == FromEmployer(extras)
           freed == JobSpendingSources(Minus(pot, withdrawn), unused)
<1>1. /\ ReleaseFunds(Nothing, Plus(withdrawn, freed), ends) /\ ends \in BOOLEAN
      /\ received' = received
  BY DEF RequestPostingCancellation, EndsPosting
<1>2. extras \in Nat /\ unused \in Nat
  BY SumType
<1>3. Payments \in Nat /\ Payments' = Payments
  BY <1>1, PaymentsType DEF Payments
<1> HIDE DEF extras, unused, ends
<1>4. /\ pot \in Money /\ pot["WORKER"] \in Nat /\ pot["EMPLOYER"] \in Nat
      /\ AmountOf(pot) \in Nat
  BY MoneyType DEF TypeOK, Money, Wallets
<1>5. /\ withdrawn \in Money /\ AmountOf(withdrawn) = extras
      /\ withdrawn["EMPLOYER"] = extras /\ withdrawn["WORKER"] = 0
      /\ Nothing \in Money /\ AmountOf(Nothing) = 0
  BY <1>2, <1>4, MoneyType, Amounts DEF FromEmployer, Wallets
<1>6. Minus(pot, withdrawn) \in [Wallets -> Int] /\ Minus(pot, withdrawn)["WORKER"] \in Nat
  <2> HIDE DEF withdrawn
  <2> QED
    BY <1>4, <1>5 DEF Minus, Money, Wallets
<1>7. freed \in Money /\ AmountOf(freed) = unused /\ freed["EMPLOYER"] \in Nat
  <2>1. freed \in Money /\ AmountOf(freed) = unused
    BY <1>2, <1>6, SourcesType, SourcesAmount
  <2> HIDE DEF freed
  <2> QED
    BY <2>1 DEF Money, Wallets
<1> HIDE DEF withdrawn, freed
<1>8. /\ Plus(withdrawn, freed) \in Money
      /\ AmountOf(Plus(withdrawn, freed)) = extras + unused
  BY <1>2, <1>5, <1>7, MoneyType, Amounts
<1>9. /\ Spends(0)
      /\ ~ ends => AmountOf(pot') = AmountOf(pot) - 0 - (extras + unused)
      /\ ends => AmountOf(pot') = 0
      /\ AmountOf(wallet') >= AmountOf(wallet)
  BY <1>1, <1>5, <1>8, ReleaseSpends
<1>10. Conserves(0)
  BY <1>3, <1>9 DEF Conserves
<1>11. ~ ends => pot'["EMPLOYER"] + extras <= pot["EMPLOYER"]
  <2>1. ~ ends => pot'["EMPLOYER"] = pot["EMPLOYER"] - (0 + (extras + freed["EMPLOYER"]))
    BY <1>1, <1>5 DEF ReleaseFunds, Minus, Plus, Nothing, Wallets
  <2> QED
    BY <1>2, <1>4, <1>7, <2>1
<1>12. AmountOf(pot) - 0 - (extras + unused) = AmountOf(pot) - extras - unused
  BY <1>2, <1>4
<1> QED
  BY <1>9, <1>10, <1>11, <1>12 DEF extras, unused, ends

(***************************************************************************)
(* A step of any handler pays workers some amount and moves the rest       *)
(* between escrow and the employer.                                        *)
(***************************************************************************)
LEMMA OfferStepConserves ==
  ASSUME TypeOK, NEW a \in Apps, OfferStep(a)
  PROVE  Conserves(0)
<1>1. CASE ApplyForJob(a)
  BY <1>1, QuietConserves DEF ApplyForJob
<1>2. CASE WithdrawApplication(a)
  BY <1>2, RefundConserves DEF WithdrawApplication
<1>3. ASSUME NEW status \in {"Applied", "Rejected"}, UpdateApplicationStatus(a, status)
      PROVE  Conserves(0)
  BY <1>3, QuietConserves DEF UpdateApplicationStatus
<1>4. ASSUME NEW extra \in Extras, CreateJobOffer(a, extra)
      PROVE  Conserves(0)
  BY <1>4, OfferConserves
<1>5. CASE AcceptJobOffer(a)
  BY <1>5, QuietConserves DEF AcceptJobOffer
<1>6. CASE RejectJobOffer(a)
  BY <1>6, RefundConserves DEF RejectJobOffer, DropOffer
<1>7. CASE CancelJobOffer(a)
  BY <1>7, RefundConserves DEF CancelJobOffer, DropOffer
<1>8. CASE ExpireOffer(a)
  BY <1>8, RefundConserves DEF ExpireOffer, DropOffer
<1>9. CASE ConfirmOfferHire(a)
  BY <1>9, QuietConserves DEF ConfirmOfferHire
<1> QED
  BY <1>1, <1>2, <1>3, <1>4, <1>5, <1>6, <1>7, <1>8, <1>9 DEF OfferStep

LEMMA AssignmentStepConserves ==
  ASSUME TypeOK, NEW a \in Apps, AssignmentStep(a)
  PROVE  \E gain : Conserves(gain)
<1>1. CASE StartWork(a)
  BY <1>1, QuietConserves DEF StartWork
<1>2. CASE AuthorizePayment(a)
  BY <1>2, QuietConserves DEF AuthorizePayment, Transition
<1>3. CASE SubmitWork(a)
  BY <1>3, QuietConserves DEF SubmitWork, Transition
<1>4. CASE RequestChanges(a)
  BY <1>4, QuietConserves DEF RequestChanges, Transition
<1>5. CASE SettleDirect(a)
  BY <1>5, SettleConserves DEF SettleDirect
<1> QED
  BY <1>1, <1>2, <1>3, <1>4, <1>5 DEF AssignmentStep

LEMMA CancellationStepConserves ==
  ASSUME TypeOK, NEW a \in Apps, CancellationStep(a)
  PROVE  \E gain : Conserves(gain)
<1>1. CASE CancelBeforeStart(a)
  BY <1>1, ResolveConserves DEF CancelBeforeStart
<1>2. ASSUME NEW workerPayment \in Proposals,
             RequestAssignmentCancellation(a, workerPayment)
      PROVE  \E gain : Conserves(gain)
  BY <1>2, QuietConserves DEF RequestAssignmentCancellation
<1>3. CASE AcceptCancellation(a)
  <2>1. cancellation[a].workerPayment \in Nat
    BY DEF TypeOK, Cancellation
  <2> QED
    BY <1>3, <2>1, ResolveConserves DEF AcceptCancellation
<1>4. CASE RejectCancellation(a)
  BY <1>4, QuietConserves DEF RejectCancellation, EscalateCancellation
<1>5. CASE EscalateOverdueCancellation(a)
  BY <1>5, QuietConserves DEF EscalateOverdueCancellation, EscalateCancellation
<1> QED
  BY <1>1, <1>2, <1>3, <1>4, <1>5 DEF CancellationStep

LEMMA DisputeStepConserves ==
  ASSUME TypeOK, NEW a \in Apps, DisputeStep(a)
  PROVE  \E gain : Conserves(gain)
<1>1. CASE OpenDispute(a)
  BY <1>1, QuietConserves DEF OpenDispute
<1>2. ASSUME NEW amount \in 1 .. app[a].agreedAmount, OpenPaymentDispute(a, amount)
      PROVE  \E gain : Conserves(gain)
  BY <1>2, QuietConserves DEF OpenPaymentDispute
<1>3. ASSUME NEW u, Reads(u)
      PROVE  \E gain : Conserves(gain)
  BY <1>3, QuietConserves DEF Reads
<1>6. CASE ApproveSettlement(a)
  <2> DEFINE s == dispute[a].settlement
  <2>1. s \in Settlement /\ s.worker \in Nat
    BY DEF TypeOK, Dispute, Settlement
  <2>2. \/ ResolveCancelledAssignment(a, s.worker, FALSE)
        \/ KeepAssignment(a, s)
    BY <1>6 DEF ApproveSettlement
  <2> HIDE DEF s
  <2> QED
    BY <2>1, <2>2, ResolveConserves, KeepConserves
<1>7. CASE SubmitAppeal(a)
  BY <1>7, QuietConserves DEF SubmitAppeal
<1> QED
  BY <1>1, <1>2, <1>3, <1>6, <1>7
     DEF DisputeStep, AssignSupport, RequestEvidence, CompleteInvestigation,
         ProposeSettlement

LEMMA PostingStepConserves ==
  ASSUME TypeOK, PostingStep
  PROVE  \E gain : Conserves(gain)
<1>1. ASSUME NEW positions \in 1 .. MaxPositions, NEW salary \in Salaries,
             UpdateJob(positions, salary)
      PROVE  \E gain : Conserves(gain)
  BY <1>1, UpdateJobConserves
<1>2. CASE CloseJob
  BY <1>2, CloseConserves
<1>3. CASE ReopenJob
  BY <1>3, QuietConserves DEF ReopenJob
<1>4. CASE ArchiveJob
  BY <1>4, QuietConserves DEF ArchiveJob
<1>5. CASE BeginMarkDone
  BY <1>5, QuietConserves DEF BeginMarkDone
<1>6. CASE CommitMarkDone
  <2> DEFINE due == {a \in marking : app[a].paymentStatus # "Paid"}
             closed == [job EXCEPT !.closedManually = TRUE]
  <2>1. due \in SUBSET Apps /\ Settle(due, closed)
    BY <1>6 DEF CommitMarkDone, TypeOK
  <2> HIDE DEF due, closed
  <2> QED
    BY <2>1, SettleConserves
<1>7. CASE AbortMarkDone
  BY <1>7, QuietConserves DEF AbortMarkDone
<1>8. ASSUME NEW workerPayment \in Proposals, RequestPostingCancellation(workerPayment)
      PROVE  \E gain : Conserves(gain)
  BY <1>8, RequestConserves
<1> QED
  BY <1>1, <1>2, <1>3, <1>4, <1>5, <1>6, <1>7, <1>8 DEF PostingStep

LEMMA NextConserves ==
  ASSUME TypeOK, [Next]_vars
  PROVE  \E gain : Conserves(gain)
<1>1. CASE PostingStep
  BY <1>1, PostingStepConserves
<1>2. ASSUME NEW a \in Apps,
             OfferStep(a) \/ AssignmentStep(a) \/ CancellationStep(a) \/ DisputeStep(a)
      PROVE  \E gain : Conserves(gain)
  BY <1>2, OfferStepConserves, AssignmentStepConserves, CancellationStepConserves,
     DisputeStepConserves
<1>3. ASSUME NEW u \in saving, SaveCase(u) \/ LoseCase(u)
      PROVE  \E gain : Conserves(gain)
  BY <1>3, QuietConserves DEF SaveCase, LoseCase
<1>4. CASE UNCHANGED vars
  BY <1>4, QuietConserves DEF vars
<1> QED
  BY <1>1, <1>2, <1>3, <1>4 DEF Next

(* ---- no money is made or lost ------------------------------------------- *)

LEMMA MoneyKept ==
  ASSUME TypeOK, TypeOK', MoneyConserved, NEW gain, Conserves(gain)
  PROVE  MoneyConserved'
<1> DEFINE limit(w) == Plus(WalletAtStart, FromEmployer(TopUp))[w]
<1>1. /\ AmountOf(wallet) \in Nat /\ AmountOf(pot) \in Nat
      /\ AmountOf(wallet') \in Nat /\ AmountOf(pot') \in Nat
      /\ \A w \in Wallets : /\ wallet[w] \in Nat /\ pot[w] \in Nat
                            /\ wallet'[w] \in Nat /\ pot'[w] \in Nat
  BY DEF TypeOK, AmountOf, Wallets
<1>2. /\ SumOver(received, Apps) = Payments /\ Payments \in Nat
      /\ SumOver(received', Apps) = Payments'
  <2>1. SumOver(received, Apps) = Payments /\ Payments \in Nat /\ IsFiniteSet(Apps)
    BY PaymentsType
  <2>2. \A a \in Apps : received'[a] \in Nat
    BY DEF TypeOK
  <2> QED
    BY <2>1, <2>2, SumOverIsSum DEF Payments
<1>3. \A w \in Wallets : limit(w) \in Nat
  BY AmountsAssumption DEF Plus, FromEmployer, Wallets
<1>4. /\ gain \in Nat /\ Payments' = Payments + gain
      /\ AmountOf(wallet') + AmountOf(pot') + gain = AmountOf(wallet) + AmountOf(pot)
      /\ \A w \in Wallets : wallet'[w] + pot'[w] <= wallet[w] + pot[w]
  BY DEF Conserves, Spends
<1>5. /\ AmountOf(wallet) + AmountOf(pot) + Payments + PostingFee
           = AmountOf(WalletAtStart) + TopUp
      /\ \A w \in Wallets : wallet[w] + pot[w] <= limit(w)
  BY <1>2 DEF MoneyConserved, RemainingJobFunds
<1>6. PostingFee \in Nat
  BY AmountsAssumption
<1>7. AmountOf(wallet') + AmountOf(pot') + Payments' + PostingFee
        = AmountOf(WalletAtStart) + TopUp
  BY <1>1, <1>2, <1>4, <1>5, <1>6
<1>8. \A w \in Wallets : wallet'[w] + pot'[w] <= limit(w)
  <2> HIDE DEF limit
  <2> QED
    BY <1>1, <1>3, <1>4, <1>5
<1> QED
  BY <1>2, <1>7, <1>8 DEF MoneyConserved, RemainingJobFunds

\* The escrow of a new posting is what left the wallets, but for the fee.
LEMMA InitConserved == Init => MoneyConserved
<1> SUFFICES ASSUME Init PROVE MoneyConserved
  OBVIOUS
<1>1. PICK positions \in 1 .. MaxPositions, salary \in Salaries :
        CreateJob(positions, salary)
  BY DEF Init
<1> DEFINE escrow == positions * salary
           draw == Least(WalletAtStart["EMPLOYER"], escrow + PostingFee)
           fromEmployer == Least(escrow, Monus(draw, PostingFee))
<1>2. /\ PostingFee \in Nat /\ TopUp \in Nat
      /\ WalletAtStart["EMPLOYER"] \in Nat /\ WalletAtStart["WORKER"] \in Nat
  BY AmountsAssumption DEF Wallets
<1>3. escrow \in Nat
  <2>1. positions \in Nat /\ salary \in Nat
    BY AmountsAssumption
  <2> QED
    BY <2>1
<1> HIDE DEF escrow
<1>4. /\ draw \in Nat /\ draw <= escrow + PostingFee
      /\ fromEmployer \in Nat
      /\ fromEmployer <= draw
      /\ draw <= PostingFee + fromEmployer
  BY <1>2, <1>3 DEF Least, Monus
<1> HIDE DEF draw, fromEmployer
<1>5. /\ pot["EMPLOYER"] = fromEmployer
      /\ pot["WORKER"] = escrow - fromEmployer
      /\ wallet["EMPLOYER"] = WalletAtStart["EMPLOYER"] - draw + TopUp
      /\ wallet["WORKER"] = WalletAtStart["WORKER"] - (escrow + PostingFee - draw)
  BY <1>1 DEF CreateJob, Wallets, draw, fromEmployer, escrow
<1>6. SumOver(received, Apps) = 0
  <2>1. TypeOK /\ \A a \in Apps : received[a] = 0
    BY InitType DEF Init
  <2>2. IsFiniteSet(Apps) /\ SumOver(received, Apps) = Payments
    BY <2>1, PaymentsType
  <2>3. Sum(received, Apps) = Sum(received, {})
    <3>1. {} \subseteq Apps /\ \A a \in Apps \ {} : received[a] = 0
      BY <2>1
    <3>2. \A a \in Apps : received[a] \in Int
      BY <2>1
    <3> QED
      BY <2>2, <3>1, <3>2, SumOfPart
  <2>4. Sum(received, {}) = 0
    BY SumStep, FS_EmptySet
  <2> QED
    BY <2>2, <2>3, <2>4 DEF Payments
<1>7. AmountOf(wallet) + AmountOf(pot) + 0 + PostingFee
        = AmountOf(WalletAtStart) + TopUp
  BY <1>2, <1>3, <1>4, <1>5 DEF AmountOf
<1>8. \A w \in Wallets : wallet[w] + pot[w] <= Plus(WalletAtStart, FromEmployer(TopUp))[w]
  <2>1. /\ Plus(WalletAtStart, FromEmployer(TopUp))["EMPLOYER"]
             = WalletAtStart["EMPLOYER"] + TopUp
        /\ Plus(WalletAtStart, FromEmployer(TopUp))["WORKER"]
             = WalletAtStart["WORKER"] + 0
    BY DEF Plus, FromEmployer, Wallets
  <2>2. /\ wallet["EMPLOYER"] + pot["EMPLOYER"] <= WalletAtStart["EMPLOYER"] + TopUp
        /\ wallet["WORKER"] + pot["WORKER"] <= WalletAtStart["WORKER"] + 0
    BY <1>2, <1>3, <1>4, <1>5
  <2> QED
    BY <2>1, <2>2 DEF Wallets
<1> QED
  BY <1>6, <1>7, <1>8 DEF MoneyConserved, RemainingJobFunds

(***************************************************************************)
(* No handler makes or loses money, whichever wallet it came from and      *)
(* however often Finance decides, and none goes from one wallet to the     *)
(* other through escrow.                                                   *)
(***************************************************************************)
THEOREM MoneyConservedAlways == Spec => []MoneyConserved
<1> DEFINE MoneyInv == TypeOK /\ MoneyConserved
<1>1. Init => MoneyInv
  BY InitType, InitConserved
<1>2. MoneyInv /\ [Next]_vars => MoneyInv'
  BY NextType, NextConserves, MoneyKept
<1>3. MoneyInv => MoneyConserved
  OBVIOUS
<1> HIDE DEF MoneyInv
<1> QED
  BY <1>1, <1>2, <1>3, PTL DEF Spec

(* ---- no position is given twice ------------------------------------------ *)

\* Hires and active offers are finitely many.
LEMMA CountType ==
  ASSUME NEW as, NEW os
  PROVE  /\ IsFiniteSet(Hires(as)) /\ Cardinality(Hires(as)) \in Nat
         /\ IsFiniteSet(ActiveOffers(os)) /\ Cardinality(ActiveOffers(os)) \in Nat
BY ScopeAssumption, FS_Subset, FS_CardinalityType DEF Hires, ActiveOffers

\* What recounting and the ends of a posting leave alone.
SameTerms(j, k) ==
  /\ k.positionsNeeded = j.positionsNeeded
  /\ k.salary = j.salary
  /\ k.hireConfirmed = j.hireConfirmed
  /\ k.closedManually = j.closedManually

LEMMA SyncCounts ==
  ASSUME NEW j \in Job, NEW as, NEW os
  PROVE  LET k == SyncCapacity(j, as, os)
         IN  /\ k.hiredCount = Cardinality(Hires(as))
             /\ k.reservedOfferCount = Cardinality(ActiveOffers(os))
             /\ SameTerms(j, k)
             /\ k.cancellationPending = j.cancellationPending
             /\ (j.status \in TerminalJobStatuses \/ j.cancellationPending)
                  => k.status = j.status
             /\ k.status \in TerminalJobStatuses => j.status \in TerminalJobStatuses
<1> DEFINE counted == [j EXCEPT !.hiredCount = Cardinality(Hires(as)),
                                !.reservedOfferCount = Cardinality(ActiveOffers(os))]
           moved == [counted EXCEPT !.status = ResolveJobAvailability(counted)]
           k == SyncCapacity(j, as, os)
<1>1. /\ counted.hiredCount = Cardinality(Hires(as))
      /\ counted.reservedOfferCount = Cardinality(ActiveOffers(os))
      /\ SameTerms(j, counted)
      /\ counted.status = j.status
      /\ counted.cancellationPending = j.cancellationPending
      /\ counted \in [status : JobStatus, positionsNeeded : 1 .. MaxPositions,
           salary : Salaries, hiredCount : {Cardinality(Hires(as))},
           reservedOfferCount : {Cardinality(ActiveOffers(os))},
           closedManually : BOOLEAN, cancellationPending : BOOLEAN,
           hireConfirmed : BOOLEAN, archived : BOOLEAN]
  BY DEF Job, SameTerms
<1>2. k = IF j.cancellationPending THEN counted ELSE moved
  BY DEF SyncCapacity
<1> HIDE DEF counted, k
<1>3. /\ moved.hiredCount = counted.hiredCount
      /\ moved.reservedOfferCount = counted.reservedOfferCount
      /\ SameTerms(counted, moved)
      /\ moved.status = ResolveJobAvailability(counted)
      /\ moved.cancellationPending = counted.cancellationPending
  BY <1>1 DEF SameTerms
<1>4. /\ counted.status \in TerminalJobStatuses =>
           ResolveJobAvailability(counted) = counted.status
      /\ ResolveJobAvailability(counted) \in TerminalJobStatuses =>
           counted.status \in TerminalJobStatuses
  BY DEF ResolveJobAvailability, TerminalJobStatuses
<1> HIDE DEF moved
<1> QED
  BY <1>1, <1>2, <1>3, <1>4 DEF SameTerms, k

\* Fewer hires and offers than before, counted again.
LEMMA CountsFewer ==
  ASSUME TypeOK, CapacityRespected,
         job'.hiredCount = Cardinality(Hires(app')),
         job'.reservedOfferCount = Cardinality(ActiveOffers(offer')),
         job'.positionsNeeded = job.positionsNeeded,
         Hires(app') \subseteq Hires(app),
         ActiveOffers(offer') \subseteq ActiveOffers(offer)
  PROVE  CapacityRespected'
<1>1. /\ Cardinality(Hires(app')) <= Cardinality(Hires(app))
      /\ Cardinality(ActiveOffers(offer')) <= Cardinality(ActiveOffers(offer))
  BY CountType, FS_Subset
<1>2. /\ Cardinality(Hires(app')) \in Nat /\ Cardinality(ActiveOffers(offer')) \in Nat
      /\ Cardinality(Hires(app)) \in Nat /\ Cardinality(ActiveOffers(offer)) \in Nat
  BY CountType
<1>3. job.positionsNeeded \in 1 .. MaxPositions /\ MaxPositions \in Nat
  BY AmountsAssumption DEF TypeOK, Job
<1>4. Cardinality(Hires(app')) + Cardinality(ActiveOffers(offer')) <= job.positionsNeeded
  BY <1>1, <1>2, <1>3 DEF CapacityRespected
<1> QED
  BY <1>4 DEF CapacityRespected

\* The same hires, offers and counters.
LEMMA CountsKept ==
  ASSUME CapacityRespected,
         job'.hiredCount = job.hiredCount,
         job'.reservedOfferCount = job.reservedOfferCount,
         job'.positionsNeeded = job.positionsNeeded,
         Hires(app') = Hires(app),
         ActiveOffers(offer') = ActiveOffers(offer)
  PROVE  CapacityRespected'
BY DEF CapacityRespected

\* The counters after an offer or an application is dropped.
LEMMA DropCounts ==
  ASSUME TypeOK, CapacityRespected, NEW a \in Apps,
         offer' = [offer EXCEPT ![a] = NoOffer],
         \A b \in Apps : app'[b].status = "Hired" => app[b].status = "Hired",
         job' = SyncCapacity(job, app', offer')
  PROVE  CapacityRespected'
<1>1. job \in Job /\ offer \in [Apps -> Offer]
  BY DEF TypeOK
<1>2. Hires(app') \subseteq Hires(app)
  BY DEF Hires
<1>3. ActiveOffers(offer') \subseteq ActiveOffers(offer)
  BY <1>1 DEF ActiveOffers, NoOffer
<1>4. /\ job'.hiredCount = Cardinality(Hires(app'))
      /\ job'.reservedOfferCount = Cardinality(ActiveOffers(offer'))
      /\ job'.positionsNeeded = job.positionsNeeded
  BY <1>1, SyncCounts DEF SameTerms
<1> QED
  BY <1>2, <1>3, <1>4, CountsFewer

LEMMA DropOfferCounts ==
  ASSUME TypeOK, CapacityRespected, NEW a \in Apps, DropOffer(a)
  PROVE  CapacityRespected'
<1>1. app \in [Apps -> Application]
  BY DEF TypeOK
<1>2. /\ offer' = [offer EXCEPT ![a] = NoOffer]
      /\ app' = ToShortlist(a)
      /\ job' = SyncCapacity(job, app', offer')
  BY DEF DropOffer
<1>3. \A b \in Apps : app'[b].status = "Hired" => app[b].status = "Hired"
  BY <1>1, <1>2 DEF ToShortlist, Application
<1> QED
  BY <1>2, <1>3, DropCounts

\* An offer takes a position that is free, a hire the one its offer held.
LEMMA OfferStepCounts ==
  ASSUME TypeOK, CapacityRespected, NEW a \in Apps, OfferStep(a)
  PROVE  CapacityRespected'
<1>1. /\ app \in [Apps -> Application] /\ offer \in [Apps -> Offer] /\ job \in Job
  BY DEF TypeOK
<1>2. CASE ApplyForJob(a)
  <2>1. Hires(app') = Hires(app)
    BY <1>1, <1>2 DEF ApplyForJob, Hires, Application
  <2> QED
    BY <1>2, <2>1, CountsKept DEF ApplyForJob
<1>3. CASE WithdrawApplication(a)
  <2>1. \A b \in Apps : app'[b].status = "Hired" => app[b].status = "Hired"
    BY <1>1, <1>3 DEF WithdrawApplication, Application
  <2> QED
    BY <1>3, <2>1, DropCounts DEF WithdrawApplication
<1>4. ASSUME NEW status \in {"Applied", "Rejected"}, UpdateApplicationStatus(a, status)
      PROVE  CapacityRespected'
  <2>1. Hires(app') = Hires(app)
    BY <1>1, <1>4 DEF UpdateApplicationStatus, Hires, Application
  <2> QED
    BY <1>4, <2>1, CountsKept DEF UpdateApplicationStatus
<1>5. ASSUME NEW extra \in Extras, CreateJobOffer(a, extra)
      PROVE  CapacityRespected'
  <2>1. Hires(app') = Hires(app)
    BY <1>1, <1>5 DEF CreateJobOffer, Hires, Application
  <2>2. /\ ActiveOffers(offer') = ActiveOffers(offer) \cup {a}
        /\ a \notin ActiveOffers(offer)
    BY <1>1, <1>5 DEF CreateJobOffer, ActiveOffers
  <2>3. Cardinality(ActiveOffers(offer')) = Cardinality(ActiveOffers(offer)) + 1
    BY <2>2, CountType, FS_AddElement
  <2>4. /\ job'.hiredCount = Cardinality(Hires(app'))
        /\ job'.reservedOfferCount = Cardinality(ActiveOffers(offer'))
        /\ job'.positionsNeeded = job.positionsNeeded
    <3>1. job' = SyncCapacity(job, app', offer')
      BY <1>5 DEF CreateJobOffer
    <3> QED
      BY <1>1, <3>1, SyncCounts DEF SameTerms
  <2>5. ~ (Cardinality(Hires(app)) + Cardinality(ActiveOffers(offer)) >= job.positionsNeeded)
    BY <1>5 DEF CreateJobOffer, IsAtCapacity, CapacityRespected
  <2>6. /\ job.positionsNeeded \in Int
        /\ Cardinality(Hires(app)) \in Nat /\ Cardinality(ActiveOffers(offer)) \in Nat
    BY <1>1, CountType DEF Job
  <2>7. Cardinality(Hires(app)) + (Cardinality(ActiveOffers(offer)) + 1)
          <= job.positionsNeeded
    BY <2>5, <2>6
  <2> QED
    BY <2>1, <2>3, <2>4, <2>7 DEF CapacityRespected
<1>6. CASE AcceptJobOffer(a)
  <2>1. ActiveOffers(offer') = ActiveOffers(offer)
    BY <1>1, <1>6 DEF AcceptJobOffer, Answerable, ActiveOffers, Offer
  <2>2. /\ job'.hiredCount = Cardinality(Hires(app'))
        /\ job'.reservedOfferCount = Cardinality(ActiveOffers(offer'))
        /\ job'.positionsNeeded = job.positionsNeeded
    BY <1>1, <1>6, SyncCounts DEF AcceptJobOffer, SameTerms
  <2> QED
    BY <1>6, <2>1, <2>2, CountsFewer DEF AcceptJobOffer
<1>7. CASE RejectJobOffer(a)
  BY <1>7, DropOfferCounts DEF RejectJobOffer
<1>8. CASE CancelJobOffer(a)
  BY <1>8, DropOfferCounts DEF CancelJobOffer
<1>9. CASE ExpireOffer(a)
  BY <1>9, DropOfferCounts DEF ExpireOffer
<1>10. CASE ConfirmOfferHire(a)
  <2>1. /\ Hires(app') = Hires(app) \cup {a}
        /\ a \notin Hires(app)
    BY <1>1, <1>10 DEF ConfirmOfferHire, Hires, Application
  <2>2. /\ ActiveOffers(offer') = ActiveOffers(offer) \ {a}
        /\ a \in ActiveOffers(offer)
    BY <1>1, <1>10 DEF ConfirmOfferHire, ActiveOffers, NoOffer
  <2>3. Cardinality(Hires(app')) = Cardinality(Hires(app)) + 1
    BY <2>1, CountType, FS_AddElement
  <2>4. Cardinality(ActiveOffers(offer')) = Cardinality(ActiveOffers(offer)) - 1
    BY <2>2, CountType, FS_RemoveElement
  <2>5. /\ Cardinality(Hires(app)) \in Nat /\ Cardinality(ActiveOffers(offer)) \in Nat
        /\ Cardinality(ActiveOffers(offer')) \in Nat
    BY CountType
  <2>6. /\ job'.hiredCount = job.hiredCount + 1
        /\ job'.reservedOfferCount = Monus(job.reservedOfferCount, 1)
        /\ job'.positionsNeeded = job.positionsNeeded
    BY <1>1, <1>10 DEF ConfirmOfferHire, Job
  <2>7. Monus(job.reservedOfferCount, 1) = Cardinality(ActiveOffers(offer'))
    BY <2>4, <2>5 DEF Monus, CapacityRespected
  <2>8. job.positionsNeeded \in Int
    BY <1>1 DEF Job
  <2>9. Cardinality(Hires(app')) + Cardinality(ActiveOffers(offer')) <= job.positionsNeeded
    BY <2>3, <2>4, <2>5, <2>8 DEF CapacityRespected
  <2> QED
    BY <2>3, <2>6, <2>7, <2>9 DEF CapacityRespected
<1> QED
  BY <1>2, <1>3, <1>4, <1>5, <1>6, <1>7, <1>8, <1>9, <1>10 DEF OfferStep

\* The end of a posting changes no counter.
LEMMA FinalCounts ==
  ASSUME NEW j \in Job, NEW as, NEW os
  PROVE  LET k == Finalized(j, as, os)
         IN  /\ SameTerms(j, k)
             /\ k.hiredCount = j.hiredCount
             /\ k.reservedOfferCount = j.reservedOfferCount
             /\ k.cancellationPending = j.cancellationPending
             /\ k.status = IF Finalizes(j, as, os) THEN "Completed" ELSE j.status
BY DEF SameTerms, Finalized, Job

LEMMA EndCounts ==
  ASSUME NEW j \in Job, NEW as
  PROVE  LET k == EndPosting(j, as)
         IN  /\ SameTerms(j, k)
             /\ k.hiredCount = j.hiredCount
             /\ k.reservedOfferCount = j.reservedOfferCount
             /\ k.cancellationPending =
                  IF EndsPosting(j, as) THEN FALSE ELSE j.cancellationPending
             /\ k.status = IF EndsPosting(j, as) THEN "Cancelled" ELSE j.status
BY DEF SameTerms, EndPosting, Job

\* A payment leaves every hire a hire.
LEMMA SettleCounts ==
  ASSUME TypeOK, CapacityRespected, NEW S \in SUBSET Apps, NEW j \in Job, Settle(S, j),
         UNCHANGED offer,
         j.hiredCount = job.hiredCount, j.reservedOfferCount = job.reservedOfferCount,
         j.positionsNeeded = job.positionsNeeded
  PROVE  CapacityRespected'
<1>1. app \in [Apps -> Application]
  BY DEF TypeOK
<1>2. \A a \in Apps : app'[a].status = app[a].status
  <2>1. app' = [a \in Apps |-> IF a \notin S THEN app[a]
                 ELSE [app[a] EXCEPT !.paymentStatus = "Paid", !.workStatus = "Completed",
                         !.paidAmount = AlreadyPaid(a) + RemainingAgreed(a)]]
    BY DEF Settle
  <2> QED
    BY <1>1, <2>1 DEF Application
<1>3. Hires(app') = Hires(app)
  BY <1>2 DEF Hires
<1>4. job' = Finalized(j, app', offer)
  BY DEF Settle
<1>5. /\ job'.hiredCount = job.hiredCount
      /\ job'.reservedOfferCount = job.reservedOfferCount
      /\ job'.positionsNeeded = job.positionsNeeded
  <2> DEFINE k == Finalized(j, app', offer)
  <2>1. SameTerms(j, k) /\ k.hiredCount = j.hiredCount
        /\ k.reservedOfferCount = j.reservedOfferCount
    BY FinalCounts
  <2>2. job' = k
    BY <1>4
  <2> HIDE DEF k
  <2> QED
    BY <2>1, <2>2 DEF SameTerms
<1> QED
  BY <1>3, <1>5, CountsKept

\* Work and payment hire nobody.
LEMMA AssignmentStepCounts ==
  ASSUME TypeOK, CapacityRespected, NEW a \in Apps, AssignmentStep(a)
  PROVE  CapacityRespected'
<1>1. app \in [Apps -> Application] /\ job \in Job
  BY DEF TypeOK
<1>2. CASE StartWork(a)
  <2>1. Hires(app') = Hires(app)
    BY <1>1, <1>2 DEF StartWork, Hires, Application
  <2> QED
    BY <1>2, <2>1, CountsKept DEF StartWork
<1>3. ASSUME NEW r \in Application, r.status = app[a].status, Transition(a, r)
      PROVE  CapacityRespected'
  <2>1. Hires(app') = Hires(app)
    BY <1>1, <1>3 DEF Transition, Hires
  <2> QED
    BY <1>3, <2>1, CountsKept DEF Transition
<1>4. CASE AuthorizePayment(a)
  <2>1. Transition(a, [app[a] EXCEPT !.paymentStatus = "Authorized"])
    BY <1>4 DEF AuthorizePayment
  <2>2. [app[a] EXCEPT !.paymentStatus = "Authorized"] \in Application
    BY <1>1 DEF Application, PaymentStatus
  <2>3. [app[a] EXCEPT !.paymentStatus = "Authorized"].status = app[a].status
    BY <1>1 DEF Application
  <2> QED
    BY <1>3, <2>1, <2>2, <2>3
<1>5. ASSUME NEW status \in {"Submitted", "Changes Requested"},
             Transition(a, [app[a] EXCEPT !.workStatus = status])
      PROVE  CapacityRespected'
  <2>1. [app[a] EXCEPT !.workStatus = status] \in Application
    BY <1>1 DEF Application, WorkStatus
  <2>2. [app[a] EXCEPT !.workStatus = status].status = app[a].status
    BY <1>1 DEF Application
  <2> QED
    BY <1>3, <1>5, <2>1, <2>2
<1>6. CASE SubmitWork(a)
  BY <1>5, <1>6 DEF SubmitWork
<1>7. CASE RequestChanges(a)
  BY <1>5, <1>7 DEF RequestChanges
<1>8. CASE SettleDirect(a)
  BY <1>1, <1>8, SettleCounts DEF SettleDirect
<1> QED
  BY <1>2, <1>4, <1>6, <1>7, <1>8 DEF AssignmentStep

\* A cancelled assignment is a hire no more, and is not counted any more.
LEMMA ResolveCounts ==
  ASSUME TypeOK, CapacityRespected, NEW a \in Apps, NEW amount \in Nat,
         NEW retainBaseFunding \in BOOLEAN,
         ResolveCancelledAssignment(a, amount, retainBaseFunding), UNCHANGED offer
  PROVE  CapacityRespected'
<1> DEFINE retains == Retains(app[a], retainBaseFunding)
           after == AfterCancelling(job, retains)
           synced == SyncCapacity(after, app', offer)
<1>1. app \in [Apps -> Application] /\ job \in Job
  BY DEF TypeOK
<1>2. /\ app' = [app EXCEPT ![a] = CancelledApplication(app[a], amount)]
      /\ job' = EndPosting(synced, app')
  BY DEF ResolveCancelledAssignment
<1>3. Hires(app') \subseteq Hires(app)
  <2>1. CancelledApplication(app[a], amount).status = "Cancelled"
    BY <1>1 DEF CancelledApplication, Application
  <2> QED
    BY <1>1, <1>2, <2>1 DEF Hires
<1>4. after \in Job /\ after.positionsNeeded = job.positionsNeeded
  BY <1>1 DEF AfterCancelling, Job, JobStatus
<1>5. synced \in Job
  <2>1. app' \in [Apps -> Application] /\ offer \in [Apps -> Offer]
    BY ResolveType DEF TypeOK
  <2> QED
    BY <1>4, <2>1, SyncType
<1> HIDE DEF after
<1>6. /\ synced.hiredCount = Cardinality(Hires(app'))
      /\ synced.reservedOfferCount = Cardinality(ActiveOffers(offer))
      /\ synced.positionsNeeded = job.positionsNeeded
  BY <1>4, SyncCounts DEF SameTerms
<1> HIDE DEF synced
<1>7. /\ job'.hiredCount = Cardinality(Hires(app'))
      /\ job'.reservedOfferCount = Cardinality(ActiveOffers(offer'))
      /\ job'.positionsNeeded = job.positionsNeeded
  BY <1>2, <1>5, <1>6, EndCounts DEF SameTerms
<1> QED
  BY <1>3, <1>7, CountsFewer

LEMMA CancellationStepCounts ==
  ASSUME TypeOK, CapacityRespected, NEW a \in Apps, CancellationStep(a)
  PROVE  CapacityRespected'
<1>1. app \in [Apps -> Application]
  BY DEF TypeOK
<1>2. CASE CancelBeforeStart(a)
  BY <1>2, ResolveCounts DEF CancelBeforeStart
<1>3. ASSUME NEW workerPayment \in Proposals,
             RequestAssignmentCancellation(a, workerPayment)
      PROVE  CapacityRespected'
  <2>1. Hires(app') = Hires(app)
    BY <1>1, <1>3 DEF RequestAssignmentCancellation, Hires, Application
  <2> QED
    BY <1>3, <2>1, CountsKept DEF RequestAssignmentCancellation
<1>4. CASE AcceptCancellation(a)
  <2>1. cancellation[a].workerPayment \in Nat
    BY DEF TypeOK, Cancellation
  <2> QED
    BY <1>4, <2>1, ResolveCounts DEF AcceptCancellation
<1>5. CASE EscalateCancellation(a)
  <2>1. Hires(app') = Hires(app)
    BY <1>1, <1>5 DEF EscalateCancellation, Hires, Application
  <2> QED
    BY <1>5, <2>1, CountsKept DEF EscalateCancellation
<1> QED
  BY <1>2, <1>3, <1>4, <1>5
     DEF CancellationStep, RejectCancellation, EscalateOverdueCancellation

\* A decision on an assignment that goes on leaves it a hire.
LEMMA KeepCounts ==
  ASSUME TypeOK, CapacityRespected, NEW a \in Apps, NEW s \in Settlement,
         KeepAssignment(a, s), UNCHANGED offer
  PROVE  CapacityRespected'
<1> DEFINE base == IF dispute[a].disputedAmount > 0 THEN DecidedApplication(app[a], s)
                   ELSE app[a]
           r == [base EXCEPT !.disputePending = FALSE]
<1>1. app \in [Apps -> Application] /\ job \in Job
  BY DEF TypeOK
<1>2. app' = [app EXCEPT ![a] = r] /\ job' = AfterDecision(r)
  BY DEF KeepAssignment
<1>3. base \in Application /\ base.status = app[a].status
  <2>1. /\ DecidedApplication(app[a], s) \in Application
        /\ DecidedApplication(app[a], s).status = app[a].status
    BY <1>1, DecidedType DEF DecidedApplication, Application
  <2> QED
    BY <1>1, <2>1
<1> HIDE DEF base
<1>4. r.status = app[a].status
  BY <1>3 DEF Application
<1> HIDE DEF r
<1>5. Hires(app') = Hires(app)
  BY <1>1, <1>2, <1>4 DEF Hires
<1>6. \/ job' = job
      \/ job' = [job EXCEPT !.status = "Completed"]
      \/ job' = SyncCapacity(job, app', offer)
  BY <1>2 DEF AfterDecision
<1>7. /\ job'.hiredCount = Cardinality(Hires(app'))
      /\ job'.reservedOfferCount = Cardinality(ActiveOffers(offer'))
      /\ job'.positionsNeeded = job.positionsNeeded
  <2>1. CASE job' = job \/ job' = [job EXCEPT !.status = "Completed"]
    BY <1>1, <1>5, <2>1 DEF CapacityRespected, Job
  <2>2. CASE job' = SyncCapacity(job, app', offer)
    BY <1>1, <2>2, SyncCounts DEF SameTerms
  <2> QED
    BY <1>6, <2>1, <2>2
<1> QED
  BY <1>5, <1>7, CountsFewer

LEMMA DisputeStepCounts ==
  ASSUME TypeOK, CapacityRespected, NEW a \in Apps, DisputeStep(a)
  PROVE  CapacityRespected'
<1>1. app \in [Apps -> Application]
  BY DEF TypeOK
<1>2. CASE OpenDispute(a)
  <2>1. Hires(app') = Hires(app)
    BY <1>1, <1>2 DEF OpenDispute, Hires, Application
  <2> QED
    BY <1>2, <2>1, CountsKept DEF OpenDispute
<1>3. ASSUME NEW amount \in 1 .. app[a].agreedAmount, OpenPaymentDispute(a, amount)
      PROVE  CapacityRespected'
  <2>1. Hires(app') = Hires(app)
    <3>1. \E p : app' = [app EXCEPT ![a].paymentStatus = "Disputed",
                                    ![a].disputePending = p]
      BY <1>3 DEF OpenPaymentDispute
    <3> QED
      BY <1>1, <3>1 DEF Hires, Application
  <2> QED
    BY <1>3, <2>1, CountsKept DEF OpenPaymentDispute
<1>4. ASSUME NEW u, Reads(u)
      PROVE  CapacityRespected'
  BY <1>4, CountsKept DEF Reads
<1>5. CASE ApproveSettlement(a)
  <2> DEFINE s == dispute[a].settlement
  <2>1. s \in Settlement /\ s.worker \in Nat
    BY DEF TypeOK, Dispute, Settlement
  <2>2. /\ \/ ResolveCancelledAssignment(a, s.worker, FALSE)
           \/ KeepAssignment(a, s)
        /\ UNCHANGED offer
    BY <1>5 DEF ApproveSettlement
  <2> HIDE DEF s
  <2> QED
    BY <2>1, <2>2, ResolveCounts, KeepCounts
<1>6. CASE SubmitAppeal(a)
  <2>1. Hires(app') = Hires(app)
    BY <1>1, <1>6 DEF SubmitAppeal, Hires, Application
  <2> QED
    BY <1>6, <2>1, CountsKept DEF SubmitAppeal
<1> QED
  BY <1>2, <1>3, <1>4, <1>5, <1>6
     DEF DisputeStep, AssignSupport, RequestEvidence, CompleteInvestigation,
         ProposeSettlement

\* The employer changes the size of the posting within what is taken.
LEMMA PostingStepCounts ==
  ASSUME TypeOK, CapacityRespected, PostingStep
  PROVE  CapacityRespected'
<1>1. app \in [Apps -> Application] /\ offer \in [Apps -> Offer] /\ job \in Job
  BY DEF TypeOK
<1>2. ASSUME NEW positions \in 1 .. MaxPositions, NEW salary \in Salaries,
             UpdateJob(positions, salary)
      PROVE  CapacityRespected'
  <2>1. /\ job' = [job EXCEPT !.positionsNeeded = positions, !.salary = salary]
        /\ positions >= job.hiredCount + job.reservedOfferCount
        /\ app' = app /\ offer' = offer
    BY <1>2 DEF UpdateJob
  <2>2. /\ job'.hiredCount = job.hiredCount
        /\ job'.reservedOfferCount = job.reservedOfferCount
        /\ job'.positionsNeeded = positions
    BY <1>1, <2>1 DEF Job
  <2>3. job.hiredCount \in Nat /\ job.reservedOfferCount \in Nat
    BY <1>1 DEF Job
  <2>4. job.hiredCount + job.reservedOfferCount <= positions
    BY <2>1, <2>3
  <2> QED
    BY <2>1, <2>2, <2>4 DEF CapacityRespected
<1>3. CASE CloseJob
  <2> DEFINE shut == [job EXCEPT !.closedManually = TRUE]
             closed == SyncCapacity(shut, app, offer)
  <2>1. shut \in Job /\ shut.positionsNeeded = job.positionsNeeded
    BY <1>1 DEF Job
  <2> HIDE DEF shut
  <2>2. /\ closed \in Job
        /\ closed.hiredCount = Cardinality(Hires(app))
        /\ closed.reservedOfferCount = Cardinality(ActiveOffers(offer))
        /\ closed.positionsNeeded = job.positionsNeeded
    BY <1>1, <2>1, SyncType, SyncCounts DEF SameTerms
  <2>3. job' = Finalized(closed, app, offer) /\ app' = app /\ offer' = offer
    BY <1>3 DEF CloseJob, shut
  <2> HIDE DEF closed
  <2>4. /\ job'.hiredCount = Cardinality(Hires(app))
        /\ job'.reservedOfferCount = Cardinality(ActiveOffers(offer))
        /\ job'.positionsNeeded = job.positionsNeeded
    BY <2>2, <2>3, FinalCounts DEF SameTerms
  <2> QED
    BY <2>3, <2>4, CountsFewer
<1>4. CASE ReopenJob
  <2> DEFINE open == [job EXCEPT !.closedManually = FALSE, !.archived = FALSE]
  <2>1. open \in Job /\ open.positionsNeeded = job.positionsNeeded
    BY <1>1 DEF Job
  <2>2. job' = SyncCapacity(open, app, offer) /\ app' = app /\ offer' = offer
    BY <1>4 DEF ReopenJob
  <2> HIDE DEF open
  <2>3. /\ job'.hiredCount = Cardinality(Hires(app))
        /\ job'.reservedOfferCount = Cardinality(ActiveOffers(offer))
        /\ job'.positionsNeeded = job.positionsNeeded
    BY <2>1, <2>2, SyncCounts DEF SameTerms
  <2> QED
    BY <2>2, <2>3, CountsFewer
<1>5. CASE ArchiveJob
  <2>1. /\ job'.hiredCount = job.hiredCount
        /\ job'.reservedOfferCount = job.reservedOfferCount
        /\ job'.positionsNeeded = job.positionsNeeded
    BY <1>1, <1>5 DEF ArchiveJob, Job
  <2> QED
    BY <1>5, <2>1, CountsKept DEF ArchiveJob
<1>6. CASE BeginMarkDone
  BY <1>6, CountsKept DEF BeginMarkDone
<1>7. CASE CommitMarkDone
  <2> DEFINE due == {a \in marking : app[a].paymentStatus # "Paid"}
             closed == [job EXCEPT !.closedManually = TRUE]
  <2>1. due \in SUBSET Apps /\ Settle(due, closed) /\ UNCHANGED offer
    BY <1>7 DEF CommitMarkDone, TypeOK
  <2>2. /\ closed \in Job
        /\ closed.hiredCount = job.hiredCount
        /\ closed.reservedOfferCount = job.reservedOfferCount
        /\ closed.positionsNeeded = job.positionsNeeded
    BY <1>1 DEF Job
  <2> HIDE DEF due, closed
  <2> QED
    BY <2>1, <2>2, SettleCounts
<1>8. CASE AbortMarkDone
  BY <1>8, CountsKept DEF AbortMarkDone
<1>9. ASSUME NEW workerPayment \in Proposals, RequestPostingCancellation(workerPayment)
      PROVE  CapacityRespected'
  <2> DEFINE stopped == [job EXCEPT !.cancellationPending = TRUE,
                                    !.closedManually = TRUE, !.status = "Closed"]
             synced == SyncCapacity(stopped, app', offer')
             idle == {a \in {b \in Hires(app) : app[b].workStatus # "Completed"} :
                        app[a].workStatus = "Not started"}
  <2>1. TypeOK'
    BY <1>9, RequestPostingCancellationType
  <2>2. stopped \in Job /\ stopped.positionsNeeded = job.positionsNeeded
    BY <1>1 DEF Job, JobStatus
  <2>3. job' = EndPosting(synced, app')
    BY <1>9 DEF RequestPostingCancellation
  <2> HIDE DEF stopped
  <2>4. /\ synced \in Job
        /\ synced.hiredCount = Cardinality(Hires(app'))
        /\ synced.reservedOfferCount = Cardinality(ActiveOffers(offer'))
        /\ synced.positionsNeeded = job.positionsNeeded
    BY <2>1, <2>2, SyncType, SyncCounts DEF SameTerms, TypeOK
  <2> HIDE DEF synced
  <2>5. /\ job'.hiredCount = Cardinality(Hires(app'))
        /\ job'.reservedOfferCount = Cardinality(ActiveOffers(offer'))
        /\ job'.positionsNeeded = job.positionsNeeded
    BY <2>3, <2>4, EndCounts DEF SameTerms
  <2>6. ActiveOffers(offer') = {}
    BY <1>9 DEF RequestPostingCancellation, ActiveOffers
  <2>7. \A a \in Apps : app'[a].status = "Hired" => app[a].status = "Hired"
    <3>1. app' = [a \in Apps |->
             IF a \in idle THEN CancelledApplication(app[a], 0)
             ELSE IF a \in {b \in Hires(app) : app[b].workStatus # "Completed"}
                  THEN [app[a] EXCEPT !.cancellationPending = TRUE]
             ELSE IF app[a].status \in {"Applied", "Offer Sent", "Position filled"}
                  THEN [app[a] EXCEPT !.status = "Cancelled"]
             ELSE app[a]]
      BY <1>9 DEF RequestPostingCancellation
    <3>2. \A a \in Apps : CancelledApplication(app[a], 0).status = "Cancelled"
      BY <1>1 DEF CancelledApplication, Application
    <3> QED
      BY <1>1, <3>1, <3>2 DEF Application
  <2>8. Hires(app') \subseteq Hires(app)
    BY <2>7 DEF Hires
  <2> QED
    BY <2>5, <2>6, <2>8, CountsFewer
<1> QED
  BY <1>2, <1>3, <1>4, <1>5, <1>6, <1>7, <1>8, <1>9 DEF PostingStep

\* The counters need no other invariant than the types.
CapacityInv == TypeOK /\ CapacityRespected

LEMMA InitCapacity == Init => CapacityInv
<1> SUFFICES ASSUME Init PROVE CapacityInv
  OBVIOUS
<1>1. TypeOK
  BY InitType
<1>2. Hires(app) = {} /\ ActiveOffers(offer) = {}
  BY DEF Init, Hires, ActiveOffers, NoApplication, NoOffer
<1>3. /\ job.hiredCount = 0 /\ job.reservedOfferCount = 0
      /\ job.positionsNeeded \in 1 .. MaxPositions
  BY DEF Init, CreateJob, NewJob
<1>4. Cardinality({}) = 0
  BY FS_EmptySet
<1>5. 0 + 0 <= job.positionsNeeded
  BY <1>3, AmountsAssumption
<1> QED
  BY <1>1, <1>2, <1>3, <1>4, <1>5 DEF CapacityInv, CapacityRespected

LEMMA NextCapacity == CapacityInv /\ [Next]_vars => CapacityInv'
<1> SUFFICES ASSUME CapacityInv, [Next]_vars PROVE CapacityInv'
  OBVIOUS
<1>1. TypeOK /\ CapacityRespected /\ TypeOK'
  BY NextType DEF CapacityInv
<1>2. CASE PostingStep
  BY <1>1, <1>2, PostingStepCounts DEF CapacityInv
<1>3. ASSUME NEW a \in Apps,
             OfferStep(a) \/ AssignmentStep(a) \/ CancellationStep(a) \/ DisputeStep(a)
      PROVE  CapacityInv'
  BY <1>1, <1>3, OfferStepCounts, AssignmentStepCounts, CancellationStepCounts,
     DisputeStepCounts DEF CapacityInv
<1>4. ASSUME NEW u \in saving, SaveCase(u) \/ LoseCase(u)
      PROVE  CapacityInv'
  BY <1>1, <1>4, CountsKept DEF SaveCase, LoseCase, CapacityInv
<1>5. CASE UNCHANGED vars
  BY <1>1, <1>5, CountsKept DEF vars, CapacityInv
<1> QED
  BY <1>2, <1>3, <1>4, <1>5 DEF Next

THEOREM CapacityInvariant == Spec => []CapacityInv
<1>1. Init => CapacityInv
  BY InitCapacity
<1>2. CapacityInv /\ [Next]_vars => CapacityInv'
  BY NextCapacity
<1> QED
  BY <1>1, <1>2, PTL DEF Spec

(***************************************************************************)
(* Whoever applies, is offered, hired or cancelled, in whatever order, the *)
(* counters on the Job document are right and hires and offers together    *)
(* never exceed the positions, for any number of workers and positions.    *)
(***************************************************************************)
THEOREM CapacityRespectedAlways == Spec => []CapacityRespected
<1>1. CapacityInv => CapacityRespected
  BY DEF CapacityInv
<1> QED
  BY <1>1, CapacityInvariant, PTL

(* ---- disputes and cancellations hold what they are about ------------------ *)

\* HeldUntilDecided is about steps.  It needs to know that a case under
\* investigation is that of an assignment, and that a request that waits is
\* marked on its assignment, where the payments look for it.
HoldOK(a) ==
  /\ dispute[a].status = "investigating" => IsAssignment(app[a])
  /\ cancellation[a].status \in {"pending", "staff_review"} => app[a].cancellationPending

HoldInv == PaidInv /\ \A a \in Apps : HoldOK(a)

\* What HeldUntilDecided says of one assignment.
Held(a) ==
  (\/ ActiveDispute(a) /\ dispute'[a].status = "investigating"
   \/ cancellation[a].status \in {"pending", "staff_review"}
        /\ cancellation'[a] = cancellation[a]
        /\ dispute'[a] = dispute[a])
  => received'[a] = received[a] /\ app'[a].workStatus = app[a].workStatus

HeldAll == \A a \in Apps : HoldOK(a)' /\ Held(a)

\* A step that leaves the work, the request and the case of an assignment alone.
Kept(b) ==
  /\ IsAssignment(app[b]) => IsAssignment(app'[b])
  /\ app'[b].cancellationPending = app[b].cancellationPending
  /\ app'[b].workStatus = app[b].workStatus
  /\ received'[b] = received[b]
  /\ cancellation'[b] = cancellation[b]
  /\ dispute'[b] = dispute[b]

LEMMA KeptHeld ==
  ASSUME HoldInv, NEW b \in Apps, Kept(b)
  PROVE  HoldOK(b)' /\ Held(b)
BY DEF HoldInv, HoldOK, Kept, Held

\* No application is held, and none is an assignment before its hire.
LEMMA OfferStepHeld ==
  ASSUME HoldInv, NEW a \in Apps, OfferStep(a)
  PROVE  HeldAll
<1>1. app \in [Apps -> Application]
  BY DEF HoldInv, PaidInv, TypeOK
<1>2. ASSUME NEW status,
             \/ app' = [app EXCEPT ![a].status = status] /\ ~ IsAssignment(app[a])
             \/ app' = app,
             UNCHANGED << cancellation, dispute, received >>
      PROVE  HeldAll
  <2>1. \A b \in Apps : Kept(b)
    BY <1>1, <1>2 DEF Kept, Application, IsAssignment
  <2> QED
    BY <2>1, KeptHeld DEF HeldAll
<1>3. ASSUME DropOffer(a) PROVE HeldAll
  BY <1>2, <1>3 DEF DropOffer, ToShortlist, IsAssignment
<1>4. CASE ConfirmOfferHire(a)
  <2>1. UNCHANGED << cancellation, dispute, received >>
    BY <1>4 DEF ConfirmOfferHire
  <2>2. \A b \in Apps \ {a} : Kept(b)
    BY <1>1, <1>4, <2>1 DEF ConfirmOfferHire, Kept, Application, IsAssignment
  <2>3. ~ IsAssignment(app[a])
    BY <1>4 DEF ConfirmOfferHire, IsAssignment
  <2>4. cancellation[a].status = "none" /\ dispute[a].status # "investigating"
    BY <2>3 DEF HoldInv, HoldOK, PaidInv, OnlyAssignments
  <2>5. HoldOK(a)' /\ Held(a)
    BY <2>1, <2>4 DEF HoldOK, Held, ActiveDispute
  <2> QED
    BY <2>2, <2>5, KeptHeld DEF HeldAll
<1> QED
  BY <1>2, <1>3, <1>4
     DEF OfferStep, ApplyForJob, WithdrawApplication, UpdateApplicationStatus,
         CreateJobOffer, AcceptJobOffer, RejectJobOffer, CancelJobOffer, ExpireOffer,
         IsAssignment

\* A payment passes by what is disputed or waits for an answer.
LEMMA SettleHeld ==
  ASSUME HoldInv, NEW S \in SUBSET Apps, NEW j, Settle(S, j),
         \A a \in S : Settleable(a), UNCHANGED << cancellation, dispute >>
  PROVE  HeldAll
<1>1. app \in [Apps -> Application] /\ \A a \in Apps : received[a] \in Nat
  BY DEF HoldInv, PaidInv, TypeOK
<1>2. app' = [a \in Apps |-> IF a \notin S THEN app[a]
                 ELSE [app[a] EXCEPT !.paymentStatus = "Paid", !.workStatus = "Completed",
                         !.paidAmount = AlreadyPaid(a) + RemainingAgreed(a)]]
  BY DEF Settle
<1>3. \A b \in Apps \ S : received'[b] = received[b]
  <2>1. received' = [a \in Apps |-> received[a] + (IF a \in S THEN RemainingAgreed(a) ELSE 0)]
    BY DEF Settle
  <2> QED
    BY <1>1, <2>1
<1>4. \A b \in Apps \ S : Kept(b)
  BY <1>2, <1>3 DEF Kept
<1>5. ASSUME NEW b \in S PROVE HoldOK(b)' /\ Held(b)
  <2>1. ~ app[b].cancellationPending /\ ~ ActiveDispute(b)
    BY DEF Settleable
  <2>2. cancellation[b].status \notin {"pending", "staff_review"}
    BY <2>1 DEF HoldInv, HoldOK
  <2> QED
    BY <2>1, <2>2 DEF HoldInv, HoldOK, Held, ActiveDispute
<1> QED
  BY <1>4, <1>5, KeptHeld DEF HeldAll

LEMMA AssignmentStepHeld ==
  ASSUME HoldInv, NEW a \in Apps, AssignmentStep(a)
  PROVE  HeldAll
<1>1. app \in [Apps -> Application]
  BY DEF HoldInv, PaidInv, TypeOK
<1>2. ASSUME NEW r \in Application, app' = [app EXCEPT ![a] = r],
             r.status = app[a].status,
             r.cancellationPending = app[a].cancellationPending,
             ~ app[a].cancellationPending, ~ ActiveDispute(a),
             UNCHANGED << cancellation, dispute, received >>
      PROVE  HeldAll
  <2>1. \A b \in Apps \ {a} : Kept(b)
    BY <1>1, <1>2 DEF Kept
  <2>2. HoldOK(a)' /\ Held(a)
    BY <1>1, <1>2 DEF HoldInv, HoldOK, Held, ActiveDispute
  <2> QED
    BY <2>1, <2>2, KeptHeld DEF HeldAll
<1>3. ASSUME NEW status \in WorkStatus, app' = [app EXCEPT ![a].workStatus = status],
             ~ app[a].cancellationPending, ~ ActiveDispute(a),
             UNCHANGED << cancellation, dispute, received >>
      PROVE  HeldAll
  <2>1. /\ [app[a] EXCEPT !.workStatus = status] \in Application
        /\ [app[a] EXCEPT !.workStatus = status].status = app[a].status
        /\ [app[a] EXCEPT !.workStatus = status].cancellationPending
             = app[a].cancellationPending
    BY <1>1 DEF Application
  <2> QED
    BY <1>2, <1>3, <2>1
<1>4. CASE StartWork(a)
  BY <1>3, <1>4 DEF StartWork, WorkStatus
<1>5. CASE AuthorizePayment(a)
  <2>1. \A b \in Apps : Kept(b)
    BY <1>1, <1>5 DEF AuthorizePayment, Transition, Kept, Application, IsAssignment
  <2> QED
    BY <2>1, KeptHeld DEF HeldAll
<1>6. CASE SubmitWork(a)
  BY <1>3, <1>6 DEF SubmitWork, Transition, Movable, WorkStatus
<1>7. CASE RequestChanges(a)
  BY <1>3, <1>7 DEF RequestChanges, Transition, Movable, WorkStatus
<1>8. CASE SettleDirect(a)
  BY <1>8, SettleHeld DEF SettleDirect
<1> QED
  BY <1>4, <1>5, <1>6, <1>7, <1>8 DEF AssignmentStep

\* A cancellation that is resolved waits no more, and its case is decided.
LEMMA ResolveHeld ==
  ASSUME HoldInv, NEW a \in Apps, NEW amount \in Nat, NEW retainBaseFunding \in BOOLEAN,
         ResolveCancelledAssignment(a, amount, retainBaseFunding),
         \A b \in Apps \ {a} : dispute'[b] = dispute[b],
         (~ ActiveDispute(a) /\ dispute'[a] = dispute[a])
           \/ dispute'[a].status = "resolved"
  PROVE  HeldAll
<1>1. /\ app \in [Apps -> Application] /\ received \in [Apps -> Nat]
      /\ cancellation \in [Apps -> Cancellation]
  BY DEF HoldInv, PaidInv, TypeOK
<1>2. /\ app' = [app EXCEPT ![a] = CancelledApplication(app[a], amount)]
      /\ received' = [received EXCEPT ![a] = received[a] + amount]
      /\ cancellation' = [cancellation EXCEPT
           ![a] = [status |-> "resolved", workerPayment |-> amount]]
  BY DEF ResolveCancelledAssignment
<1>3. \A b \in Apps \ {a} : Kept(b)
  BY <1>1, <1>2 DEF Kept
<1>4. cancellation'[a].status = "resolved"
  BY <1>1, <1>2
<1>5. HoldOK(a)' /\ Held(a)
  BY <1>4 DEF HoldInv, HoldOK, Held, ActiveDispute
<1> QED
  BY <1>3, <1>5, KeptHeld DEF HeldAll

LEMMA EscalateHeld ==
  ASSUME HoldInv, NEW a \in Apps, EscalateCancellation(a)
  PROVE  HeldAll
<1>1. /\ app \in [Apps -> Application] /\ dispute \in [Apps -> Dispute]
      /\ cancellation \in [Apps -> Cancellation]
  BY DEF HoldInv, PaidInv, TypeOK
<1>2. /\ cancellation[a].status = "pending"
      /\ app' = [app EXCEPT ![a].disputePending = TRUE]
      /\ cancellation' = [cancellation EXCEPT ![a].status = "staff_review"]
      /\ \/ dispute' = dispute
         \/ \E amount : dispute' = [dispute EXCEPT ![a] = NewDispute("cancellation", amount)]
      /\ received' = received
  BY DEF EscalateCancellation, OpenCase
<1>3. \A b \in Apps \ {a} : Kept(b)
  BY <1>1, <1>2 DEF Kept
<1>4. /\ app'[a].cancellationPending = app[a].cancellationPending
      /\ app'[a].workStatus = app[a].workStatus
      /\ app'[a].status = app[a].status
  BY <1>1, <1>2 DEF Application
<1>5. IsAssignment(app[a])
  BY <1>2 DEF HoldInv, PaidInv, OnlyAssignments
<1>6. HoldOK(a)' /\ Held(a)
  BY <1>2, <1>4, <1>5 DEF HoldInv, HoldOK, Held, IsAssignment
<1> QED
  BY <1>3, <1>6, KeptHeld DEF HeldAll

LEMMA CancellationStepHeld ==
  ASSUME HoldInv, NEW a \in Apps, CancellationStep(a)
  PROVE  HeldAll
<1>1. /\ app \in [Apps -> Application] /\ cancellation \in [Apps -> Cancellation]
  BY DEF HoldInv, PaidInv, TypeOK
<1>2. CASE CancelBeforeStart(a)
  <2>1. /\ ResolveCancelledAssignment(a, 0, TRUE) /\ ~ ActiveDispute(a)
        /\ dispute' = dispute
    BY <1>2 DEF CancelBeforeStart, Cancellable
  <2> QED
    BY <2>1, ResolveHeld
<1>3. ASSUME NEW workerPayment \in Proposals,
             RequestAssignmentCancellation(a, workerPayment)
      PROVE  HeldAll
  <2>1. /\ app' = [app EXCEPT ![a].cancellationPending = TRUE]
        /\ \A b \in Apps \ {a} : cancellation'[b] = cancellation[b]
        /\ UNCHANGED << dispute, received >>
    BY <1>1, <1>3 DEF RequestAssignmentCancellation
  <2>2. \A b \in Apps \ {a} : Kept(b)
    BY <1>1, <2>1 DEF Kept
  <2>3. /\ app'[a].cancellationPending /\ app'[a].workStatus = app[a].workStatus
        /\ app'[a].status = app[a].status
    BY <1>1, <2>1 DEF Application
  <2>4. HoldOK(a)' /\ Held(a)
    BY <2>1, <2>3 DEF HoldInv, HoldOK, Held, IsAssignment
  <2> QED
    BY <2>2, <2>4, KeptHeld DEF HeldAll
<1>4. CASE AcceptCancellation(a)
  <2>1. cancellation[a].workerPayment \in Nat
    BY <1>1 DEF Cancellation
  <2>2. /\ ResolveCancelledAssignment(a, cancellation[a].workerPayment, TRUE)
        /\ ~ ActiveDispute(a) /\ dispute' = dispute
    BY <1>4 DEF AcceptCancellation
  <2> QED
    BY <2>1, <2>2, ResolveHeld
<1>5. CASE RejectCancellation(a)
  BY <1>5, EscalateHeld DEF RejectCancellation
<1>6. CASE EscalateOverdueCancellation(a)
  BY <1>6, EscalateHeld DEF EscalateOverdueCancellation
<1> QED
  BY <1>2, <1>3, <1>4, <1>5, <1>6 DEF CancellationStep

\* Only a decision, which ends the case, pays or changes the work.
LEMMA DisputeStepHeld ==
  ASSUME HoldInv, NEW a \in Apps, DisputeStep(a)
  PROVE  HeldAll
<1>1. /\ app \in [Apps -> Application] /\ dispute \in [Apps -> Dispute]
      /\ received \in [Apps -> Nat] /\ dispute[a] \in Dispute
  BY DEF HoldInv, PaidInv, TypeOK
<1>2. ASSUME \A b \in Apps : /\ app'[b].status = app[b].status
                             /\ app'[b].cancellationPending = app[b].cancellationPending
                             /\ app'[b].workStatus = app[b].workStatus,
             \A b \in Apps \ {a} : dispute'[b] = dispute[b],
             dispute'[a].status = "investigating" => IsAssignment(app[a]),
             UNCHANGED << cancellation, received >>
      PROVE  HeldAll
  <2>1. \A b \in Apps \ {a} : Kept(b)
    BY <1>2 DEF Kept, IsAssignment
  <2>2. HoldOK(a)' /\ Held(a)
    BY <1>2 DEF HoldInv, HoldOK, Held, IsAssignment
  <2> QED
    BY <2>1, <2>2, KeptHeld DEF HeldAll
<1>3. ASSUME NEW u, Reads(u) PROVE HeldAll
  <2>1. \A b \in Apps : Kept(b)
    BY <1>3 DEF Reads, Kept
  <2> QED
    BY <2>1, KeptHeld DEF HeldAll
<1>4. CASE OpenDispute(a)
  <2>1. /\ \E pending : app' = [app EXCEPT ![a].disputePending = pending]
        /\ \E amount : dispute' = [dispute EXCEPT ![a] = NewDispute("other", amount)]
        /\ UNCHANGED << cancellation, received >>
        /\ IsAssignment(app[a])
    BY <1>4 DEF OpenDispute, OpenCase, IsAssignment
  <2> QED
    BY <1>1, <1>2, <2>1 DEF Application
<1>5. ASSUME NEW amount \in 1 .. app[a].agreedAmount, OpenPaymentDispute(a, amount)
      PROVE  HeldAll
  <2>1. /\ \E pending : app' = [app EXCEPT ![a].paymentStatus = "Disputed",
                                           ![a].disputePending = pending]
        /\ dispute' = [dispute EXCEPT ![a] = NewDispute("other", amount)]
        /\ UNCHANGED << cancellation, received >>
        /\ IsAssignment(app[a])
    BY <1>5 DEF OpenPaymentDispute, OpenCase, IsAssignment
  <2> QED
    BY <1>1, <1>2, <2>1 DEF Application
<1>6. ASSUME NEW s, AssignSupport(a, s) \/ RequestEvidence(a, s)
                      \/ CompleteInvestigation(a, s)
      PROVE  HeldAll
  BY <1>3, <1>6 DEF AssignSupport, RequestEvidence, CompleteInvestigation
<1>7. ASSUME NEW f, NEW type, ProposeSettlement(a, f, type)
      PROVE  HeldAll
  BY <1>3, <1>7 DEF ProposeSettlement
<1>8. CASE ApproveSettlement(a)
  <2> DEFINE s == dispute[a].settlement
  <2>1. s \in Settlement /\ s.worker \in Nat
    BY <1>1 DEF Dispute, Settlement
  <2>2. /\ \A b \in Apps \ {a} : dispute'[b] = dispute[b]
        /\ dispute'[a].status = "resolved"
    BY <1>1, <1>8 DEF ApproveSettlement, Dispute
  <2>3. CASE ResolveCancelledAssignment(a, s.worker, FALSE)
    <3> HIDE DEF s
    <3> QED
      BY <2>1, <2>2, <2>3, ResolveHeld
  <2>4. CASE KeepAssignment(a, s)
    <3>1. /\ \E r : app' = [app EXCEPT ![a] = r]
          /\ received' = [received EXCEPT ![a] = received[a] + s.worker]
          /\ cancellation' = cancellation
      BY <2>4 DEF KeepAssignment
    <3>2. \A b \in Apps \ {a} : Kept(b)
      BY <1>1, <2>2, <3>1 DEF Kept
    <3>3. app'[a].cancellationPending = app[a].cancellationPending
      <4> DEFINE base == IF dispute[a].disputedAmount > 0
                         THEN DecidedApplication(app[a], s) ELSE app[a]
      <4>1. app' = [app EXCEPT ![a] = [base EXCEPT !.disputePending = FALSE]]
        BY <2>4 DEF KeepAssignment
      <4>2. base \in Application /\ base.cancellationPending = app[a].cancellationPending
        <5>1. /\ DecidedApplication(app[a], s) \in Application
              /\ DecidedApplication(app[a], s).cancellationPending
                   = app[a].cancellationPending
          <6> HIDE DEF s
          <6> QED
            BY <1>1, <2>1, DecidedType DEF DecidedApplication, Application
        <5> QED
          BY <1>1, <5>1
      <4> HIDE DEF base
      <4> QED
        BY <1>1, <4>1, <4>2 DEF Application
    <3>4. dispute'[a] # dispute[a]
      BY <1>8, <2>2, <1>1 DEF ApproveSettlement, Dispute
    <3>5. HoldOK(a)' /\ Held(a)
      BY <2>2, <3>1, <3>3, <3>4 DEF HoldInv, HoldOK, Held
    <3> QED
      BY <3>2, <3>5, KeptHeld DEF HeldAll
  <2> QED
    BY <1>8, <2>3, <2>4 DEF ApproveSettlement
<1>9. CASE SubmitAppeal(a)
  <2>1. /\ app' = [app EXCEPT ![a].paymentStatus = "Disputed"]
        /\ dispute' = [dispute EXCEPT ![a].active = TRUE, ![a].appealed = TRUE,
                           ![a].settled = FALSE, ![a].stage = "UNDER_APPEAL"]
        /\ UNCHANGED << cancellation, received >>
    BY <1>9 DEF SubmitAppeal
  <2>2. /\ dispute'[a].status = dispute[a].status
        /\ \A b \in Apps \ {a} : dispute'[b] = dispute[b]
    BY <1>1, <2>1 DEF Dispute
  <2>3. dispute[a].status = "investigating" => IsAssignment(app[a])
    BY DEF HoldInv, HoldOK
  <2> QED
    BY <1>1, <1>2, <2>1, <2>2, <2>3 DEF Application
<1> QED
  BY <1>4, <1>5, <1>6, <1>7, <1>8, <1>9 DEF DisputeStep

\* A case that is saved is that of an assignment, and nothing else changes.
LEMMA SaveStepHeld ==
  ASSUME HoldInv, NEW u \in saving, SaveCase(u) \/ LoseCase(u)
  PROVE  HeldAll
<1>1. dispute \in [Apps -> Dispute] /\ u.case \in Apps /\ IsAssignment(app[u.case])
  BY DEF HoldInv, PaidInv, TypeOK, Update, CallsOnAssignments
<1>2. \A b \in Apps \ {u.case} : Kept(b)
  BY <1>1 DEF SaveCase, LoseCase, Kept
<1>3. HoldOK(u.case)' /\ Held(u.case)
  BY <1>1 DEF SaveCase, LoseCase, HoldInv, HoldOK, Held
<1> QED
  BY <1>2, <1>3, KeptHeld DEF HeldAll

\* Ending recruitment cancels only what no case or request is about.
LEMMA PostingStepHeld ==
  ASSUME HoldInv, PostingStep
  PROVE  HeldAll
<1>1. /\ app \in [Apps -> Application] /\ marking \in SUBSET Apps
  BY DEF HoldInv, PaidInv, TypeOK
<1>2. ASSUME UNCHANGED << app, cancellation, dispute, received >>
      PROVE  HeldAll
  <2>1. \A b \in Apps : Kept(b)
    BY <1>2 DEF Kept
  <2> QED
    BY <2>1, KeptHeld DEF HeldAll
<1>3. CASE CommitMarkDone
  <2> DEFINE due == {a \in marking : app[a].paymentStatus # "Paid"}
             closed == [job EXCEPT !.closedManually = TRUE]
  <2>1. /\ Settle(due, closed)
        /\ \A a \in due : Settleable(a)
        /\ UNCHANGED << cancellation, dispute >>
    BY <1>3 DEF CommitMarkDone
  <2>2. due \in SUBSET Apps
    BY <1>1
  <2> HIDE DEF due, closed
  <2> QED
    BY <2>1, <2>2, SettleHeld
<1>4. ASSUME NEW workerPayment \in Proposals, RequestPostingCancellation(workerPayment)
      PROVE  HeldAll
  <2> DEFINE hired == {a \in Hires(app) : app[a].workStatus # "Completed"}
             idle == {a \in hired : app[a].workStatus = "Not started"}
  <2>1. /\ app' = [a \in Apps |->
             IF a \in idle THEN CancelledApplication(app[a], 0)
             ELSE IF a \in hired THEN [app[a] EXCEPT !.cancellationPending = TRUE]
             ELSE IF app[a].status \in {"Applied", "Offer Sent", "Position filled"}
                  THEN [app[a] EXCEPT !.status = "Cancelled"]
             ELSE app[a]]
        /\ cancellation' = [a \in Apps |->
             IF a \in idle THEN [status |-> "resolved", workerPayment |-> 0]
             ELSE IF a \in hired
                  THEN [status |-> "pending", workerPayment |-> workerPayment]
             ELSE cancellation[a]]
        /\ UNCHANGED << dispute, received >>
        /\ \A a \in hired : Cancellable(a)
    BY <1>4 DEF RequestPostingCancellation
  <2>2. idle \subseteq hired /\ hired \subseteq Apps
    BY DEF Hires
  <2> HIDE DEF hired, idle
  <2>3. \A b \in Apps \ hired : Kept(b)
    BY <1>1, <2>1, <2>2 DEF Kept, Application, IsAssignment
  <2>4. ASSUME NEW b \in hired PROVE HoldOK(b)' /\ Held(b)
    <3>1. /\ cancellation[b].status \notin {"pending", "staff_review"}
          /\ ~ ActiveDispute(b)
      BY <2>1, <2>2 DEF Cancellable, HoldInv, HoldOK
    <3>2. CASE b \in idle
      BY <2>1, <2>2, <3>1, <3>2 DEF HoldInv, HoldOK, Held, ActiveDispute
    <3>3. CASE b \notin idle
      <4>1. app'[b].cancellationPending
        BY <1>1, <2>1, <2>2, <3>3 DEF Application
      <4> QED
        BY <2>1, <2>2, <3>1, <4>1 DEF HoldInv, HoldOK, Held, ActiveDispute
    <3> QED
      BY <3>2, <3>3
  <2> QED
    BY <2>3, <2>4, KeptHeld DEF HeldAll
<1> QED
  BY <1>2, <1>3, <1>4
     DEF PostingStep, UpdateJob, CloseJob, ReopenJob, ArchiveJob, BeginMarkDone,
         AbortMarkDone

LEMMA InitHeld == Init => HoldInv
<1> SUFFICES ASSUME Init PROVE HoldInv
  OBVIOUS
<1>1. \A a \in Apps : HoldOK(a)
  BY DEF Init, HoldOK
<1> QED
  BY <1>1, InitPaid DEF HoldInv

LEMMA NextHeld == HoldInv /\ [Next]_vars => HoldInv' /\ HeldAll
<1> SUFFICES ASSUME HoldInv, [Next]_vars PROVE HoldInv' /\ HeldAll
  OBVIOUS
<1>1. PaidInv'
  BY NextPaid DEF HoldInv
<1>2. CASE PostingStep
  BY <1>1, <1>2, PostingStepHeld DEF HoldInv, HeldAll
<1>3. ASSUME NEW a \in Apps,
             OfferStep(a) \/ AssignmentStep(a) \/ CancellationStep(a) \/ DisputeStep(a)
      PROVE  HoldInv' /\ HeldAll
  BY <1>1, <1>3, OfferStepHeld, AssignmentStepHeld, CancellationStepHeld,
     DisputeStepHeld DEF HoldInv, HeldAll
<1>4. ASSUME NEW u \in saving, SaveCase(u) \/ LoseCase(u)
      PROVE  HoldInv' /\ HeldAll
  BY <1>1, <1>4, SaveStepHeld DEF HoldInv, HeldAll
<1>5. CASE UNCHANGED vars
  <2>1. \A b \in Apps : Kept(b)
    BY <1>5 DEF vars, Kept
  <2>2. HeldAll
    BY <2>1, KeptHeld DEF HeldAll
  <2> QED
    BY <1>1, <2>2 DEF HoldInv, HeldAll
<1> QED
  BY <1>2, <1>3, <1>5, <1>4 DEF Next

(***************************************************************************)
(* Between the request or the dispute and the decision on it no payment    *)
(* path pays the assignment and nobody changes its work, appeals and mark  *)
(* done included.                                                          *)
(***************************************************************************)
THEOREM HeldUntilDecidedAlways == Spec => HeldUntilDecided
<1>1. Init => HoldInv
  BY InitHeld
<1>2. HoldInv /\ [Next]_vars => HoldInv'
  BY NextHeld
<1>3. HoldInv /\ [Next]_vars =>
        [\A a \in Apps :
           (\/ ActiveDispute(a) /\ dispute'[a].status = "investigating"
            \/ cancellation[a].status \in {"pending", "staff_review"}
                 /\ cancellation'[a] = cancellation[a]
                 /\ dispute'[a] = dispute[a])
           => received'[a] = received[a] /\ app'[a].workStatus = app[a].workStatus]_vars
  BY NextHeld DEF HeldAll, Held
<1> QED
  BY <1>1, <1>2, <1>3, PTL DEF Spec, HeldUntilDecided

=============================================================================
