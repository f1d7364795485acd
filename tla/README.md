# MicroJob: TLA+ models of the postings, the money, the outbox and the sign-in

MicroJob is a marketplace for short jobs.  An employer pays for a posting in
advance, hires workers through formal offers, and the server
(`src/server`, Express over MongoDB) keeps the money in escrow until work is
paid, cancelled or decided by Finance.  This directory models the server, and
of the web client the part that keeps a user signed in.

Five systems are modelled, each with runs of its own:

- **the posting** - from its creation to its end, with its applications, offers,
  assignments, cancellations, financial disputes and every movement of its
  escrow; an abstract account (`Escrow`) that it implements;
- **the wallet** - top-ups, withdrawals and postings that meet on one account,
  with crashes and a payment provider that answers late or not at all;
- **the payment of one assignment** - direct, by QR request and day by day, with
  the reminders of work that waits for payment;
- **the notification outbox** - leases, retries, fan-out, crashes;
- **the sign-in** - one-time codes, sessions, and the browser's refresh of
  expired tokens.

They are separate models because the code separates them: what one needs of
another is stated where it is used (section 3).  Each is model-checked on small
instances and proved about for every value of its constants (section 6).

To run: `tlc -config posting.cfg MC_JobPosting.tla` (likewise `disputes`,
`appeals`, `stuck_posting`, `stuck_case`, `partial_claim`, `appeal_reopens`),
`tlc -config wallet.cfg MC_Wallet.tla`, `tlc -config outbox.cfg
MC_NotificationOutbox.tla`, `tlc -config payment.cfg Payment.tla`, `tlc -config
signin.cfg MC_SignIn.tla` (likewise `bearer_refresh`).  For the proofs: `tlapm
M.tla` with `M` one of `FiniteSetLemmas`, `JobPosting_proofs`,
`JobPosting_ledger_proofs`, `JobPosting_funds_proofs`, `Wallet_proofs`,
`NotificationOutbox_proofs`, `Payment_proofs`, `SignIn_proofs`.

## 1. Inventory

| Component | State | Operations | What is hard | What makes it correct |
|---|---|---|---|---|
| **Job posting** (`controllers/JobController.js`, `lib/hiringState.js`, `models/Job.js`) | status, positions, salary, `hiredCount`, `reservedOfferCount`, `closedManually`, `cancellationPending`, archived | create, update, close, mark done, reopen, archive, cancel | status and counters copy facts of other collections; mark done reads before its transaction | capacity never exceeded; a posting that is over stays over and keeps nothing |
| **Escrow** (`services/jobFunds.js`, `models/Transaction.js`) | append-only ledger, read back as remaining funds per originating wallet | reserve, spend, refund | one pool serves every vacancy, assignment and extra; two wallets feed it | money conserved per wallet, everything promised is still there |
| **Applications, offers** (`JobApplicationController.js`, `JobOfferController.js`, `services/offerLifecycle.js`) | application status, at most one active offer with an extra | apply, withdraw, move, offer, accept, reject, cancel, expire, confirm hire | several offers compete for one position; expiry races with answers | an active offer reserves a position; its extra can always be given back |
| **Assignments** (`LifecycleController.js`, `ApplicationPaymentController.js`, `services/applicationSettlement.js`) | work status, payment status, agreed and paid amount | start, authorize, submit, request changes, pay | four paths can pay one worker | paid once, never more than agreed; nothing paid while held |
| **Cancellations** (`services/jobLifecycle.js`) | request, proposed payment, review status | request (assignment, posting), accept, reject, escalate, resolve | whole-post cancellation ends with whichever assignment is resolved last | every request ends; the posting ends with the last one |
| **Financial disputes** (`services/financialDispute*.js`, `FinancialDisputeController.js`, `AdminFinanceDisputeController.js`) | case stage, active flag, settlement proposal, appeal | open (two ways), assign, request evidence, complete investigation, propose, approve, appeal | staff read a case and save it later, next to each other; propose and approve are far apart in time; an appeal reopens a case whose money has moved | a case can always be decided; a decision moves only the case's own money |
| **Maintenance** (`services/maintenance.js`) | none of its own | expire offers, escalate overdue cancellations and disputes, reminders, withdrawals, outbox | one throwing step stops the rest of the run | whatever is overdue is eventually handled |
| **Top-ups** (`PaymentController.js`) | checkout at the provider, ledger row, employer balance | create, webhook, client confirmation | the same checkout confirmed twice at once; the balance is read and written back | credited once, no other update of the account lost |
| **Withdrawals** (`services/withdrawals.js`, `PaymentController.js`) | payout request, dispatch claim, provider transfer | preview, confirm, cancel, review, dispatch, reconcile, webhook | crash between claim and transfer; late or repeated results | paid or refunded, exactly one of them, once; never sent twice |
| **Notification outbox** (`services/notificationOutbox.js`) | item status, attempts, lease, fan-out cursor, feed record | queue, claim, deliver, retry, fan out | a lease that ends while its deliverer works; a crash or a failed write after sending | everybody is told at least once, repeats have a reason, delivered stays |
| **QR settlement** (`QrSettlementController.js`) | request status | create, replace, cancel, expire, claim, pay, record | several writes outside a transaction, a payment between them | a settled request is a paid assignment |
| **Daily-paid work** (`services/dailyPayments.js`) | day entries with proof, payment and reminder time | submit day, pay day, twelve-hour check | a proof replaced after review; a check that was missed | each day paid once, for the proof that was reviewed |
| **Payment review reminders** (`services/maintenance.js`, `services/paymentReviewReminderService.js`) | reminder stages, next time, e-mail claim | queue, claim, send, record | resubmission moves the time; a crash under the shared claim; an e-mail that keeps failing ends every run | both reminders come, unless runs keep failing |
| **Login, OTP, MFA, sessions** (`lib/otpChallenges.js`, `lib/authSession.js`, `SessionController.js`, `middleware/auth.js`) | challenges with attempt counters, sessions with a refresh token | issue, verify, open, check, refresh, revoke, log out | every call reads first and writes later, next to others | a code opens one session, the attempt limit holds over re-issues |
| **Web client's session** (`client/src/services/api.ts`, `utils/authSession.ts`) | tokens held, calls in flight, the shared refresh | send, refresh, retry, forced sign-out | several calls meet an expired token at once | nobody is signed out of a session that is fine |
| Messaging, reviews, support, moderation, profiles, identity checks, administration, discovery | their own documents | CRUD and search | little: single-document operations | not modelled |

How they interact.  Every handler that moves money or changes the lifecycle
works on the same few documents inside one `withTransaction`, and increments
`job.fundsVersion` so that two of them on one posting conflict and one retries.
Services call each other inside that transaction: a dispute's approval calls
`resolveCancelledAssignment`, which calls `refundJobFunds`, `syncCapacity` and
`finishPostingCancellation`; a payment calls `finalizeSettledJob`.
Notifications are rows written in the same transaction and delivered later by
the outbox, by the request itself and by scheduled runs.  The wallet is shared
by everything that moves money: a posting debits it when it is created and
credits it when escrow is refunded.  The maintenance run, started by a scheduled
workflow every 15 minutes, and the scheduled e-mail jobs are the only actors
nobody has to ask.

## 2. Plan

The order is by what a mistake costs.  Done:

1. **JobPosting** and its parts.
2. **Escrow** - the abstract account; `JobPosting` is checked and proved to
   implement it.
3. **TopUps**, **Withdrawals**, **Wallet** - with MongoDB's write conflict for the
   transactions that read an account and write it later, and two postings of one
   employer for `createJob`'s read outside its transaction.
4. **NotificationOutbox** - with liveness.
5. **QrSettlements**, **DailyPayments**, **PaymentReminders**, **Payment**.
6. **OtpChallenges**, **Sessions**, **SignIn**.
7. Theorems about all five systems, for every value of the constants.

Left, in order:

1. **SnapshotTransactions** - snapshot isolation with the `fundsVersion`
   conflict, refining the atomic handlers assumed of a posting, and `deleteJob`'s
   read-then-save.
2. **DisputeWorkflow** - the evidence window, approver and proposer as different
   people, the escalated stage.
3. **Maintenance** - the run as a sequence of steps that may throw; what starves.

## 3. The modules

| Module | Models | Contents |
|---|---|---|
| `PostingState` | `lib/hiringState.js`, `services/jobFunds.js`, the document schemas | constants and their assumptions, all variables, document types, `TypeOK`, capacity, required funds, spending and refunding |
| `JobOffers` | applications and offers | one action per handler, `ApplyForJob` to `ConfirmOfferHire` |
| `Assignments` | work and payment | start, authorize, submit, changes, `SettleDirect`, mark done in two steps |
| `Cancellations` | `services/jobLifecycle.js` | requests, answers, escalation, `ResolveCancelledAssignment` |
| `FinancialDisputes` | cases and settlements | opening, the calls of staff as read and save, `ApproveSettlement`, appeal |
| `JobPosting` | the composition and the posting's own handlers | `Init`, `Next`, `Spec`, `FairSpec`, all properties |
| `Escrow` | what a posting promises about money | the abstract account: adjust, promise, discharge, close |
| `FiniteSetLemmas` | - | sums over a finite set: what is added, removed, changed, bounded |
| `JobPosting_proofs` | - | types of the posting's documents, `PaidOnce`, `OnlyAssignments` |
| `JobPosting_ledger_proofs` | - | conservation of money, the counters, held assignments |
| `JobPosting_funds_proofs` | - | what the escrow still covers, that the posting implements `Escrow`, and how a cancelled posting ends |
| `Wallet_proofs`, `NotificationOutbox_proofs`, `Payment_proofs`, `SignIn_proofs` | - | the theorems about the module they are named after |
| `WalletState` | `models/User.js`, `PayoutRequest.js`, `Transaction.js` | constants, variables, `TypeOK`, the account's write conflict |
| `TopUps` | `PaymentController.js` | check, begin, skip, commit, conflict, for webhook and client |
| `Withdrawals` | `services/withdrawals.js`, Finance handlers | by hand: preview to paid; by the provider: claim to final result |
| `Wallet` | `createJob`'s debit, and the composition | `Init`, `Next`, `FairSpec`, crash, properties |
| `NotificationOutbox` | `services/notificationOutbox.js`, `createNotification`, receipts | the whole component |
| `PaymentState` | the assignment as payment sees it | submission, review, holds, `Settles` |
| `QrSettlements`, `DailyPayments`, `PaymentReminders` | `QrSettlementController.js`, `dailyPayments.js`, `maintenance.js` and `paymentReviewReminderService.js` | one action per write, one per step of a job |
| `Payment` | the composition | `Init`, `Next`, `FairSpec`, properties |
| `OtpChallenges` | `lib/otpChallenges.js` | issue and verify, one action per read or write |
| `Sessions` | `lib/authSession.js`, `SessionController.js`, `middleware/auth.js`, `api.ts` | sessions, and the browser's calls and refreshes |
| `SignIn` | `AuthController.loginOtpVerify`, and the composition | `Init`, `Next`, `Spec`, properties |
| `MC_*` | - | constants a configuration cannot write, symmetry |

Operators marked "mutant" stand next to the definition they change.  No
specification uses them: they are the bugs against which the properties were
tried.

### The posting: state

The component modules share `PostingState`'s variables because the code's
services share the documents: each writes the job, the ledger and the wallets.

`job`, `app`, `offer`, `cancellation` and `dispute` are the documents, with the
fields some guard reads.  There is one application per worker (the code has a
unique index), at most one active offer per application (another), one pending
assignment cancellation and one active dispute per application; a new dispute
takes the place of a resolved one.

The ledger is kept as what the code reads from it.  `pot[w]` is
`remainingJobWalletSources`: what is left of the escrow that came from wallet
`w`.  `received[a]` is the sum of completed payout rows to the worker of `a`.
`references` holds the unique `Transaction.reference` values of cancelled
assignments, which a second cancellation of the same assignment meets again.
`wallet` is the employer's two balances.  `marking` is what a mark-done request
read before its transaction, and `saving` what staff who have read a case are
about to write over it.

### The posting: actions

One action stands for one handler, with everything it calls.  For instance
`AcceptCancellation` is `respondCancellation` with `resolveCancelledAssignment`,
the payment, the refund, `syncCapacity` and `finishPostingCancellation`.
Handlers that run in `withTransaction` are atomic: all of those that touch the
money write `job.fundsVersion`, so overlapping ones conflict and are retried.
Some handlers do not, or not entirely.  `changeJobStatus(Completed)` is modelled as
the two steps it is, a read (`BeginMarkDone`) and a transaction
(`CommitMarkDone`), with a failure or a server stop in between
(`AbortMarkDone`).  `updateApplicationStatus` writes with a compare on the
status it read, and every offer changes the status, so one step is sound.

The four calls of staff on a case have no transaction and no version.  Each is a
read, where it decides (`AssignSupport`, `RequestEvidence`,
`CompleteInvestigation`, `ProposeSettlement`), and a later save (`SaveCase`) or
none (`LoseCase`); calls of several people overlap, and a save writes its fields
over whatever the case has become, a decided case included.  As Mongoose does, it
writes only what the handler changed: an assignment sets `status` back only on a
case it did not read as investigating.  `deleteJob` reads and saves separately too
and is a single step here; splitting it is left in the plan.

### The posting as an account

`Escrow` says what a posting promises about money and nothing of how: an account
that the employer funds, that owes each worker an amount fixed once, pays a
worker only out of what that worker is owed, returns only what nobody is owed,
and once closed is closed.  Each of its steps keeps the total and leaves enough
for what is owed.  `JobPosting` implements it through

    Account == INSTANCE Escrow WITH
      Workers  <- Apps,
      escrow   <- RemainingJobFunds,
      employer <- AmountOf(wallet),
      paid     <- received,
      owed     <- [a \in Apps |-> StillOwed(a)],
      closed   <- job.status \in TerminalJobStatuses

and the property `AccountKept == Account!Spec`, checked in `posting` and
`disputes`.  It is stronger than the invariants it resembles: a handler may not
pay one worker out of what another is owed, raise or repeat a promise, or take
back a part of what is owed, even if the sums agree.  With partial claims, with
appeals or with proposals on one case that overlap it does not hold: a part that
Finance refunded stays payable, and a decided case can be decided again (findings
3 and 4, and section 4).

### The posting: what is abstracted

- Time.  Deadlines (offer expiry, 72 hours to answer a cancellation, appeal
  window, evidence window) are nondeterministic: what may happen after a
  deadline may happen at any moment.  For safety this only adds behaviours.
- People.  A request's author is dropped where some entitled person always
  exists (the other party answers, another staff member approves).
- "Applied" stands for Applied, Shortlisted, Interview Scheduled and
  Interviewed: no modelled guard tells them apart.
- Offers that ended (hired, rejected, expired, cancelled) are "none".
- The stages of a dispute that wait for evidence and the escalated one are part
  of `UNDER_INVESTIGATION`; the employer's response and evidence move no money.
  Which member of staff a case is assigned to is dropped: any of `Investigators`
  may work on it, as administrators may.
- An employer without the worker role is one whose worker wallet is 0.
- Legacy values nothing modelled writes (`Accepted`, `open`, `Resolved` and
  `Full refund` as job status, `Failed`), ledger rows without funding sources.
- Daily-paid jobs, interviews, messages, notifications and receipts.
- `createJob` is `Init`: it empties the employer wallet before the worker
  wallet, so in a small instance nothing would be left for an extra.  `TopUp` is
  what the employer wallet receives right after it.

### The wallet

`balance` is the account's two balances; `checkout` and `transfer` are a top-up
and a withdrawal as their provider has them, `payout` the `PayoutRequest`
documents, `credited` the top-ups with a ledger row.  What a request has read
and not yet used is state: `attempt` (a top-up being credited), `dispatcher`
(a transfer being submitted), `verdicts` (final results read and not applied),
`posting` (a cost shared out over the balances).  `Crash` loses exactly these.

A top-up is credited by a transaction that reads the account and later writes
the sum back, so the two moments are two actions (`BeginTopUp`, `CommitTopUp`).
Between them MongoDB aborts it if anybody else commits to the account: `Commit`
marks the open transactions `stale`, and a stale one tries again a few times
(`ConflictTopUp`).  Withdrawals and postings debit with a guarded update
and are one action, after the unguarded read that precedes them
(`PreviewWithdrawal`, `CheckPosting`).  The dispatch of a withdrawal claims it
for good before anything is sent; a lost answer, a crash or a timeout leaves it
`processing` until the transfer's fate is read from the provider.  Since the
present policy makes every new withdrawal manual, the automatic ones are those
of an earlier policy that are still in the database (`LegacyPayout`, `Init`).

Abstracted: fees, currencies, limits, destinations, signatures, who may review.
A provider's transfer goes from submitted to refused or pending and from there
to succeeded or failed; the provider calls back as often as it likes.

### The payment of one assignment

`PaymentState` is the assignment as the paying handlers see it, in parts: one
part for a job paid at once, one per work date otherwise.  `proof` numbers the
submissions of a part and `seen` is the last one the employer looked at, because
a confirmation carries the `submittedAt` it is for.  `Hold` and `Lift` stand for
cancellations, modelled in the posting.  The clock counts intervals of twelve
hours.  A QR request is made in two writes and settled in four (`ClaimRequest`,
`CheckRequest`, `PayRequest`, `RecordRequest`), with the error path
(`ReleaseRequest`) and a crash in between; only the payment is a transaction.
The e-mail job takes a claim, sends, and records; the two stages are taken in
order and share one claim field, and `ClaimEnds` is its ten minutes.  Both jobs
work through many assignments, and the first error ends the run: `failing` says
for which of them an earlier step or assignment, or this one's own e-mail, fails
run after run (`JobBreaks`, `JobRecovers`).

### The outbox

An item is claimed by moving `availableAt` into the future and counting the
attempt; a result is recorded only if the attempt is still the same.  `ready`
says that `availableAt` has passed and `holder` who claimed last, which is what
the comparison of attempts finds out.  The fan-out reads a batch of workers after
its cursor, queues a notice for each match (an upsert by key), and then moves
the cursor - without comparing attempts, so a late pass may move it too.
The push service may answer and take a notice for no device (`SendRefused`: too
many messages, a device no longer registered, no device at all); the code tells
nobody, and the notice counts as pushed.  `QueryFails` is an error of the database
at any read or write, the marks after a sending included: the catch puts the item
back, although a write may have been made.  `copies`, `unsure`, `refused` and
`lapses` are history for the properties.

### The sign-in

A code and a session are documents; every call that works on them is a sequence
of reads and writes interleaved with the others.  An access and a refresh token
minted together share a number.  `jar` is what the browser holds, `call` its
calls in flight, `refresh` the refresh each call leads; the other calls of the
tab join it.  `Transport` is the build's choice between cookies and headers.

Assumptions, each named where it is made: a call is shorter than the fifteen
minutes of an access token (`Brief`); a sign-in's answer is taken when the
browser's own calls are over (`SignedIn`); codes are issued from the sign-in page
(`Issue`); a refresh whose answer is lost tries the next address or gives up
(`RefreshLost`).  There is one tab: two tabs that share cookies refresh
independently, and the one that comes second holds a rotated token and is signed
out, so `SignedInWhileValid` does not hold with two; the comment it quotes
speaks of the calls of one page.

## 4. The runs

The first seven use `MC_JobPosting`.  `CHECK_DEADLOCK FALSE` throughout: a
posting, an account without requests, a delivered outbox, a paid assignment and
a browser that is signed out may really come to rest.

| Run | Instance | Checks |
|---|---|---|
| `posting` | 2 workers, 1-2 positions, every offer with an extra, no dispute opened by the parties, one call of staff | `TypeOK`, `Solvent`, `ExtrasRefundable`, `CapacityRespected`, `PaidOnce`, `MoneyConserved`, `NothingLeftBehind`, `CancellationCanFinish`, `OutcomesKept`, `AccountKept` |
| `disputes` | 2 workers, 1-2 positions, extras 0 and 1, no cancellation requests, one application disputed for all that is unpaid, two calls of staff | `Solvent`, `PaidOnce`, `OnlyAssignments`, `MoneyConserved`, `OutcomesKept`, `AccountKept`, `HeldUntilDecided` |
| `appeals` | 1 worker, extras 0 and 1, partial claims and appeals, two calls of staff, `FairSpec` | `PaidOnce`, `RequestsAnswered`, `HeldUntilDecided` |
| `stuck_posting` | 1-2 positions, disputes | finds `PostingCancellationEnds` violated |
| `stuck_case` | 1 position, disputes | finds `CaseDecidable` violated |
| `partial_claim` | 2 positions, partial claims | finds `UnrelatedFundsKept` violated |
| `appeal_reopens` | 1 position, appeals | finds `OverStaysOver` violated |
| `wallet` | 1 top-up, 1 withdrawal, 2 postings, 1 crash, `FairSpec` | `TypeOK`, `MoneyAccountedFor`, `RefundedOrTransferred`, `SubmittedOnce`, `TransfersReconciled`, `PaidTopUpsCredited` |
| `outbox` | a fan-out over 2 workers, a receipt, 2 deliverers, 2 troubles, `FairSpec` | `TypeOK`, `NobodySkipped`, `DeliveredReached`, `RepeatsExplained`, `DeliveredStays`, `EventuallyDelivered` |
| `payment` | 2 work dates or one whole, 2 QR requests, 5 ticks, 1 trouble, `FairSpec` | `TypeOK`, `LedgerAgrees`, `RequestsTruthful`, `RemindersSpaced`, `RemindersNotLost` |
| `signin` | 2 codes, 2 guesses at once, 1 tab with 2 calls, cookies, 1 trouble | `TypeOK`, `CodesSpentOnce`, `SignedInWhileValid` |
| `bearer_refresh` | 1 call, tokens in headers, no trouble | finds `SignedInWhileValid` violated |

What they show of the posting: without partial claims and appeals, and while
proposals on one case do not overlap, no interleaving of the handlers spends
money that was promised elsewhere (`Solvent`), leaves an extra
its wallet cannot return (`ExtrasRefundable`), loses or invents money or moves
it between wallets (`MoneyConserved`), or lets anything but the decision touch a
held assignment (`HeldUntilDecided`), and the posting implements `Escrow`
(`AccountKept`).  Where those limits are left, payments still stay counted
once (`PaidOnce`), no money is lost and what is held is not touched, but the pool
no longer covers everybody.

*Two proposals on one case.*  `proposeDisputeSettlement` reads the case
(`financialDisputeSettlement.js:34`) and saves it at the end (96), without
looking at it again.  Two members of Finance can both read a case that waits for
a settlement; one saves, the proposal is approved and its money moved; then the
other saves, and the decided case awaits approval once more (113).  Approved again,
it draws on the escrow of the whole posting (`financialDisputeMoney.js:50`).
To see it, set `Proposers = {finance, support}` in `disputes.cfg`: `AccountKept`
is violated by a behaviour of 16 states, and once the action properties are taken
out `Solvent` by one of 20, in which the first decision refunds a case in full,
the second pays it in full, and nothing is left for the worker who was hired in
the meantime.  `PaidOnce`, `OnlyAssignments`, `MoneyConserved` and
`HeldUntilDecided` hold there too, and are proved for any number of proposers.
All runs have one proposer, with whom calls of support overlap.

`posting` is about the ordinary life of a posting.  In it a rejected or overdue
cancellation does go to Finance and is decided, but no party opens a dispute
(`MaxDisputed = 0`), because `NothingLeftBehind` and `CancellationCanFinish`
do not hold once they do: a full-payment decision leaves a whole-post
cancellation waiting for nobody (finding 1), or completes the posting under a
cancellation request that is still open.  `disputes` is the same posting with
disputes and drops those two.  It has no cancellation requests
(`Proposals = {}`): both together are in `appeals`, with one worker, and in the
theorems.

Of the wallet: no interleaving of webhook, client, Finance, dispatcher,
maintenance and postings loses an update of a balance or overdraws it; what was
given back was not transferred; a transfer is not sent twice; and what the
provider took in or finished reaches the wallet although callbacks and
dispatchers may be lost.

Of the payment: whatever confirms it, a part is paid once; a settled QR request
is a paid assignment; a day gets one reminder per due time and no backlog; both
reminders of submitted work come in the end, in the feed and by e-mail, through
resubmissions, holds, errors and a crash under the claim, unless the runs of
their job keep failing before they are done with the assignment.  That one
assignment whose e-mail always fails keeps the later ones waiting is what the
code does (`paymentReviewReminderService.js:269`).  What it does not say either:
a QR request whose settling call crashed stays `SETTLING` for ever (a hazard
without harm to money: the worker makes another).

Of the outbox: overlapping, late and crashed deliverers skip nobody; a notice is
marked delivered only when it is in the feed and the push service has answered,
be it that no device takes it, and a receipt only when its e-mail was taken; a
message is repeated only when a lease ended, a provider reported as failed what
it had taken, or the database failed where the sending was to be recorded; and only
a deliverer whose own mark was reported as an error takes a mark back.  A push
refused for want of a device or for its rate is never retried, although
`JOB_NOTIFICATIONS.md:22-25` keeps failed deliveries for retries
(`pushService.js:32-41`); what reaches the worker then is the feed.

Of the sign-in: two calls with the same code open one session, counters carry
over a re-issue without exceeding the limit, and with cookies no interleaving of
two calls, one refresh, sign-ins and revocations signs out a user whose session
is fine.

### Bounds

Of the posting:

- Two workers and two positions: the smallest instance in which two offers
  compete for a position, a payment may spend the other assignment's pay, one
  hire is cancelled while the other works, and a vacancy remains beside a hire.
  The second worker is interchangeable with the first (`Workers` is a
  symmetry; the properties of those runs are invariants and action properties).
- `Salaries = {2}`; `Proposals = {1}`, in `posting` `{2}` with an agreed pay of
  3: a proposed payment strictly between nothing and everything, a partial
  settlement with both shares positive.
- `WalletAtStart` = employer 2, worker 4, fee 1: every posting is paid from
  both wallets, so that the order of spending and refunding matters, and two
  positions cost all but one unit.
- `Extras = {1}` with `TopUp` 2 in `posting`: both workers can be promised an
  extra.  `{0, 1}` with 1 in `disputes` and `appeals`: the pays differ.
- `Investigators`, `Proposers` and `MaxCalls`: one person of each kind, and how
  many of their calls are under way at a time.  One person makes one call on a
  case at a time, so a support call and a proposal overlap where `MaxCalls` is 2.
- `MaxDisputed = 1`: the parties of one application go to Finance; the other
  assignment is the one whose money must stay.  An application keeps its one
  dispute through an appeal, so the cases themselves are bounded.
- `PartialClaims` and `Appeals` switch those paths on and off, which separates
  what holds without them from what they break.

Nothing else of the posting is bounded: the state space of each instance is
finite and is explored completely (about 381 000, 306 000 and 419 000 states).

Of the wallet (about 218 000 states): one of each thing that competes and two
postings, because two postings of one employer compete with each other.
`Cost = 2` against balances of 1 and 1 makes a posting need both wallets, and a
top-up of 1 or a withdrawal of 1 between its check and its debit changes what
each may give.  `MaxTries = 1` gives up after one conflict, which is what the
repeated webhook is for; `MaxCrashes = 1` is a crash at any one moment.

Of the outbox (about 334 000 states): one scheduled run and one request; batches
of one worker and two workers, the second matching, so that the fan-out needs
two full passes and a last one; two troubles, so that a lease may end early and the
late deliverer then fails or crashes, or a provider and then the database fails.
Pushes that no device takes are not counted among the troubles.

Of the payment (about 728 000 states): two work dates, so that paying one leaves
the other; two requests, so that one replaces the other; two proofs of a part,
so that one overtakes a review; `Interval = 1` and `MaxClock = 5`, so that 48
hours pass after a submission in the first interval; one hold and one trouble (a
crash, an error, or a job that begins to fail).

Of the sign-in: two calls that issue and two that verify, two attempts; two
sessions and three pairs of tokens, so that a session is opened, refreshed and
opened again; two calls in flight, so that one leads a refresh and one joins;
one trouble (a refresh lost, a session or code expired, a session deleted or an
account disabled).  Calls, sign-ins and issues are interchangeable (`Symmetry`;
no liveness is checked there).

### Fairness

No person is ever obliged to act: nobody has to pay, answer, submit, return to a
page or repeat a call.

*Posting.*  `FairSpec` asks only that the maintenance run eventually escalates
an overdue cancellation, as long as nothing makes the run throw
(`MaintenanceEscalates`).  The code justifies it: a scheduled workflow starts
the run every 15 minutes (`docs/lifecycle-policy.md`), and the run takes up to
50 overdue requests, oldest first.  An escalation throws when an
appealed case occupies the unique index on active disputes (`Blocked`), and the
exception leaves `runMaintenance`; this is why `RequestsAnswered` has that
exception and why the fairness does not promise more.

*Wallet.*  The provider repeats a webhook until it is answered
(`WF` of `WebhookStep`), and the maintenance run reads the fate of up to ten
unfinished transfers every fifteen minutes (`MaintenanceReconciles`, with
automatic withdrawals switched on); an instance has fewer than ten.  With more,
ten transfers the provider does not know could keep the others waiting
(`maintenance.js:56`), which is listed as a hazard and not covered.  A dispatcher
may always crash.

*Outbox.*  Leases and backoffs end by the clock, a deliverer that has not
crashed takes its next step, and the scheduled run comes back (`Runs`); the
request does not.  Errors, crashes and early lease ends stop after
`MaxTroubles`: `EventuallyDelivered` is for a mail service, a push service and a
database that work in the end.  The scheduled run delivers through the
maintenance route, where a throw in the steps before ends it: the statement is
about the runs that get as far.

*Payment.*  The maintenance run reminds (`WF` of `Remind`) and the e-mail job is
scheduled again and again, as long as neither fails before it is done with the
assignment: both fairness conditions are conjoined with `failing`.  The claim is
enabled only while nobody holds one, so it is `SF` (`ClaimMail`).  A job that runs
goes on, and a claim ends with time.  Nothing obliges a failing job to recover
(`JobRecovers` has no fairness): an employer may be without an address for ever,
and `RemindersNotLost` has that as its exception.

*Sign-in.*  None: its properties are safety.

## 5. Findings

Each is a run whose single property quotes the repository.

1. **`stuck_posting`** - a whole-post cancellation waits forever.
   `finishPostingCancellation` is called only when an assignment is cancelled;
   when the last one is disputed and decided by full payment, nobody calls it
   (`financialDisputeSettlement.js:266-270`).  In the trace the posting has two
   positions and one hire: the hire is paid and completed, the posting is `Closed`
   and `cancellationPending` with no assignment left to resolve, and the pay of
   the vacancy stays in escrow.
2. **`stuck_case`** - assigning an investigator while a settlement waits for
   approval sends the case back and keeps the settlement; it can then be neither
   approved nor replaced (`AdminFinanceDisputeController.js:59`).
3. **`partial_claim`** - after Finance refunds a part that was disputed, the
   ordinary payment still pays the full agreed amount, out of another
   assignment's share (`applicationSettlement.js:40,55-59`).  An appeal gets
   there without a partial claim: set `PartialClaims` to `FALSE` and `Appeals` to
   `TRUE` in `partial_claim.cfg`, and the second decision of a case that was
   refunded in full pays from the pool (`financialDisputeMoney.js:50-51`).
4. **`appeal_reopens`** - a decision on appeal writes `Closed` over the terminal
   `Cancelled` (`jobLifecycle.js:69`).
5. **`bearer_refresh`** - with tokens in headers, which `README.md:87` gives for
   the Azure builds, the first call after an access token expired signs the user
   out although the refresh succeeded: the retry carries the header built before
   the refresh (`client/src/services/api.ts:497`), and the comment at 505-507 says
   such a retry must not force a sign-out.  The mobile client drops the header
   first; `signin` shows that with cookies the promise holds.

## 6. Proofs

Every theorem holds for every value of the constants that satisfies the named
assumptions, and is checked by TLAPS down to the last step.

| Module | Theorem | Says |
|---|---|---|
| `JobPosting_proofs` | `TypeCorrect` | `[]TypeOK`: balances, escrow and payments never go negative, no status leaves its enumeration |
| | `PaidInvariant` | `[]PaidInv`, inductive |
| | `PaidOnceAlways` | `[]PaidOnce` |
| | `OnlyAssignmentsAlways` | `[]OnlyAssignments` |
| `JobPosting_ledger_proofs` | `MoneyConservedAlways` | `[]MoneyConserved`: no money made, lost or moved between wallets |
| | `CapacityInvariant`, `CapacityRespectedAlways` | `[]CapacityRespected`, inductive beside the types |
| | `HeldUntilDecidedAlways` | `HeldUntilDecided`: nothing but the decision touches a held assignment |
| `JobPosting_funds_proofs` | `FundsInvariant` | `PlainCases` implies `[]FundsInv`, inductive |
| | `SolventAlways`, `ExtrasRefundableAlways` | `PlainCases` implies `[]Solvent` and `[]ExtrasRefundable` |
| | `OutcomesKeptAlways` | `PlainCases` implies `OutcomesKept`: what is over stays over |
| | `AccountKeptAlways` | `PlainCases` implies `AccountKept`: the posting implements `Escrow` |
| | `EndsInvariant` | `PlainCases` and `Undisputed` imply `[]EndsInv`, inductive beside `FundsInv` |
| | `NothingLeftBehindAlways`, `CancellationCanFinishAlways` | `PlainCases` and `Undisputed` imply `[]NothingLeftBehind` and `[]CancellationCanFinish` |
| `Wallet_proofs` | `WalletInvariant` | `[]WalletInv`, inductive |
| | `WalletTypes` | `[]TypeOK`: no balance is overdrawn |
| | `MoneyAccountedForAlways` | `[]MoneyAccountedFor`: no update of the account is lost |
| | `RefundedOrTransferredAlways` | `[]RefundedOrTransferred` |
| | `SubmittedOnceAlways` | `SubmittedOnce`: no transfer is sent twice |
| `NotificationOutbox_proofs` | `OutboxInvariant`, `OutboxTypes` | `[]OutboxInv`, inductive, and `[]TypeOK` |
| | `NobodySkippedAlways` | `[]NobodySkipped` |
| | `DeliveredReachedAlways`, `DeliveredStaysAlways` | `[]DeliveredReached`, `DeliveredStays` |
| | `RepeatsExplainedAlways` | `[]RepeatsExplained`: one repeat at most for each lapse or reported error |
| `Payment_proofs` | `PaymentInvariant`, `PaymentTypes` | `[]PaymentInv`, inductive, and `[]TypeOK` |
| | `LedgerAgreesAlways` | `[]LedgerAgrees`: each part is paid once |
| | `RequestsTruthfulAlways` | `[]RequestsTruthful` |
| | `RemindersSpacedAlways` | `[]RemindersSpaced` |
| `SignIn_proofs` | `SignInInvariant`, `SignInTypes` | `[]SignInInv`, inductive, and `[]TypeOK` |
| | `CodesSpentOnceAlways` | `[]CodesSpentOnce` |
| | `SignedInWhileValidAlways` | `OnePage` implies `SignedInWhileValid` |

### Assumptions

Each is stated beside the constants it is about: `AmountsAssumption` and
`ScopeAssumption` (posting), `WalletAssumption`, `OutboxAssumption`,
`PaymentAssumption`, `OtpAssumption`, `SessionsAssumption`, `SignInAssumption`.
They say that amounts are naturals, that sets of documents and of calls are
finite, that an attempt limit or a batch is at least one, and that names which
must differ do (a fan-out, a receipt and a worker's notice are three kinds of
item).  None bounds anything: the theorems hold with any number of workers,
postings, top-ups, deliverers, days, codes, calls, retries, crashes and ticks,
and those of `JobPosting_proofs` and `JobPosting_ledger_proofs` with partial
claims, appeals and any number of overlapping calls of staff, proposals too.

Three hypotheses are of their own.  The theorems of `JobPosting_funds_proofs`
assume `PlainCases`: whoever disputes an assignment disputes all that is
unpaid, nobody appeals, and there is one proposer at most, so that no two
proposals on a case overlap.  The code allows all three, and then the statements
are false: after a partial claim the escrow no longer covers the others
(`partial_claim`), an appeal takes up a posting that was over
(`appeal_reopens`), and of two proposals the later save takes up a decided case
(section 4).  Disputes themselves, on any number of assignments, are in, and so
are any number of overlapping calls of support next to the proposal.
`NothingLeftBehind` and `CancellationCanFinish` also assume `Undisputed`: no
party opens a case, though cancellations still go to Finance and are decided
there in every way.  With a case of a party's own they are false, as finding 1
explains.  `SignedInWhileValid` holds with cookies and in one tab (`OnePage`).
With headers it is false, as `bearer_refresh` shows, and with two tabs the
second to refresh holds a rotated token.  The number of calls in flight, of
sign-ins and of tokens is free.

### The arguments

*Posting, payments.*  `PaidOnce` says that `paidAmount` on the document equals
what the ledger paid and is at most the agreed amount.  It is not inductive
alone.  Confirming a hire writes `agreedAmount`, so the worker must not have been
paid before; and since an employer may move applications by hand, that needs
`OnlyAssignments`: an application that is not (and was not) an assignment has
no payment, cancellation or dispute.  `OnlyAssignments` in turn needs that every
path which pays or opens a case starts from a hired or cancelled assignment, and
that no handler turns one back into an application; and since staff save a case
later than they read it, that every unsaved call is on an assignment
(`CallsOnAssignments`).  `TypeOK` gives the arithmetic its ranges.  Hence
`PaidInv`, the conjunction of the four, preserved by one
lemma per group of actions (`OfferStepPaid` to `PostingStepPaid`) over lemmas on
the shared operators (`SpentFirstType`, `ReleaseType`, `SyncType` and so on).

*Posting, money.*  The sum of wallets, escrow, extras and payments changes by
what a handler moves and by nothing else; the lemmas follow a payment, a
refund and a decision through `JobSpendingSources` and `Release`, wallet by wallet,
and `SumRaise` adds one worker's payment to the sum over all of them.

*Posting, counters.*  `CapacityRespected` needs no other invariant than the
types: every handler that hires, offers or ends either recounts the documents
(`SyncCapacity`) or refuses when the recount would exceed the positions, and
ending an offer or an assignment only makes the counts fewer (`CountsFewer`).

*Posting, held assignments.*  `HeldUntilDecided` is about steps.  The payments
look for a mark on the assignment and not for the request itself, so the proof
carries `HoldInv`: a request that waits is marked, and a case under
investigation is an active one.

*Posting, escrow.*  `Solvent` bounds the escrow from below, and a posting that
ends gives back whatever is left; to know that this is nothing anybody is owed,
the escrow has to be bounded from above as well.  `FundsOK` says that it is what
is promised and reserved, plus at most the pay of the vacancies, and exactly
that much while the posting is not closed by hand or never hired anybody.  That
a payment of one assignment takes what that assignment is owed rests on the
documents (`DocsInv`): a hire is owed all that was agreed until it is paid
(`HireOK`), a case is about all of it and a proposal divides all of it
(`DisputeOK`), and a refund's reference, which silences a second refund, is
taken only by an assignment that is cancelled (`ReferenceOK`).  The calls of
staff bring `CallsInv` (`CallOK`): a case that somebody read stays open or has
a settlement by the time it is saved, only a proposal sends it to Finance's
approval, and an unsaved proposal is the only one of its case and divides what
the case is about, on a case without a settlement.  The last is what a second
proposer breaks: the first one's save settles the case under the other's
proposal.  `JobOK` ties the end of the posting to its assignments.  Each handler
has a lemma (`ApplyAdvances` to `RequestAdvances`), which shows three things at
once (`Advances`): the invariant afterwards, the outcomes that stay, and which
of four things the step was for the account (`Moved`): nothing, more or less
money for vacancies and extras, a promise to one worker, or payments and claims
given up.

*Posting, refinement.*  `AccountStep` turns the four into steps of `Escrow`.  What
every step of `Escrow` keeps (`Covered`) is `MoneyConserved` before and after, and
`FundsOK` after the step; a payment is the account's last one (`Close`) when the
posting is over afterwards, since then `JobOK` says that nothing is left and
nobody is owed (`OverOwesNothing`).

*Posting, its end.*  `EndsInv` says that the only open cases are those of
cancellations, that a request waits exactly if its assignment is marked, and that
a posting being cancelled waits for some unfinished assignment and is not yet over.
Two things keep the last: nothing but `resolveCancelledAssignment` finishes an
assignment in the meantime, which looks whether it was the last, and a decision
always goes there, since every case is a cancellation's (`DisputeStepWaits`).  It is
the second that a party's own case breaks.

*Wallet.*  That nothing is lost says nothing about transactions that have read
and not written.  `AttemptsFresh`: a transaction nobody overtook still knows the
account and the ledger as they are, so what it writes back is true; all others
are stale and write nothing.  `Sent`: where a claimed withdrawal can be, and that
a verdict which was read stays true while it waits to be applied.  `Books`: the
balance as an equation between sums over withdrawals and postings, from which
`MoneyAccountedFor` follows.

*Outbox.*  `FanoutTrue`: not only the cursor, but every position a deliverer still
carries stands past queued workers only, since a late pass writes it.
`CarriedTrue`: what a deliverer is about to record happened: a notice on its way to
the mark was answered (`Answered`), a receipt taken.  `HolderTrue`: an item whose
last claimer works on it is claimed, or marked by that claimer, who was told of an
error.  `CopiesBounded`: what was sent, plus what may still be sent without another
lease ending or an error being reported (`Spare`: nothing once a push is marked),
is at most one more than the lapses and false errors; `RepeatsExplained` forgets
the middle term.  `DeliveredStays` follows from `HolderTrue`.

*Payment.*  `AssignmentInv` fixes the balance as a function of the set of paid
parts, `QrInv` says that a call which goes on to record has seen the payment,
`DailyInv` that a day reminded of in a tick is due again after it, and
`RemindingInv` that the e-mail job works on a stage.

*Sign-in.*  `CodesOK`: codes are issued in order, one at most is active, one is
accepted exactly if it is consumed, and a guess is at a code that exists;
`UsesOK`: a code that a sign-in or the browser holds is consumed and held once.
For the browser, `BrowserOK`: no number of a token is used twice, a refresh
that was not lost carries the token its session has until the session is
taken over, one call leads at a time, and when none does, the browser's token is
the session's.

### Sums

The model adds amounts over workers, withdrawals and parts with the community
modules' fold.  `FiniteSetLemmas` proves that it is a sum: the recursion the fold
is built on is over the subsets of a finite set, and the lemmas get at it with
minimal counterexamples (`MinimalMember`) where the library's induction
theorems, which take an operator as parameter, cannot be used.  `SumRemove`
peels off one member; `SumAdd`, `SumChange`, `SumAtMost` and the others
follow.  `SumOver` in `PostingState` is by its definition a natural number,
which is all the types need; `SumOverIsSum` proves that it is the sum.

### Only model-checked

Of the properties that the runs check and find to hold, all invariants and all
action properties are proved, and the refinement.  Left to TLC are:

- `RequestsAnswered`, `TransfersReconciled`, `PaidTopUpsCredited`,
  `EventuallyDelivered` and `RemindersNotLost`: liveness under fairness, and with
  it ENABLED, is out of the prover's reach.

## 7. Not modelled

`PROJECT.json` lists every component with the reason.  Beside the parts left in
the plan (section 2):

- Messaging, reviews, support, moderation, profiles, identity checks,
  administration and discovery: single-document CRUD with role checks, or
  read-only.  No state of theirs constrains the modelled ones.
- Of the outbox: reading and deleting the feed, registering devices, sockets,
  nonpayment alerts, and items with `payment-received` keys, which an earlier
  version queued and this one marks delivered without doing anything
  (`notificationOutbox.js:34`).
- Of the reminders: the earlier review e-mails of the same service, and two
  e-mail jobs that overlap for longer than the ten minutes of a claim.
- Of daily-paid work: disputes and cancellations that pay a part of a daily job,
  and work dates in the future.
- Of the sign-in: lockout after wrong passwords, trusted devices, authenticator
  codes, the other purposes of codes, several tabs and devices.
- The HTTP layer and the rest of the clients.  Most lines of this repository are
  pages, forms, styles, formatting and validation of the two clients and
  single-document CRUD of the server; they have no states or steps that a model
  could say something about, so the modelled definitions cover a small share of
  all lines and most of the lines that move money, hire, pay, deliver or sign in.

Hazards that no property covers say in `PROJECT.json` why.
