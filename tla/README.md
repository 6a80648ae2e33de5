# CoBuddy Companion Backend: TLA+ models, checks and proofs

The companion backend (NestJS, Prisma, PostgreSQL) takes booking requests from the customer backend,
lets a companion accept, decline or counter them, runs the in-person session, credits the companion
and pays the money out. Almost every handler is a sequence of separate database statements; several
servers run the same code on one database. The models here follow those statements: **one TLA+ action
per statement whose result a later statement relies on**, so that every interleaving two servers can
produce is a behaviour of the model.

Paths below are relative to the repository root; `requests.service.ts` and the like are under
`src/modules/`.

## 1. The system

| Component | State | Operations | Hard behaviour |
|---|---|---|---|
| Booking requests (`requests/`) | `booking_requests`: status, proposed and counter-proposed range, `expiresAt` | create, modify, accept, decline, counter, answer counter, two expiry sweeps | checks outside the transaction, read-then-update by id, an advisory lock, expiry races, repeated calls |
| Session status handlers (`sessions/`) | `sessions.status`, scheduled range | pre-arrival, check-in, verify (code, selfie), end early, cancel, no-show, complete | every update is by id after an earlier read |
| Completion and crediting (`sessions/`, `internal/`) | earnings rows, `companions.totalSessions` | `endEarly`, `completeSession`, `completeSessionByBooking`, `_finalizeEarnings` | check-then-create, crash between statements |
| Status notification (`sessions/`, `requests/`, `internal-bridge.service.ts`) | `reconciliationRunning`, `sessions.updatedAt` | one-shot notifications, 15 s cron | lost, late and reordered posts, stale snapshot, restart |
| Earnings and payouts (`earnings/`) | `earnings_transactions`, `payout_records` | auto-clear, request payout | sum-then-insert without serialisation, swallowed errors |
| Payments (`payments/`) | `razorpay_orders`, payment status and status of a request | order, verify, webhooks | repeated, early and unordered webhooks, two writes in opposite orders |
| Internal S2S API (`internal/`) | writes into all of the above | complete by booking, review, verification decision, ban, relay, support message, directory | several writes, no transaction |
| Authentication (`auth/`), account, settings | OTP sessions, refresh tokens, account status, `deletedAt`, PIN | send/verify OTP, refresh, logout, PIN, deactivate, reactivate, two deletions, ban | check-then-act around revocation |
| KYC and onboarding (`kyc/`, `profile/`) | `profileStatus`, `verificationStatus`, KYC row, lists | 27 saves, progress engine, draft, submit, resubmit, admin decision | several writes, decisions about an older submission, a screen that cannot be left |
| Safety (`safety/`) | timer: status, `expiresAt` | start, check in, cancel, 1 min cron, SOS | expiry by id without a recheck, lost alerts |
| Reviews and trust (`internal/`, `profile/`) | reviews, aggregate rating, trust score, badges | review by S2S call, trust task, quiz | stale aggregate, lost points |
| Session chat (`sessions/`) | the room, messages at the customer backend | send (REST, socket), relay, history | two posts after one check, lost answers, a relay at any time |
| Support (`support/`) | tickets, messages, the ticket's room, the admin backend's copy | create, reply, agent's reply, appeal | posts nobody awaits or repeats |
| Uploads, profile gallery | files in a store, `uploaded_files`, `companion_photos` | upload, add, delete, replace | limit checked before the insert |
| Availability, settings | a day of the schedule, presence, preferences | toggle, hours, vacation, merge, replace | read, compute, write back |
| Directory (`profile/`, `internal/`, `requests/`) | none of its own | five queries over the companion row | each asks for a different part of the status |
| Notifications, dashboard, training | rows, sockets, a 30 s cache | inserts and reads | little |

Interactions. The customer backend creates and modifies requests, answers counter-offers and completes
sessions (`internal-requests.controller.ts`, `internal.controller.ts`); an accepted request creates
exactly one session (`requestId` is unique); the payment webhook writes the request's status; the admin backend approves, rejects and bans
companions, which is what the directories and `createInternalRequest` go by; chat messages live at the customer
backend and support tickets are copied to the admin backend; a completed
session creates an earnings row; the payout service adds the rows up; session handlers and the cron tell
the customer backend. Only `acceptRequest` uses a lock (`pg_advisory_xact_lock` per companion), and all
transactions run at PostgreSQL's default isolation, READ COMMITTED.

What makes each part correct:

- requests: a companion is never given out twice for overlapping times; a decision is taken once; what
  was accepted is what the session says;
- sessions: a session that is over stays over;
- crediting: each completed session is credited once, the count follows the ledger;
- payouts: nobody withdraws more than was earned;
- notification: the customer backend ends up showing the session's status;
- account: a closed account stays closed and its tokens die; a token is exchanged once; a code is guessed a few times at most;
- onboarding: nobody is stuck; what was filled in is not lost; a decision stands until the next submission;
- directory: whoever can be found or booked has an open account and was approved;
- payments: an amount that was captured is known, and the request and its orders say the same;
- standing, gallery, edits: what is shown is what the rows add up to, and no answered edit is lost, short of a race;
- chat and tickets: rooms are sent what is stored, all of it and nothing else; nothing is lost on the way without a failure.

## 2. Modules

| Module | Models | Role |
|---|---|---|
| `Calendar.tla` | what an acceptance promises: slots are reserved and released, never handed out twice; a companion who leaves takes them along | abstract specification |
| `Booking.tla` | requests, sessions, payments' effect on requests | core |
| `BookingProofs.tla` | theorems about `Booking` for every value of the constants | proofs |
| `MCBooking.tla` | constants of `Booking` for TLC | model checking |
| `Settlement.tla` | completing a session and crediting the companion | component |
| `SettlementProofs.tla` | theorems about `Settlement` | proofs |
| `Payout.tla`, `MCPayout.tla` | ledger, clearing, withdrawals | component |
| `PayoutProofs.tla` | theorems about `Payout` | proofs |
| `SumLemmas.tla` | what the sums over finite sets do, for the proofs about ledgers and scores | proofs |
| `StatusSync.tla` | notifications and reconciliation | component |
| `SafetyTimer.tla` | the companion's safety timer and its job | component |
| `SafetyTimerProofs.tla` | theorems about `SafetyTimer` | proofs |
| `ReviewSync.tla` | the companion's rating and its admin synchronisation | component |
| `ReviewSyncProofs.tla` | theorems about `ReviewSync` | proofs |
| `Onboarding.tla`, `MCOnboarding.tla` | saves, progress engine, drafts, submissions, decisions | component |
| `Access.tla` | codes, tokens, PIN, account status, bans | component |
| `AccountProofs.tla` | theorems about `Onboarding` and `Access` | proofs |
| `Payments.tla` | orders, confirmation, webhooks | component |
| `Standing.tla` | reviews, rating, trust score, badges | component |
| `Gallery.tla` | uploads and gallery | component |
| `Desk.tla` | preferences, privacy, appeals, schedule, presence | component |
| `Chat.tla` | the chat of a session | component |
| `Ticket.tla` | a support ticket and its copy at the admin backend | component |
| `Services.tla`, `MCServices.tla` | the eight modules above together, and the directory | composition |
| `ServicesProofs.tla` | the directory and the composition; theorems about `Ticket`, `Chat`, `Gallery`, `Payments`, `Desk`, `Standing` | proofs |

### Booking

`request[r]` is a row of `booking_requests` (status and the two ranges), `session[r]` the session created
for it, `overdue` the requests whose `expiresAt` has passed, `lock[p]` the advisory lock of companion `p`,
`call[c]` a handler invocation in progress. A call record keeps what the handler holds in local variables
between two statements: the request, the status it saw, the range it will write, the session status it will
write, the competing requests it listed. `freed` is a history variable: the bookings whose session has been
over at some time. `gone` are the companions whose account has been deleted. `none` is the status of a row that does not exist.

| Code | Actions |
|---|---|
| `createInternalRequest` | `CreateCheck` (existence and the two overlap checks, outside the transaction), `CreateInsert` |
| `modifyInternalRequest` | `Modify` (one guarded `updateMany`) |
| `respondToCustomerCounterOffer` | `AnswerCounter` (its own read), then the accept or decline handler |
| `acceptRequest` | `AcceptRead` (lock, read, agreed range), `AcceptCheck` (conflict), `AcceptClaim` (guarded claim, session insert, listing of competitors), `AcceptCommit` (auto-decline by id, commit, lock released) |
| `declineRequest`, `counterPropose` | `DeclineRead`/`DeclineWrite`, `CounterRead`/`CounterWrite` |
| expiry | `ExpireOldRequests` (cron), `GetRequests` (per companion) |
| `verifyPayment`, `payment.captured` | `PaymentConfirmed` |
| the nine session handlers | `MarkPreArrival` ... `CompleteSessionByBooking` (the read and its guard), `SessionWrite` (the update by id) |
| `deleteAccount` of the settings | `DeleteAccount` (the companion's row and, by cascade, its requests and sessions) |
| exceptions, crashes, transaction timeouts | `Fail` |

The writes of an acceptance become visible at `AcceptCommit`; from its claim on, the row is locked
(`RowLocked`) and other writers wait, as PostgreSQL makes them; a deletion of the account waits too. A handler whose row was
deleted between its read and its update by id finds nothing to update and throws (`Fail`), an insert without its companion is
refused by the foreign key. The claim compares the row's status with
the one read, and the expiry with the time of the read, as the code does. The transition table, the sets of
statuses in each query, and the difference between them (a `disputed` session blocks an acceptance and does
not block a new request) are the code's.

Left out: prices and venue (see hazards), companion eligibility (published profile and rate: it only refuses
creates), notification rows and socket events, the development-only request simulator's inserts.

`ImplementsCalendar` is the refinement: `Reservations == INSTANCE Calendar WITH slot <- [r |-> session[r].win]`.
A reservation is released once its session has been over; Booking can revive such a session (below), which
the calendar does not promise to prevent. `DeleteAccount` is the calendar's `Leave`: the rows, and what history knows of them,
are gone. Properties about what stays (`DecisionEdges`, `HandledTermsFrozen`, `ClosedStaysClosed`, `DecidedStays`) except exactly
the rows that go with their account in that step (`Leaves`).

### Settlement

`status[s]`, the number of earnings rows `earnings[s]`, the increments `counted[s]` of `totalSessions`, and
the calls in progress. `EndEarly`, `CompleteSession`, `CompleteSessionByBooking` read and check, then share
`CompletionWrite`, `LookupEarnings`, `CreateEarnings`, `CountSession`, which is the order of both copies of
the code. `StatusWrite` is the late update of another handler. `active` stands for checked_in and extending,
`cancelled` for no_show: the completions tell these apart only in their guards, and the merged guards are the
union; so a verification of a checked-in session is one that reads `active`. `Fail` ends a call between two statements.

### Payout

The ledger of one companion: earnings rows with a fixed worth and withdrawals with the amount asked for.
`ClearRead`/`ClearWrite` are the two statements of `autoClearEligibleEarnings` and `ClearFail` its swallowed
error; `CheckBalance` and `RecordPayout` are the two halves of `requestPayout`'s transaction. `autoComplete`
is the deployment's choice between payouts that are approved at once and payouts that start as
`pending_review`, due immediately, and count against the balance only when the next clearing has run.
`raced` is a history variable: some withdrawal was recorded while another request was in progress.

### StatusSync

Sessions with their status in order of `updatedAt`, the 24 hour window `recent`, an unordered bag of
one-shot notifications, and the cron job with its snapshot `batch`. A post arrives, or fails, or fails having
arrived. Session handlers are atomic here, since `Booking` shows what their interleavings do to the status.
Statuses that nobody writes (`extending`, `disputed`) are left out. The post
of `rateCustomer` goes through the same bridge with a status of its own, `customer_rated`, which is no status of the session: the
customer backend is taken to show it until the reconciliation, which the rating's update of `updatedAt` calls for, sends the
session's again (`RateCustomer`).

### SafetyTimer

`timer[p]` is the status of the one timer row of companion `p`, `due[p]` whether `expiresAt` has passed, `checkin[c]` the row a
check-in has read before its update by companion. A run `job[j]` of `expireSafetyTimers` finds (`FindExpired`), marks by
id (`MarkExpired`) and alerts one by one (`DispatchAlert`, or `SwallowAlert` when the insert fails and the error is
swallowed); runs overlap, since nothing keeps the scheduler or another server from starting the next one. `Abort` is a
statement that throws or a process that dies. `alerted[p]` and `lost` follow the alerts; `touched[j]` is a history
variable: the listed rows their companion changed before the run marked them.

### ReviewSync

`rating[s]`, the two timestamps as `synced[s]` and `retryable[s]` (no attempt within a minute), `admin[s]` what the admin
backend has stored, the posts of `rateCustomer` in progress (`call`) and the runs of `reconcilePendingAdminReviews` (`job`,
one per process) with the ratings they selected. A post is confirmed, or fails having arrived or not; an aborted request is
taken to arrive before its abort or never. `overtaken` is a history variable: sessions rated again after they were marked, or
while a post was under way.

### Onboarding

One companion (only the e-mail address relates two). `facts` is the set of columns and lists that hold a value the progress
engine counts; the rows' two statuses, `draft`, `submittedAt` and `rejection` are the code's. Each of the 27 saves is an action
named after its handler: the facts it overwrites, and those of them its input gives again. `ResumeScreen` and
`ProfileCompletion` translate `getOnboardingStatus`; a save can be made on the screens whose form calls it. Handlers that write in
several statements are calls: `SaveDraft`/`StoreDraft`; `SubmitRead`, `SubmitStamp`, then `SubmitClear`/`SubmitFill` for each
list of the draft, `SubmitFinish`; `ResubmitKyc`/`ResubmitFinish`; `SubmitForReview`, `ReviewStatus`, `ReviewDate`;
`UpdateVerificationDecision`/`DecisionReason`. `Unwritable` says which lists cannot be written again: languages never
(`kyc.service.ts:380` writes `isPrimary`, a column `CompanionLanguage` does not have, and the error is caught at 404),
categories if a label is no member of the enumeration. Comments at 390 and 400 say that such mismatches were fixed; this
one remains, and `LossNeedsUnwritable` says that nothing else loses a list without a failure. `decided` (what was decided while
nothing was being submitted), `filled` and `crashed` are history variables.

### Access

One companion and its phone. `code`, `attempts`, `token`, `pin` are rows; `req[r]` is a request in progress: the check at its
beginning (`Authenticate` for everything behind `jwt.strategy.ts`, `VerifyOtp`, `RefreshToken`) and the statements it still
has to execute. `account = "gone"` is the deletion by the settings, which cascades; the account service's deletion keeps the
row. `closed`, `cut`, `late` and `heirs` are history variables: the account was closed and nobody opened it, and its tokens
have been revoked since; tokens of sign-ins and of requests that were under way; successors of each token. The code looks at
the status at the beginning of a request only, and a sign-in with a code does not look at it at all; both are in the model.

### Payments

`orderRow`, `paymentStatus`, and the provider's side: what became of each order (`charge`) and the events not answered yet,
delivered in any order and again until answered. `VerifyPayment` writes order, then request; `HandleWebhook` request, then
order. No write looks at what the row says, so the event of an attempt that failed, handled after the capture, turns both rows from
"paid" to "failed" for good. `overwritten` and `crossed` are history variables: the orders whose row was written over like that;
two handlers with different outcomes at once. `CaptureNotForgotten` speaks of the row: it says "paid", or the event is still to come,
or the order is one of those.

### Standing, Gallery, Desk

`Standing`: a review is stored, the aggregate read (`AggregateReviews`), the rating written. `CompleteTrustTask`, `ReadScore` and
`CommitTask` are a READ COMMITTED transaction whose writes are seen at its commit; the points come from the app. `Average` rounds
as `toFixed(1)` does: a half goes up unless the binary fraction lies below it (`LowHalves`: 1.45 gives 1.4). A task's row that exists
and is not completed occurs in seed data only, and so does the branch of `completeTrustTask` that updates one; it is left out.
`Gallery`: upload, row of the file, count, insert; a replacement is not limited. `Desk`: edits that read a row, compute and write
back, and edits of one statement. `behind`, `uncounted`, `bulk`, `said` and `spoilt` are history variables that follow what a
race can spoil, and `EditsKept` compares the rows with what was answered. The account's privacy form shows a hidden profile
again when it is sent without a choice, and showing oneself available ends no vacation: both are the code's and excepted.

### Chat

`store` is the customer backend's copies of each message, `sessionRoom` the sockets in the room, `shown` what each was sent. A
companion's message is `SendChat` (REST or socket), `CheckSession`, `EstablishConversation`, `PersistMessage`,
`AnnounceMessage`: two posts, each of which may fail before or after it took effect, with the session's status checked
before both. The app passes no key of its own through either route, so a message sent again is a second one; and what a socket
sends is broadcast by the service and again by the gateway. The relay checks neither status nor account, and the history answers
a failure as a conversation without messages. `pending` is what the app still has to send, as far as it knows.
`MoveSession` lets the status move anywhere: a handler's update by id may bring back a session that is over, as
`Booking` and `Settlement` show, so what is sent after the end is counted since the session was last over. The room is one process's: `main.ts`
sets up no adapter that would join the rooms of several.

### Ticket

The ticket, its messages, the room, and what the admin backend has. `CreateTicket`, `DescribeTicket`, `FileTicket` are
`createTicket`, whose description may fail to be stored; `AddTicketMessage`, `StoreReply`, `TellReply` are a reply. Each post
(`outbox`) arrives, fails, or dies with the process, in any order, and is never made again. An agent's reply is stored
and not shown in the room. No code of this backend closes a ticket.

### Services

`EXTENDS` all eight and adds the directory: `Listed` (`getApprovedCompanions`), `Detailed` (`getPublicCompanionDetail`), `Offered`
(`getCompanions`), `OfferedById` (`getCompanionById`), `Bookable` (`createInternalRequest`), each with exactly the columns its
query names. They differ: the internal ones ignore `deletedAt`, so that a deleted account a ban was lifted from is offered
again; the detail ignores `profileStatus`, so that a companion who saved a draft stays public there; none asks for
`showInSearch`, `isAvailable` or vacation, nor for `blocked_customers` (which nothing reads, although `blockCustomer`
answers "They will not appear in your requests"). `ListedIsApproved` says what they have in common and where they differ.

Access and Onboarding run together in the part "directory". The other components share no variable and no property speaks of two of
them, so a behaviour of all is an interleaving of behaviours of each, and `part` lets one take steps per history: TLC adds their
state spaces up instead of multiplying them. `ComponentsRun` is the theorem that a behaviour of `Services` is one of each component.

## 3. Runs

Runs that must pass:

| Run | Instance | Shows |
|---|---|---|
| `booking` | 2 bookings of one companion, 2 touching ranges, 2 handlers at once, 2 session handlers, deletion of the account | `TypeOK`, `AcceptedHasSession`, `ImplementsCalendar`, `DecisionEdges`, `HandledTermsFrozen` |
| `booking_serial` | 2 bookings, 3 ranges (one inside another, one inverted), all 9 session handlers, payment events on one booking, one handler at a time | `NoDoubleBooking`, `ClosedStaysClosed`, `DecidedStays`: what races break holds without them |
| `settlement` | 2 sessions, 2 handlers, 2 failures | `CountFollowsLedger`, `OneLossPerFailure`, `CreditedUnlessFailure` |
| `payout` | earnings worth 1 and 2, 4 withdrawals of 1 or 3, 2 requests, 1 failed clearing | `OverdraftNeedsRace`, `EachPayoutCovered`, `ExposureBounded` |
| `sync` | 2 sessions, 1 notification in flight, 1 rating, 1 crash | `Converges` |
| `safety_timer` | 2 companions, 2 overlapping runs, 1 check-in, 1 failure | `FalseAlarmNeedsRace`, `NoAlertForgotten`, `AlarmRaised` |
| `review_sync` | 2 sessions, 2 ratings each, 1 post, 1 run, 1 failure | `MarkedIsStored`, `RatingArrives` |
| `onboarding` | one companion from nothing, near the end and complete; 2 status handlers; 3 drafts; 1 failure | `FinishesOnboarding`, `DecisionStands`, `LossNeedsUnwritable` |
| `services` | 2 calls of each component at once; 5 allowances of `Access`, one of them with `Onboarding` | directory: `ListedIsApproved`; access: `ClosedHolds`, `TokensOfClosedAccount`, `TokenExchangedOnce`, `GuessesBounded`; payments: `CaptureNotForgotten`, `RequestAgreesWithOrder`; standing: `RatingIsAverage`, `TrustFollowsTasks`; `GalleryBounded`; `EditsKept`; `ChatFollowsStore`; `TicketReachesAdmin`; `ServicesTypeOK` |

Runs that refute what the repository says of itself (each is a finding in `PROJECT.json`, with the quoted line):

| Run | Refuted | How |
|---|---|---|
| `booking_revived` | `NoDoubleBooking` | a verification reads an upcoming session; it is cancelled and its slot accepted for another booking; the verification's update by id makes it active |
| `settlement_duplicate` | `CreditedOnce` | two completions look for the earnings row before either creates it |
| `payout_overdraft` | `NoOverdraft` | two requests sum the same rows under READ COMMITTED |

Each pair brackets a behaviour. `NoDoubleBooking` fails with two concurrent handlers and holds with one, so the
overlap test, the transition table and the counter-offer logic are right and the unguarded update is what is
wrong; `DoubleBookingNeedsRevival` (section 4) proves that nothing else is. `NoOverdraft` fails, `OverdraftNeedsRace` says that only a race or a swallowed clearing error gets there, and
`ExposureBounded` says how far it goes. Two more disagreements have no run of their own. `DecidedStays`
fails with two handlers for the same reason as `NoDoubleBooking` (`requests.service.ts:593`, 637): a decline or counter-offer that read a
request before it was decided overwrites the decision by id, an acceptance as well, whose session stays; README 3.1 ends in DECLINED and lets ACCEPTED
lead to the session only. One handler at a time keeps it, and `DecisionEdges` is what any number keeps. And
a completion that dies before the earnings row exists is never made good, since every later one returns early, where README
3.1 draws COMPLETED to EARNINGS_CREDITED. `OneLossPerFailure` says what one crash can cost, and `CreditedUnlessFailure` that nothing else does.

Bounds, and why they suffice. Two bookings and two calls are what an overlap or a lost update takes; the
proofs below cover any number of both. Two ranges suffice for the concurrent run: every pair of ranges is
either equal or disjoint (they touch), and the serial run has a range inside another and an inverted one.
Companions do not interact (every query names one), so one is enough. `MaxFail`, `MaxClearFail`, `MaxCrash`, `MaxRating` and
`MaxOut` bound the failures, the ratings and the notifications in flight; the properties count failures and so remain
meaningful at the bound. `ExposureBounded` has also been checked with three calls and `Converges` with two
notifications in flight; both take too long for the regular runs. `ReviewSync` has also been checked with one session, two
posts and two runs. In `sync`, `Take` equals the number of sessions; see section 5.
Symmetry is used in `MCBooking` (bookings and calls, in the instances where no booking is special) and in
`MCPayout` (withdrawals and calls), never with a liveness property.

`onboarding`: the three beginnings let the whole path, its end with a submission, and races around a complete profile be explored
without their product; the drafts have each kind of list and both kinds of label. `services`: two calls are what a lost update,
a doubled token or a crossed pair of writes takes; `MaxAttempts` 2 with 4 guesses passes the maximum by one, four tokens are
two generations; a gallery of one photo and replacements of three reach both limits; three sends of two messages
by two calls repeat a message; one failure lets each property's exception occur (two for `Ticket`, whose ticket and reply
may both be lost). The activities of `Access` that matter to each other share an allowance; all together are out of reach. What
the proofs cover (section 4) holds for any of these numbers. `Payout` and `StatusSync` state their types as
`TypeOK`, which TLC has checked on these instances; it is not among the properties of their regular runs
(for `Payout` it is proved).

Deadlock is not checked: these systems may rest (all requests handled, all sessions over, all withdrawals
used up in the bounded instance).

Fairness. `Settlement`: an awaited statement returns or throws, so a call that has begun goes on
(`WF_vars(Continue(c))`); nothing forces anybody to call a handler, and `Fail` is never forced. `StatusSync`: the
cron fires and its loop goes on (weak fairness of `Reconcile`, `Send`, `Finish`; a reconciliation's post ends within its
5 second timeout), and a session that is posted again and again gets through again and
again (strong fairness of `SendSynced(s)`): the customer backend is not down for ever. Nothing
is assumed of the one-shot notifications (`Deliver`): they may be lost or stay on their way. `SafetyTimer`: the scheduler starts the job
and its statements return; no companion has to act, and failures are never forced. `ReviewSync`: likewise, with strong
fairness of `PostConfirmed` for each session. `Onboarding` assumes
no fairness in its specification: `FinishesOnboarding` is an implication, from a companion who keeps answering the screen it is
shown (`WF(Answer)`) to one who arrives, since nobody has to. The other modules state safety only: a message or a ticket
that is lost stays lost, and no job repairs it.

Every property of a passing run has a mutant, defined beside the definition it replaces and marked *Faulty*: a
plausible slip in that handler (an unserialised acceptance, a claim that ignores the status, a create that
upserts, a clearing that looks at session earnings only, a snapshot without closed sessions, ...), under which
TLC finds the property violated.

## 4. Proofs

`BookingProofs.tla`, checked by TLAPS for any sets of companions, bookings, ranges and calls. Assumption:
`BookingAssumption` (ranges are records of naturals, not necessarily ordered; `companionOf` is a function; `Null` is
none of the values).

| Theorem | States |
|---|---|
| `Invariance` | `Spec => []IInv` |
| `TypeCorrect` | `Spec => []TypeOK` |
| `AcceptanceAgrees` | `Spec => []AcceptedHasSession` |
| `Refinement` | `Spec => ImplementsCalendar` |
| `ReservedOnce` | `Spec => []Reservations!NoDoubleReservation` |
| `Edges` | `Spec => DecisionEdges` |
| `TermsFrozen` | `Spec => HandledTermsFrozen` |
| `DoubleBookingNeedsRevival` | `Spec /\ ClosedStaysClosed => []NoDoubleBooking` |
| `SerialClosedStays`, `SerialNoDoubleBooking`, `SerialDecidedStays` | `Spec => ClosedStaysClosed`, `Spec => []NoDoubleBooking`, `Spec => DecidedStays`, assuming that there is one call at a time |

The argument. The calendar property is not inductive: that an acceptance may commit depends on a check made
two statements earlier. `IInv` carries it across: an acceptance in progress holds its companion's lock (`LockHeld`), so
at most one per companion is past its check; what it has checked stays free (`CheckedFree`), because only
another acceptance reserves, session handlers only add to `freed` and a deletion takes whole rows away (`FreedIsPast`); what it has claimed stays
as it was read (`ClaimHolds`), because a claimed row is locked. `RowsComplete` and `CallsComplete` say that rows and calls
have the data their step uses. `StepIInv` has one case per action; the handlers that write nothing but `call` are
treated together (`QuietIInv`), and all session handlers through what they have in common (`HandlerAims`).
`StepRefines` maps `AcceptCommit` to `Reserve`, a closing `SessionWrite` to `Release`, `DeleteAccount` to `Leave`, everything else to a
stutter. The deletion keeps `IInv` because it finds no claimed row (`DeleteAccountIInv`, `RowsDeleted`): an acceptance that is not past its claim finds
its row gone, `ClaimHolds` speaks of claimed rows only, and a row of another companion stays as it is.
`ReservedOnce` is an invariant of the calendar, transported along the refinement. `EveryRowStep` gives both action
properties: what one step may do to one row, unless the row goes with its account.

`NoDoubleBooking` is false with concurrent handlers, so it is proved under what makes it true. `DoubleBookingNeedsRevival`
assumes of the history that no session that is over is written back, and nothing about how many handlers run: then the bookings
in `freed` are the ones whose session is over (`FreedClosed`), and `ReservedOnce` leaves no overlap between two others. The run
`booking_revived` shows the history the hypothesis excludes, and `booking_serial` that it can be met. For one call at a time (`Serial`)
the hypothesis is proved: `ReadsHold` says that what a handler read before its update by id is still so (a session that
is over is about to be given the status of one that is over, an accepted or declined request is not about to be declined or countered), which a second
handler breaks and the clock, payments, modifications and crashes do not.

`SettlementProofs.tla`, for any finite sets of sessions and calls and any number of failures. Assumption:
`SettlementAssumption` (finiteness, because the properties count).

| Theorem | States |
|---|---|
| `TypeCorrect` | `Spec => []TypeOK` |
| `CountMatchesLedger` | `Spec => []CountFollowsLedger` |
| `OneLoss` | `Spec => []OneLossPerFailure` |
| `CreditedOnceSerially` | `Spec => []CreditedOnce`, assuming that there is one call at a time |

`CountFollowsLedger` is inductive with the types: the calls at "count" make up the difference between the two
counters, and `Joining` and `Leaving` say how their number changes. `OneLoss` needs `MovesElsewhere` (a status
handler never writes "completed"): then `StepLosses` shows that a step adds no session to those lost unless a call dies,
which adds one at most. `CreditedOnceSerially` needs `FoundNone` (a call about to create the row found none),
which one call at a time keeps true and which `settlement_duplicate` shows two calls break.

`SafetyTimerProofs.tla` (`SafetyTimerAssumption`: `Null` is no companion) and `ReviewSyncProofs.tla` (`ReviewSyncAssumption`:
likewise, and the bounds are naturals), for any sets of companions, sessions, calls and runs:

| Theorem | States |
|---|---|
| `SafetyTimerProofs!TypeCorrect` | `Spec => []TypeOK` |
| `SafetyTimerProofs!AlertsKept` | `Spec => []NoAlertForgotten` |
| `SafetyTimerProofs!AlarmsJustified` | `Spec => FalseAlarmNeedsRace` |
| `ReviewSyncProofs!TypeCorrect` | `Spec => []TypeOK` |
| `ReviewSyncProofs!MarksAreTrue` | `Spec => []MarkedIsStored` |

`AlarmsJustified` needs `ListedFresh`: what a run has listed and not marked has run out still, was changed by its
companion (and is in `touched`), or was marked by another run; a marked timer leaves that state only by a restart, which
is a change by its companion. `MarksAreTrue` needs `CallsCurrent` and `JobsCurrent`: a post under way carries the present
rating of every session that is not overtaken, and once confirmed the admin backend keeps it, because every other
post of that session carries the same.

`PayoutProofs.tla`, for any finite sets of earnings, withdrawals and calls, any worth and amounts and any number of failed
clearings (`PayoutAssumption`):

| Theorem | States |
|---|---|
| `PayoutTyped`, `LedgerInvariant` | types and the inductive invariant of the ledger |
| `PayoutsCovered` | `Spec => []EachPayoutCovered` |
| `SerialRequestsCovered` | `Spec => []OverdraftNeedsRace` |
| `ExposureStaysBounded` | `Spec => []ExposureBounded` |

The balance a request checks is the payable earnings less the payable withdrawals (`BalanceIs`), so what it can miss are withdrawals
that are recorded and not payable yet. `Knows` says what a call knows of a set of withdrawals: at its clearing they are payable or
among the rows it is about to clear, at its check they are payable, and from the check on their sum and its own amount stay
within what was released. `KnowledgeKept` is that a step keeps this, unless the call records or its clearing fails. While no two requests
met and no clearing failed, every request knows all withdrawals (`SerialKnown`), which is `OverdraftNeedsRace`. In general the withdrawals
can be split into chains, at most one for each call and one for each failed clearing, such that a call knows the withdrawals of its own
chain (`ChainsKnown`): a withdrawal joins the chain of the call that recorded it, and a failed clearing closes the chain of its call. Each
chain stays within the released earnings, so all of them stay within their number times that (`SumOfParts`): `ExposureBounded`.
The chains are quantified in the invariant; no history variable carries them.

`SumLemmas.tla` is what these proofs need of sums: that a term can be taken out of a sum or changed in it, sums of unions, of parts, of
bounded terms. The sums are folds, recursive functions on the subsets of a set; that they meet their equation on every finite set, and
do not depend on the order of the terms, is proved by smallest counterexample (`MinimalSubset`), since the provers cannot instantiate
the library's induction theorems.

The modules of the services, for any constants that meet the named assumption of each (`OnboardingAssumption`,
`AccessAssumption`, `PaymentsAssumption`, `StandingAssumption`, `DeskAssumption`, `GalleryAssumption`, `ChatAssumption`, `TicketAssumption`: bounds are naturals,
the sets counted are finite, and the names used for "nothing" are nobody's):

| Theorem | States |
|---|---|
| `AccountProofs!AccessTyped`, `AccessInvariant` | types and the inductive invariant of `Access` |
| `AccountProofs!ClosedStays` | `AccessSpec => []ClosedHolds` |
| `AccountProofs!ClosedAccountCut` | `AccessSpec => []TokensOfClosedAccount` |
| `AccountProofs!ExchangedOnce` | `AccessSpec => []TokenExchangedOnce` |
| `AccountProofs!GuessesStayBounded` | `AccessSpec => []GuessesBounded` |
| `AccountProofs!OnboardingTyped`, `DecisionInvariant` | types and the inductive invariant of the decisions |
| `AccountProofs!DecisionsStand` | `OnboardingSpec => []DecisionStands` |
| `AccountProofs!ListsAreKept` | `OnboardingSpec => []LossNeedsUnwritable` |
| `ServicesProofs!PaymentTyped`, `CaptureIsKnown` | types; `PaymentSpec => []CaptureNotForgotten` |
| `ServicesProofs!RequestAgrees` | `PaymentSpec => []RequestAgreesWithOrder` |
| `ServicesProofs!StandingIsEarned` | `StandingSpec => [](StandingTypeOK /\ RatingIsAverage /\ TrustFollowsTasks)` |
| `ServicesProofs!EditsAreKept` | `DeskSpec => [](DeskTypeOK /\ EditsKept)` |
| `ServicesProofs!ComponentsRun` | `ServicesSpec` implies the specification of each of its eight components |
| `ServicesProofs!DirectoryIsApproved` | `ServicesSpec => []ListedIsApproved` |
| `ServicesProofs!TicketsReachAdmin` | `TicketSpec => [](TicketTypeOK /\ TicketReachesAdmin)` |
| `ServicesProofs!RoomsFollowStore` | `ChatSpec => [](ChatTypeOK /\ ChatFollowsStore)` |
| `ServicesProofs!GalleryStaysBounded` | `GallerySpec => [](GalleryTypeOK /\ GalleryBounded)` |
| `ServicesProofs!ServicesTyped`, `ServicesCorrect` | `ServicesSpec => []ServicesTypeOK`, and every other property of the run `services`, of the composition |

`Access`: that the tokens of a closed account are dead is not inductive, because a request let in before the closing may still
issue one. The invariant says who those are: a request past its check is early or the account was open when it
began, and a request that began after the revocation cannot hold a live token. `GuessesBounded` counts: the guesses made and
those about to be, of requests that read the count below the maximum (`GuessesKnown`), bounded by the cardinality of the requests.
`Onboarding`: `DecisionKnown` ties the rows to the last decision while nothing is being submitted, `ApprovalKnown` and
`ApprovalShown` say how an approved profile can look, which is also what the directory needs; `LossInv` follows a list from its
deletion to its refill. `Payments`: `CaptureStored`, an amount is captured only of an order whose row is stored, so that the
webhook that reports it finds one, and `OrderWritten`: a row that tells of a capture goes on telling of it, as "paid" or in
`overwritten`, whatever is written to it; an event leaves only with the write that makes its row do so. `DirectoryIsApproved` joins the invariants of `Access` and `Onboarding`, transported by
`ComponentsRun`. `Ticket`: a ticket that is filed and unknown to the admin backend is being filed, posted or dropped
(`FilingKnown`), likewise every reply (`RepliesKnown`), and a room's due is sent or about to be (`RoomKnown`). `Chat`: a message is
in the hands of one call at most, what no call holds was answered for every copy (`CallsKnown`), a socket's copies are
bounded by the stored ones, with room for the two that a call is about to send (`ShownKnown`), and the messages stored after
the end are counted against the calls that had passed the check (`OvertimeKnown`): while the session is over, stored messages and
calls past the check together are as many as the senders at most, and a session that comes back starts a new count at its next end. `Gallery`: the photos and the inserts about
to be made are counted together. `Payments`: an order is stored before anybody can pay it and by one handler (`OrdersStored`); while
nobody died or crossed, handlers at work carry one outcome, and what the first of a handler's two writes said is still there at the
second (`OutcomesAgree`), so when the last of them rests some order says what the request says (`RequestTold`). `Standing` and
`Desk`: what a call has read is what is stored, unless the call is marked (`ReadingKnown`, `EditsKnown`); a score is also the bounded sum
before and after its task is added, which takes the lemmas on sums, and that the average fits its column those on bounded terms.

Only model-checked: the liveness properties `CreditedUnlessFailure`, `Converges`, `AlarmRaised`, `RatingArrives` and
`FinishesOnboarding` (TLAPS has no support for fairness here), and with `Converges` all of `StatusSync`, whose types are not
proved either. Every invariant and action property of a passing run is proved; `NoDoubleBooking`, `ClosedStaysClosed` and `DecidedStays`
under the same hypothesis as their run, one handler at a time.

## 5. Not modelled, and limits

- `Converges` needs each session to fit in one reconciliation and its posts to get through sometimes. The code
  guarantees neither: with more than 200 recent sessions the newest may be starved (`take: 200`, oldest first), and a
  booking the customer backend keeps refusing breaks the loop before everything behind it (`if (!synced) break`).
- Declined and counter-proposed requests are notified once, without any repair: there is nothing to check.
- `initiateCompanionPayout` has no caller, although `payments.service.ts` says "Called by
  EarningsService.requestPayout()"; the payout webhooks therefore match no record.
- A session rated again after its first rating was marked is not retried when its post fails
  (`rateCustomer` leaves `adminReviewSyncedAt` as it is): `RatingArrives` excepts it. A companion who checks in or cancels
  between the job's query and its update is reported as not checked in: `FalseAlarmNeedsRace` says this is the only way.
- A price modified between an acceptance's read and its claim is lost in the session (`requests.service.ts:452`); prices
  are not in the model yet.
- A code is sent to test phones only: for any other phone `sendOtp` refuses, for want of an SMS sender. `Access` models what follows a
  code that was sent. The settings store a new PIN as it is, the authentication hashes it: each refuses the other's.
- Chat: sockets stay in the room when the account is closed or the session over; the gateway checks again before it sends, the relay
  does not. Tickets: whether a post that failed had arrived is not known here, nor what the admin backend makes of a reply
  to a ticket it has not heard of; both outcomes are in the model.
- Payments: refunds throw; the payout of the provider has no caller. A failed payment sets `paymentStatus` only, which nothing reads,
  where `payments.module.ts:9` says that the request's status becomes failed and the companion never sees it.
- The deletion of an account takes its rows away in `Booking` and in `Access`. The other components follow one
  account that stays: what a handler finds there after the deletion is an error, and nothing of theirs is left to be wrong.
- Several properties except the one race that spoils them (`RatingIsAverage`, `TrustFollowsTasks`, `EditsKept`, `MarkedIsStored`,
  `TokensOfClosedAccount`, `ClosedHolds`, `RequestAgreesWithOrder`): the code has that race, nothing repairs it, and the property says
  that there is no other way. History variables (section 2) mark what was spoilt, as narrowly as the cause allows.
- Left out: notes, location, typing and call tokens of a session; SOS, contacts, reports and blocks; filing a dispute and its
  evidence; slots and overrides of the schedule; reordering of photos; replies to and reports of reviews; biometric enrolment;
  notifications, sockets and push; dashboard (a 30 s cache) and training. These are single inserts, updates and reads, and nothing
  modelled decides on them.
- The components of `Services` are composed pairwise only where they share rows (`Access` and `Onboarding`); a chat's session and a
  booking's payment are abstracted to the moves `Settlement` and `Booking` allow.

## 6. Plan

What is left, in this order:

1. Proofs: the types of `StatusSync`, and that what the customer backend is shown was the session's status at some time (its
   batch is a filtered sequence); a second abstract specification, of what crediting promises, for `Settlement`.
2. `Booking`: the agreed price, once something in the code compares it.
3. Composition of `Settlement` and `Payout`: a duplicate credit that is paid out.
4. Notifications: the inbox and the unread count, if anything comes to depend on them.
