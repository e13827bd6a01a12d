# Event registration: specification and proofs

TLA+ modules for the event registration service (Go, AWS Lambda, DynamoDB, Stripe):
models of the code that changes an event's sign-ups, of the listings read from it, of
the mailing list beside it and of the process that serves it, TLC configurations that
check them on small instances, and TLAPS proofs that hold for every number of emails,
sessions, handlers, listed items and requests. Paths below are relative to `src/`.

- [1. Inventory](#1-inventory)
- [2. The modules and the code](#2-the-modules-and-the-code)
- [3. The runs](#3-the-runs)
- [4. Where code and documents disagree](#4-where-code-and-documents-disagree)
- [5. The proofs](#5-the-proofs)
- [6. What is not modelled](#6-what-is-not-modelled)
- [7. Plan](#7-plan)

## 1. Inventory

The service is stateless: any number of processes (Lambda instances, or one local
server whose requests are goroutines) answer HTTP requests. All lasting state is in one
DynamoDB table, at Stripe, and at the email and mailing list providers.

| Component | Code | State it keeps | Operations |
| --- | --- | --- | --- |
| Event items | `dynamo/events.go`, `events/events.go`, `api/events.go` | one item per event: settings, close time, team size, counters `NumTeams`, `NumRosteredPlayers`, `NumTotalPlayers`, `Version` | create, patch, get, list by page |
| Registration items | `dynamo/registration.go`, `registration/registration.go` | one item per event and **email** (sort key `REGISTRATION#<email>`): individual or team, `Paid`, `Version` | create, create with intent, mark paid, delete expired, list by page |
| Registration intents | `dynamo/registrationintent.go`, `registration/registrationintent.go` | one item per event and email while a checkout is pending: session id, `Version` | created and deleted with the registration |
| Registration flows | `registration/registration.go`, `api/registration.go` | none; copies of items between calls | `AttemptRegistration`, `RegisterWithPayment`, `ConfirmRegistrationPayment` |
| Stripe webhook | `api/registrationpayment.go` | none | completed and expired notifications, answered 200 or 500 |
| Stripe checkout (external) | `payments` module, via `registration/registration.go` | a session: open, paid or expired; whether its notification was acknowledged | create, pay, expire, deliver again |
| Confirmation email, mailing list | `registration/registrationemail.go`, `registration/registrationmailinglist.go`, `api/events.go`, `api/testmailerlite.go` | at the providers: a group per event and its members; the group's id in the event item | send, create group, subscribe, test |
| Listings and cursors | `dynamo/cursor.go`, `dynamo/events.go`, `dynamo/registration.go` | the page cursor, in the client's hands | `GetEvents`, `GetAllRegistrationsForEvent` |
| Request gate | `api/api.go`, `api/openapivalidate.go` | the accepted token, in the request's context | webhook, authentication by cookie or bearer token, validation; CORS, logging |
| Start-up | `cmd/` | configuration, clients, telemetry | fetch secrets concurrently, serve, return on a signal |

**How they interact.** A flow reads the event with `GetItem`, changes a copy, calls
Stripe or not, and writes the copy back with `TransactWriteItems` together with the
registration (and the intent). Nothing is locked between the calls. What keeps two
flows apart is a condition on each item written: a new item must not exist, a rewritten
or deleted item must have the version the copy was read at (`dynamo/db.go:24-37`). The
webhook learns only the event id and the email from Stripe's metadata and looks the
registration and the intent up under that email.

**What is hard about it.**

- *Interleaving*: registrations, expiries and patches of one event all rewrite the same
  event item from copies; reads may be stale (`GetItem` without `ConsistentRead`).
- *Two items that must agree*: the registration and its intent are written by the hold,
  the payment and the expiry, which arrive in any order and more than once.
- *Partial failure*: a call can fail, time out after it was applied, or never be made
  because the process is stopped. The session exists before the hold does.
- *Reuse of keys*: an email's items can be deleted and created again at version 1, so a
  version condition may be met by a successor of the item that was read.
- *Delivery*: the notification of a session is delivered until it is answered with 200,
  possibly twice at a time.
- *Moving items*: an event's sort key contains its start time as Go prints it, so a
  rewrite moves it in the index while a client follows its cursors.
- *Start-up*: two goroutines write variables of their parent while calls to AWS may fail
  or hang, and a signal may come at any moment.

**What makes each part correct.**

- Event items: no lost update; counters equal to what the registrations give; nobody is
  admitted against the settings in force.
- Registrations and intents: a hold and its registration agree; only what was paid for
  is marked paid; a paid or confirmed registration is never taken away; whoever is shown
  a payment form has the hold it pays for, and is not shown a second one.
- Webhook: an acknowledged session leaves nothing behind; every expired hold is released
  and every payment recorded, as long as Stripe retries.
- Listings: following the cursors comes to an end and shows every item that stayed in
  its place exactly once; no page goes back; events come newest first (they do not).
- Mailing list: an event keeps its group; only people whose registration stands are on
  its list.
- Start-up: nothing is served half configured, start-up and shutdown end, telemetry is
  flushed on every return.
- Gate: an administrator's handler runs only for an administrator; a request is refused
  only for what is wrong with it.

The hazards behind these properties are listed, with their lines, in `PROJECT.json`.

## 2. The modules and the code

| Module | What it is |
| --- | --- |
| `EventTable` | package `dynamo`, for one event: the three kinds of item, the version conditions, each keyed read and each conditional write |
| `Checkout` | Stripe's sessions, external, as the code uses them |
| `RegistrationFlow` | the handlers: extends `EventTable`, instantiates `Checkout`, adds the workers' copies |
| `RegistrationProperties` | what the handlers must get right: invariants, action and liveness properties |
| `SignUpSheet` | the abstract specification: a sheet with one entry per email, and totals that are those of the sheet |
| `RegistrationInvariant` | the inductive invariant of the proofs, in named parts |
| `MCRegistrationFlow` | constants and symmetry for TLC |
| `MailingList` | extends the handlers with what their steps do to groups and lists; `POST /events/v1` in two steps |
| `MCMailingList` | its constants and symmetry |
| `Listings` | both listings, the keys and writes that move items in their indexes, and a client that follows the cursors |
| `Sweep` | the abstract specification of a listing: a line that sweeps over the index once |
| `ListingProperties`, `MCListings` | what a client may rely on; constants |
| `Server`, `ServerProperties` | one process from `main` to its exit and a request's way to a handler; what they promise |
| `RegistrationTypeProofs`, `RegistrationFlowProofs`, `RegistrationEventProofs`, `RegistrationCountProofs`, `SheetProofs` | the handlers' proofs, each extending the one before |
| `MailingListProofs` | the mailing list's, on top of `RegistrationEventProofs` |
| `ListingProofs`, `ServerProofs` | those of the listings and of the process |

**State.** `event`, `regs`, `intents` are the items of one event (all items of an event
share a partition key and no operation touches two events, so one is enough).
`sessions` is what Stripe knows. `call[w]` is handler `w` between two calls: `pc` names
the call to the table or to Stripe it makes next, the other fields are its local
copies. `confirmed` are the emails a confirmation went to, `reply` the response sent by
the last step. `replica` is an earlier state of the table: with `StaleReads` a `GetItem`
answers from either (`Written`, `Replicate`), without it `replica` is always the table.
The replica is one earlier snapshot of the whole table; several reads of one handler may
hit it or not, independently, and it may move between them.

**Steps.** A handler is cut where it calls the table or Stripe, since between two calls
it touches only its own copies. The first read is one step with the handler's start;
each later call is a step, together with the computation that follows it up to the next
call. A conditional write is one step and atomic, as a `Put` or a transaction is.

| Request | Steps | Code |
| --- | --- | --- |
| `POST /events/v1` | `PostEventsV1` | `api/events.go:74`, `dynamo/events.go:188` |
| `PATCH /events/v1/{id}` | `PatchEventsV1Id`, `CommitPatch` | `api/events.go:174`, `events/events.go:58`, `dynamo/events.go:291` |
| `POST .../register` | `PostEventsV1EventIdRegister`, `CommitRegistration`, `SendConfirmation` | `api/registration.go:114`, `registration/registration.go:120` |
| `POST .../registrations` | `PostEventsV1EventIdRegistrations`, `CreateCheckout`, `CommitHold` | `api/registration.go:20`, `registration/registration.go:170` |
| webhook, completed | `WebhookCompleted`, `CommitPaid`, `SendConfirmation` | `api/registrationpayment.go:16`, `registration/registration.go:264`, `:315` |
| webhook, expired | `WebhookExpired`, `ReadIntent`, `ReadEvent`, `CommitRelease` | `registration/registration.go:303`, `:327`, `dynamo/registration.go:348` |
| anything | `HandlerFails` | a call fails or times out without effect, or the process stops |
| Stripe, registrant | `PaySession`, `ExpireSession` | external |
| DynamoDB | `ReplicaCatchesUp` | external |

A call that is applied and whose answer is lost (the one-second limit of each call to
the table, a process stopped after it) is the `Fault` branch of the step that applies
it. A notification that is delivered again after it was acknowledged is a fault too
(`Delivered`).

**Mailing list** (`MailingList`). Its steps are those of `RegistrationFlow`, each with
what it does to `groupOf` (the group named in the event item), `replicaGroup` (in the
replica's), `copy` (the group of the event a handler holds) and `list` (who is in which
group). The group is an attribute of the item, so a handler takes the group of the very
item it read: `ReadGroup` tells the table's from the replica's by the copy's version.

| Code | Steps |
| --- | --- |
| `POST /events/v1`: create the group, then the event (`api/events.go:103`) | `StartPost`, `CommitPost`, `PostFails` |
| every handler that reads or rewrites the event (`events/events.go:87`, `dynamo/events.go:66`) | `HandlerMoves`: `Carried`, `WithGroup` |
| after the confirmation (`registration/registrationmailinglist.go:12`) | `Confirm`: `AddToMailingList` |
| `POST /events/v1/admin/test-mailerlite` (`api/testmailerlite.go:16`) | `PostEventsV1AdminTestMailerlite` |

MailerLite gives every new group an id of its own. Its calls may fail; the handlers log
that and go on. One person of a registration stands for all of them, and with
`LOCAL` the fixed id `local-group-id` is not modelled. `POST register` holds the event
it registered with until it has sent the confirmation; the webhook reads the event
again, in the same step.

**Listings** (`Listings`). A client reads one of the two listings (`kind`), page after
page; `walk` is where it is, `shown` how often it was shown each item, `steady` the
items that have kept their place since it began.

| Code | Steps |
| --- | --- |
| `POST`, `PATCH` of an event | `PostEventsV1`, `PatchEventsV1Id`: times printed with the offset the request had |
| a sign-up, an expiry | `CreateRegistration`, `DeleteExpiredRegistration`: the event is rewritten from a copy whose times are in its own zone |
| the index lags behind | `Replicate`: a page may be read from `replica` |
| first request | `BeginListing` |
| `GetEvents`, `GetAllRegistrationsForEvent` | `GetPage`: `cursorToLastEval`, `Query`, `hasNextPage`, then `PageWithNext` or `LastPage` |

The sort key (`newEventDynamo`) is a tuple that compares like the text
`EVENT#<date and time> <offset> <name>#<id>`, printed in the location the `time.Time`
carries: the offset of the request's timestamp, whatever the event's `TimeZone` says,
until a sign-up or an expiry rewrites the item, and the event's own zone after that
(`loadLocation`). `+` sorts before `-`; within one sign a longer offset has the later
text. A time read back is printed with the zone's name, one from a request with the
offset repeated in its place, and one in UTC (a timestamp that ends in `Z`, and the
API's default zone) as `+0000 UTC` either way.
`PagesFit` assumes that a page and one more item are below the 1 MB at which a Query
stops: at most 51 items of a few KB. An answer the client never gets, or an error
(`INVALID_CURSOR`, a timeout), leaves it where it was.

**The process** (`Server`).

| Code | Steps |
| --- | --- |
| `setupApi`, phase 1 (`cmd/main.go:69-101`) | `getNewRelicLicenseKey`, `LicenseKeyFails`, `TelemetryInit`; `DeadlinePasses` ends the 10 seconds |
| phase 2, the errgroup (`cmd/main.go:109-143`) | `Goroutine`: `fetchAppConfig`, `makeDB`, `GoroutineFails`; `Wait` |
| phase 3 and `run` (`cmd/main.go:145-175`, `:33-67`) | `Wire`, `ListenAndServe`, `ServerFails`, `Signal`, `Select` |
| the deferred shutdown, the return of `main` | `TraceShutdown`, `Exit` |
| a request (`api/api.go:100`, `api/openapivalidate.go:53`) | `Arrive`, `Gate`, `Handle` |

The three slots of a request that matter are its operation's security, the tokens in
its cookie and its header, and whether parameters and body fit the document. Cookie and
bearer token are alternatives: the second is tried when the first is refused. The
webhook's middleware lies outside the validator, so it never sees one. A signal before
signals are caught, or after `run` has stopped catching them, kills the process; one
that is caught makes `run` return without shutting the server down, so requests go on
arriving until the exit and those in flight are dropped. A handler that panics (an item
that cannot be unmarshalled does it, `dynamo/events.go:184`) answers nothing either: no
middleware recovers, `net/http` drops the connection and the process lives on. So no
property says that a request is answered.

**Details that matter and are easy to miss.**

- The sort key of a registration is its email (`dynamo/registration.go:55`), not the
  registration id that `dynamo/README.md` names; hence one registration per email.
- The intent's `Delete` in `UpdateRegistrationToPaid` has no condition, so a second
  completed notification succeeds again and only bumps the version.
- A cancelled transaction has a reason for each item, and the reason of an item whose
  condition *held* is the string `"None"`. `CreateRegistration...` compares the first
  reason with a nil pointer (`ReasonCode`, `ReportsAlreadyExists`).
- The expiry is looked up by email. The session that expired is not compared with the
  session the intent names.
- `CommitPatch` answers 404 for any failed condition, also for a retried `PutItem` that
  had been applied.
- The webhook reads the event after the payment is recorded; if that read fails or finds
  nothing it still answers 200, and nobody sends the confirmation later.
- A page asks for one item too many. The cursor is the key of the last item *shown*, not
  DynamoDB's `LastEvaluatedKey`; that an item still stands at that key is not required.
- The AWS configuration is loaded once and its error would be remembered
  (`cmd/config.go:25-48`), but nobody meets a remembered error: the first load is for the
  licence key, and `run` returns when that fails (`cmd/main.go:79-83`). In the second
  phase it is there, so only `fetchAppConfig` can fail in production (`MayFail`).
- A free agent registers without looking at team sizes; both kinds look at the type
  first and the close time second (`RefusalStatus`).

**Abstractions.** Names, cities, prices, experience levels, texts and ids are left out.
A registration is its type, number of players, submission time, `Paid` and `Version`.
An event's settings are its options, team size limits and close time. `Times` are the
moments at which registrations are submitted (the code takes `time.Now()` when it
translates the request). Stripe forgets a session only when it expires: after 30
minutes, when the handler that opened it (2 seconds) is over and the replica has seen
the hold (`Outlived`).

## 3. The runs

Constants of the runs are small sets of model values. Symmetry is used over workers and
sessions, in runs without liveness: both occur only as set members and function
arguments.

| Run | Instance | What it shows |
| --- | --- | --- |
| `one_email` | 1 email, 3 sessions, 2 workers, three settings (open to all; closed; no teams of two), 1 fault | everything one email can run into: `TypeOK`, `SignUpStats`, `HoldInv`, `PaidMeansPaidFor`, `ConfirmedIsRegistered`, `AckedSessionHoldsNothing`, `PaymentKept`, `AskedToPayOnce`, `AckedIsTold`, `PaidForever`, `AdmittedOnlyWhenOpen`, `CancelledOnlyAfterExpiry`, `NoLostUpdate`, `OnlyLostRacesMisinform` |
| `two_emails` | 2 emails (a team, a free agent), 1 session, 2 workers, 2 groups, no faults | flows of different emails meet at the event item, and the event's group travels with their copies: `SignUpStats`, `PaidMeansPaidFor`, `NoLostUpdate`, `ImplementsSheet`, `ListedAreRegistered`, `GroupKept` |
| `stale_reads` | 1 email that submits any shape, 2 sessions, 2 workers, `StaleReads`, no patch, 1 fault | holds and payments stay consistent when every read may be stale (`HoldInv`, `ConfirmedIsRegistered`, `AckedSessionHoldsNothing`, `PaidForever`), the totals go wrong in one way only (`OnlyMixUpsMiscount`), and a wrong 409 still takes a lost race (`OnlyLostRacesMisinform`) |
| `liveness` | 1 email, 2 sessions, 2 workers, 1 fault, fair | `HoldsAreReleased`, `PaymentHonouredUnlessCancelled` |
| `listings` | 3 items, 2 of them there at first, times with two offsets (UTC and an hour east), pages of 1 and 2, 2 writes, stale pages, fair | `ShownOnce`, `WalkEnds`, `ImplementsSweep`, `MovesForward` for both listings |
| `server` | 1 request of every kind, both environments, fair | `ServesWired`, `GroupJoined`, `ReturnsFlushed`, `AdminByAdmin`, `RefusedForCause`, `StartupEnds`, `StopEnds` |
| `other_expiry`, `payment_lost`, `returning`, `patch_conflict`, `register_conflict`, `event_order` | as small as shows the point | violations, section 4 |

**Bounds.** `MaxFaults` limits lost answers, failed calls and redeliveries after an
acknowledgement (a redelivery before one is free). `MaxVersion` stops patches of an
event at that version; sign-ups are limited by the number of sessions for the paid route
and, for the other, by one registration per email. `MaxPlayers = 2` tells a team from an
individual. Two workers suffice for every race of the table's optimistic writes: a write
fails or succeeds because of *one* other write since the read; three sessions give an
email a live hold, an orphaned session and a later attempt. Where `SignUpStats` or
`ImplementsSheet` is checked each email always comes with the same shape
(`OneShapePerEmail`); why they need that is the finding of run `returning`. No other
property does; of the theorems only `CountersCount` and `HandlersKeepTheSheet` assume
it. `stale_reads` lets the email come back with another shape and leaves patches out
(`MaxVersion = 1`) to make room for that: what is stale there are registrations and
intents, and a sign-up or an expiry moves the event's version as a patch would. In
`two_emails` faults are left out to make room for the mailing list, whose own calls fail
freely; a paying and a non-paying email, a patch and two groups (the event's and a
test's) are what its properties tell apart. Its reads are fresh: the same instance with
`StaleReads` and one group passes too, but takes 1.8 million states and several minutes,
and the theorems about the list cover stale reads. In `listings`, `MaxWrites = 2` lets
an item leave its place and come back, or a page be read in between two moves; pages of
one and two are filled with an item over, exactly, and not at all, from two items and a
third yet to be created. Two offsets and two start times make keys that differ in their
first part and keys that agree in it; `event_order` has Pacific daylight time and UTC.
In `server` requests do not touch each other, so one of each kind is enough; the
theorems have any number.

Deadlock is checked in every run but `server`, whose process ends: an organiser's
request can always be made, a listing always be begun again.

**Fairness.** `WF(HandlerStep(w))`: a handler runs to its end or fails: each call to the
table has a limit of one second and the requests themselves one of two.
`WF(ExpireSession(s))`: Stripe expires what nobody pays. `SF(~acked /\ Deliver(s))`:
Stripe retries for days until it gets a 200, and an instance is free to take the
delivery again and again, although any single one may be busy; strong fairness says that
retries do not always meet a busy worker. `WF(ReplicaCatchesUp)`: eventual consistency.
Nothing obliges anybody to register, pay or patch, and no fault has to happen; conflicts
lost to patches are bounded by `MaxVersion`, which stands for an organiser who stops
editing.

`WF(GetPage)` in `Listings`: the client goes on asking and does not fail for ever; nobody
has to write, and what is written is bounded by `MaxWrites`, without which new items
could keep arriving ahead of the cursor. In `Server` nothing makes AWS answer:
`WF(DeadlinePasses)` is the 10 seconds passing, and only after that, or once a goroutine
has failed, does fairness end a call (`expired /\ ...`, `ContextEndsCall`), as the
context handed down to it does. `WF(TraceShutdown)` is the shutdown's own limit of 5
seconds. Nothing is assumed of requests; no signal and no failure has to come.

**Liveness.** `HoldsAreReleased`: a hold whose session expired is released in the end,
whichever deliveries fail. `PaymentHonouredUnlessCancelled`: a paid session ends with
its email's registration paid, unless another session of that email expired; without
the exception it is false (run `payment_lost`).

**Refinement.** `ImplementsSheet` maps the items to `SignUpSheet`: an entry's place is
"paid", "held" (an intent stands beside it) or "entered" (registered without payment),
and the totals are the event's counters. Handlers that only read, fail or lose a race
stutter. In the abstract specification the totals are *computed* from the sheet at each
step, so every step of the code that changes counters is shown to keep them exact.
`ImplementsSweep` maps a listing to `Sweep`: the cursor is a line that only moves
forward, and a page shows what the line passes; limits, extra items and the arithmetic
of the last but one are not in it.

## 4. Where code and documents disagree

Each is a run of its own whose one property is violated.

- `other_expiry` (`registration/registration.go:334`): an email submits twice, the second
  submission opens a session and is refused with 409; when that session expires, its
  notification cancels the hold of the *first* session, which can still be paid.
- `payment_lost` (`registration/registration.go:315`, `dynamo/README.md:68`): and if it is
  paid after that, the payment is never recorded; each redelivery finds no registration
  and answers 500.
- `returning` (`registration/registration.go:353`, `dynamo/README.md:51`): between two
  deliveries of one expiry, the email comes back as another kind of registration. The
  new items are at version 1 again, so the second delivery deletes them and subtracts
  what the *old* one had added. The totals stay wrong.
- `patch_conflict` (`dynamo/events.go:315`, `spec/api.yaml:188`): a patch that loses a race
  answers 404 "Event not found." for an event that exists.
- `register_conflict` (`dynamo/registration.go:285`, `spec/api.yaml:260`): a registration
  that loses the race for the event's version answers 409 "already signed up" although
  it is not; the branch for version conflicts is never taken.

- `event_order` (`dynamo/events.go:77`, `:249`, `dynamo/README.md:26`): events are to be
  listed newest first, "sorting events by their start time". The key is the time as
  printed, on the clock of the offset it was sent with: of two events in one time zone,
  the later one sent with that zone's offset and the earlier one in UTC, the earlier one
  comes first.

## 5. The proofs

TLAPS proves, for all values of the constants that satisfy the named assumptions
(`TableAssumption`: a finite set of emails, settings and times of the right kind,
`None` is no item; `FlowAssumption`: shapes and bounds of the right kind;
`SheetAssumption`, `MailAssumption`, `ServerAssumption`: `None` is no entry, group,
request; `ListingAssumption`: ids, times, offsets and limits are numbers, finitely many
ids; `PagesFit`, section 2):

| Theorem | Module | Property |
| --- | --- | --- |
| `TypeCorrectness` | `RegistrationTypeProofs` | `TypeOK` |
| `HoldsStayInStep` | `RegistrationFlowProofs` | `HoldInv` |
| `OnlyPaidIsMarkedPaid` | `RegistrationFlowProofs` | `PaidMeansPaidFor` |
| `ConfirmationIsKept` | `RegistrationFlowProofs` | `ConfirmedIsRegistered` |
| `SilenceMeansSettled` | `RegistrationFlowProofs` | `AckedSessionHoldsNothing` |
| `TheHoldOutlastsThePayment` | `RegistrationFlowProofs` | `PaymentKept` |
| `NobodyPaysTwice` | `RegistrationFlowProofs` | `AskedToPayOnce` |
| `PaidIsFinal` | `RegistrationFlowProofs` | `PaidForever` |
| `OnlyExpiryCancels` | `RegistrationFlowProofs` | `CancelledOnlyAfterExpiry` |
| `OnlySecondSessionsInterfere` | `RegistrationFlowProofs` | what `other_expiry` and `payment_lost` refute, in behaviours with `[]OneSessionPerEmail` |
| `AdmittedUnderTheRules` | `RegistrationEventProofs` | `AdmittedOnlyWhenOpen` |
| `UpdatesAreKept` | `RegistrationEventProofs` | `NoLostUpdate` |
| `ConfirmedWhereEventIsSeen` | `RegistrationEventProofs` | `AckedIsTold`, in behaviours with `[]EventIsSeen` |
| `ConfirmedBeforeSilence` | `RegistrationEventProofs` | `AckedIsTold`, assuming `StaleReads = FALSE` |
| `WrongAnswersAreLostRaces` | `RegistrationEventProofs` | `OnlyLostRacesMisinform` |
| `CountersCount` | `RegistrationCountProofs` | `SignUpStats`, assuming `OneShapePerEmail` |
| `OnlyMixUpsMakeCountsWrong` | `RegistrationCountProofs` | `OnlyMixUpsMiscount` |
| `HandlersKeepTheSheet` | `SheetProofs` | `ImplementsSheet`, assuming `OneShapePerEmail` |
| `MailingChangesNothing` | `MailingListProofs` | `MailSpec` implies `Spec` |
| `OnlyTheSettledAreListed` | `MailingListProofs` | `ListedAreRegistered` |
| `OneGroupForEver` | `MailingListProofs` | `GroupKept` |
| `NothingLostOrRepeated` | `ListingProofs` | `ShownOnce` |
| `ListingsSweep` | `ListingProofs` | `ImplementsSweep` |
| `CursorsMoveForward` | `ListingProofs` | `MovesForward` |
| `WiredBeforeServing` | `ServerProofs` | `ServesWired` |
| `GoroutinesAreJoined` | `ServerProofs` | `GroupJoined` |
| `TelemetryIsFlushed` | `ServerProofs` | `ReturnsFlushed` |
| `AdminHandlersServeAdmins` | `ServerProofs` | `AdminByAdmin` |
| `RefusalsHaveTheirCause` | `ServerProofs` | `RefusedForCause` |

They hold, but for what the table says, with stale reads, with any number of workers and
with emails that change their shape. No liveness is involved and `Outlived` is the only
assumption on timing. Where a theorem has a hypothesis on the behaviour or on a constant,
the same formula without it is false, and the run named with it, or section 6, says how.

**The handlers.** Five inductive invariants, each the basis of the next (module
`RegistrationInvariant`; TLC checked the conjuncts on the instances above first).

1. `TypeInv`. `TypeOK` alone is not inductive: a handler's copy may be `None` in
   general. `CallOK` says which copies a handler has at which `pc`, `SessionsOK` that an
   opened session has an email, `HeldIsOpened` that the session a handler is about to
   offer was opened.
2. `SettleInv`: registrations, intents and sessions agree, whatever the event item says.
   - `CallSession` and `OneHandlerPerSession`: a handler works for a session of its own
     email, in the state that started it, and no two offer the same session. Without
     them a commit could name a session of another email.
   - `CallReg`: what is about to be created is unpaid and at version 1. With `HoldInv`'s
     version-1 clause this is why `DeleteExpiredRegistration` cannot delete a paid
     registration: paying bumps the version, and no hold stands at another one.
   - `CallConfirms`: a confirmation about to be sent is for a registration without an
     intent. Only an intent lets an expiry delete it, so it stays.
   - `ExpiredHoldSeen`: once a session has expired, no read misses the hold that names
     it. Without it a stale read could make the webhook acknowledge an expiry whose hold
     stands. It rests on `Outlived`.
   - `AckedIsSettled`, `AckedSessionHoldsNothing`: an acknowledged session was settled,
     and no hold names it; an acknowledged session is never offered again.
3. `EventInv` = `SettleInv` and
   - `ReplicaBehind`: the replica's event is an earlier one, and equal to the event if
     the versions are;
   - `CopiesFit`: a copy that can still be written is *the current event* with the
     handler's own change. This turns the version condition into "no lost update" and
     "admitted under the settings now in force".
4. `StatsInv` = `EventInv`, `SignUpStats` and
   - `ShapesKept`: every registration, in the table, the replica or a handler's hands, has
     a shape its email submits. With `OneShapePerEmail`, what an expiry subtracts, computed
     from a registration read earlier, is what the one it deletes had added;
   - `EventBeforeRegs`: an event that is yet to be created has no registrations to count.

   The counting itself is `CountOneMore`: the seats are pairs of an email and a number up
   to its players, so one registration adds a row of pairs to the set that is counted.

5. `ReadInv` = `EventInv`, `ShapesKept`, `EventBeforeRegs` and
   - `HeldIsFresh`, `ReplicaNamesOpened`: no intent, the replica's neither, names a session
     whose handler has yet to write the hold; so a hold is its session's first and only one;
   - `ReplicaPair`: a replica that answers with the current intent answers with its
     registration as well;
   - `OwnHoldRead`: while its session's own hold stands, the registration a webhook handler
     read is the one in the table.

   `SignUpStatsStep` shows that a step without a `MixUp` keeps the counters; `OwnHoldRead`
   that there is none while the hold is the session's own, but for a payment that starts
   from a stale read. This is `OnlyMixUpsMiscount`, which needs neither `OneShapePerEmail`
   nor fresh reads; `CountersCount` follows from the same step with `OneShapeNoMixUp`. It
   says what a repair of the finding `returning` must do: compare the intent's
   `PaymentSessionId` with the session, and read the registration consistently.

`PaymentInv` adds `PaymentKept` and `AskedToPayOnce` to `SettleInv`. A form is shown only
after its hold was written (`OfferedWithHold`); only a payment or an expiry takes a hold
away (`TableMoves`), the payment leaves a paid registration, the expiry an expired session
of the same email. A second form needs a second hold, hence neither a hold nor a paid
registration at that moment, hence an expired session.

**The findings, delimited.** Two theorems say what a counterexample of section 4 takes.
`OnlySecondSessionsInterfere`: while no email opens a second session, no hold is cancelled
by another session's expiry and no payment is lost, whatever fails or is repeated.
`WrongAnswersAreLostRaces`: whatever else runs, fails or is stale, a 404 for an event that
exists or a 409 for an email nobody registered comes from a copy of the event that another
write overtook (`Overtaken`), from a read of a replica without the event (the 404 only), or
from a failure in the answering step. The registration's and the intent's conditions are
never to blame: an email without a registration has no intent (`HoldInv`), which leaves
only the event's condition to fail, and a copy that fails it is behind the event
(`CopiesFit`, `OvertakenCopy`).

Each step theorem splits `Next` by its actions once (`NextCases`) into frame lemmas:
what may happen to the table (`TableMoves`: unmoved, registers, holds, settles,
releases), to the sessions (`SessionMoves`) and to a handler (`OnlyOwn`: only its own
step moves it; `Reaches...`: how it comes to each `pc`). The conjuncts are then proved
from these few cases and not from the eighteen actions.

`AckedIsTold` is about the one step in which the webhook answers 200 for a payment.
Where its last read finds the event (`EventIsSeen`) that step has the confirmation sent
or is itself the one that fails (`AckTells`); faults before it are no excuse, as
`SettleInv` and `CallConfirms` hold whatever failed earlier. With fresh reads it does
find it (`EventBeforeRegs`: an event is never deleted); with stale ones it is enough
that the replica has seen the event itself, which was there before anybody registered.

**The sheet.** `WhatIsApplied` leaves six kinds of step: nothing, the creation of the
event, and the five conditional writes. Each is shown to be one action of `SignUpSheet`.
What the abstract action asks for beyond what the write itself says comes from the
invariants: `CopiesFit` makes the copy that is written the current event with the
handler's change, so the rules tested before are the rules in force; `CallReg` and
`HoldInv` give the entry's place; and the totals after the step are those of the sheet
because `SignUpStats` holds after it.

**The mailing list.** Every step of `MailSpec` is one of `Spec` or leaves its variables
alone, so `EventInv` is inherited. On top of it, `CopiesOfGroup`: a copy of the event
that can still be written or mailed with has the event's own group; by `ReplicaOfGroup`
so has the replica's item if it has one at all, which is why a stale read can do no harm
to `GroupKept`. `NoEventYet`: a group that waits for its event is empty, and nobody else
was given it. A person on the list was confirmed, and `CallConfirms` and `SettleInv` say
that no expiry can undo that.

**The listings.** `Kept`: an item that kept its place stands there in any page that can
be read, and has been shown exactly if the cursor is past it. `PageSplits` is the heart:
a page is a first part of what is left, all before the new cursor or equal to it, and
the item dropped is after it. The order of the index is proved transitive and
irreflexive for keys of five numbers. `MovesForward` is read off `cursorToLastEval`: what
is left is behind the cursor, so the last item shown is.

**The process.** `ServerInv` says how far start-up has come in each phase and what is
over: no goroutine runs and none has failed once `main` is past `Wait`, telemetry that
is on is in the hands of the deferred shutdown. `RequestOK` says the same of one request: a
token in its context and a status 400 or 401 have their cause in what came with it, and
are written together with the answer (`GatedRequest`).

**Only model-checked.** The liveness properties (`HoldsAreReleased`,
`PaymentHonouredUnlessCancelled`, `WalkEnds`, `StartupEnds`, `StopEnds`): liveness under
fairness is beyond the prover. Every invariant, action property and refinement the
passing runs check is proved.

## 6. What is not modelled

- Email texts. Whether a confirmation is sent is modelled, what it says is not; the
  email test endpoint (`api/testemail.go`) keeps no state.
- CORS, the documentation pages, the access log and the flushing of traces around a
  request: they change no state of the service. A request that reaches a handler of
  `RegistrationFlow` is a valid one (types, minimum player counts, lower-case email);
  `Server` shows what gets there.
- The values of keys, secrets and tokens; what a token's issuer signs.
- Generated code (`api/gen.go`), the frontend contract and the infrastructure files.
- Prices and the amounts Stripe charges.
- Retries inside the AWS SDK, except where they show: a `PutItem` retried after it was
  applied. A transaction carries an idempotency token, so its retry is answered as the
  first attempt was.
- The number of confirmation emails: a redelivered notification sends another, and
  nothing in the code or its documents promises a single one.
- `AckedIsTold` is not checked with stale reads, where it is false for a reason of its
  own: a webhook that misses the event in a lagging replica answers 200 as for an event
  that is not there. For that the event must be younger than the replica's lag and
  already paid for; `ConfirmedWhereEventIsSeen` proves that nothing else can break it.
- Pages that end at DynamoDB's 1 MB (`PagesFit`): nothing in the code bounds the size of
  an item, and a page cut short that way would be taken for the last.

## 7. Plan

What the earlier plans listed is built: the handlers, the sheet, the listings, the mailing
list and the process, every safety property with its proof, and the findings delimited by
theorems on what they take. Left:

- the listings side by side with the handlers: `Listings` writes events and
  registrations in its own, simpler steps; a refinement would show that each write of
  `RegistrationFlow` is one of them;
- theorems about the steps behind the liveness properties: that every handler's step
  brings it closer to its end, and that a page shows at least one item;
- how wrong a mix-up can leave the totals, as a bound on the difference.
