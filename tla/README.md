# A formal model of venue-backend

venue-backend is a FastAPI application over PostgreSQL in which customers
request time slots of an owner's resources (rooms, courts, studios) and the
owner approves or rejects the requests.  This directory holds TLA+ modules that
model its state changes, the TLC configurations that check them on small
instances, and TLAPS proofs of the results that matter most.

| File | What it is |
| --- | --- |
| `Bookings.tla` | the booking life cycle: all commands that write a booking, the resource commands that race with them, the expiry job, transactions and locks; its properties |
| `BookingOverlaps.tla` | `Bookings` with history variables that record where transactions overtake each other, and what holds of every step but those (extends `Bookings`) |
| `Calendar.tla` | the abstract specification: what the booking flow promises about a resource's calendar |
| `RowStore.tla` | sessions, entities, the two statements of `update()`, unique constraints, commit and rollback, for all other tables |
| `Schedules.tla` | what the value objects of a resource accept: windows, schedules, pricing rules, attributes, schemas |
| `Resources.tla` | resources and resource types: all their commands (extends `RowStore`, `Schedules`) |
| `Accounts.tla` | users, tokens, subscriptions, the trial job (extends `RowStore`) |
| `Ratings.tla` | ratings, their edits and averages (extends `RowStore`) |
| `Inbox.tla` | one user's notifications and the pages of the inbox (extends `RowStore`) |
| `SlotGrid.tla` | agenda, alignment, opening hours and price across time zones (extends `Schedules`) |
| `PublicPages.tla` | listing, resource page and owner page, SELECT by SELECT |
| `MC*.tla`, `*.cfg` | the instances TLC checks |
| `BookingsProofs.tla` | what holds of bookings however requests race: types, no double booking, approved at most once, outcomes told, losers have a winner, refinement of `Calendar`; and that each guarantee of the domain model is broken by a lost update or an overlapping commit only |
| `PublicPagesProofs.tla` | the two results about pages that read several SELECTs |
| `RowStoreProofs.tla` | what the pattern of `RowStore` guarantees, for any kind of row |
| `AccountProofs.tla`, `ResourceProofs.tla`, `RatingProofs.tla`, `InboxProofs.tla` | the safety properties of those modules, from the lemmas of `RowStoreProofs` |
| `SlotGridProofs.tla` | the safety properties of `SlotGrid`, with the arithmetic of the grid and of sums that they rest on |
| `PROJECT.json` | components, runs, mutants, the map from definitions to source lines, findings, hazards, theorems |

Run `tlc -config BookingOverlaps.cfg MCBookingOverlaps.tla` (`PROJECT.json` names the module
of each `.cfg`) and `tlapm BookingsProofs.tla`.

## 1. Inventory

Paths are under `src/app/`.  "State" is what survives a request.

| Component | State | Operations | Talks to | Hard behaviour | Correct when |
| --- | --- | --- | --- | --- | --- |
| **Bookings** (`domain/bookings`, `use_cases/bookings`) | rows of `bookings`: status, `status_history`, slot | request, approve, reject, cancel, expire | resources, subscriptions (gates), notifications, advisory lock | concurrent decisions on one booking and on overlapping bookings; stale entities written back; deadlocks | no double booking, approved once, terminal states final, history explains status, everyone told |
| **Booking persistence** (`infrastructure/repositories/booking_repository.py`, `infrastructure/bookings`, `infrastructure/db/session.py`, the bookings migration) | the tables, locks, open transactions | queries, `add`, `update`, advisory lock, commit, rollback | PostgreSQL | `update()` is a SELECT and a column-wise UPDATE; exclusion constraint; READ COMMITTED | transactions all or nothing |
| **Resources** (`domain/resources`, `use_cases/resources`) | rows of `resources`: schedule, pricing, attributes, `is_published`, `deleted_at` | create, publish, unpublish, replace/set parts, soft delete | bookings (cascade), catalog (type) | lost updates between whole-row writes; delete cascade racing with requests | a deleted resource is clear and stays deleted; schedule, slots and pricing consistent |
| **Subscriptions** (`domain/subscriptions`, `use_cases/subscriptions`) | one row per owner: status, trial end | admin sets status, trial job expires | notifications; gate of bookings | job racing with the administrator; stale write | no transition lost; a trial ends |
| **Notifications** (`domain/notifications`, `infrastructure/notifications`) | rows of `notifications` | notify, list, mark read | every command above | failures swallowed inside the caller's transaction | one notice per committed decision |
| **Ratings** (`domain/ratings`, `use_cases/ratings`) | rows of `ratings`, `UNIQUE(booking_id)` | create, update, aggregate | bookings | check-then-insert; window ends | one rating per booking, only of a past approved one |
| **Accounts** (`domain/accounts`, `use_cases/accounts`) | rows of `users` | register, login (rehash), refresh, promote, deactivate | subscriptions, tokens | slug and e-mail races; stale user row written by login | unique e-mail and slug; OWNER has slug and subscription |
| **Auth** (`infrastructure/auth`, `api/deps.py`) | none; tokens | issue, decode, role check | accounts | tokens outlive role changes | - |
| **Catalog** (`domain/catalog`, `use_cases/catalog`) | rows of `resource_types` | create, update, delete | resources | deletion racing with creation of a resource | no resource without its type |
| **Jobs** (`jobs/`) | none | two cron entry points | bookings, subscriptions | transaction never committed | overdue rows leave PENDING / TRIALING |
| **Slot grid, pricing, agenda** (`request_booking.py`, `resource.py`, `get_agenda.py`) | none | alignment and opening hours, price, free slots | bookings | daylight saving, midnight, sums over limits | agree with their definitions |
| **HTTP, error codes, value objects, cache, migrations, scripts** | none that matters here | - | - | - | - |

Requests interact only through the database: each request has one session, and
one session is one transaction (`infrastructure/db/session.py:33-41`).
`HTTPException`, raised by `unwrap` for every failed `Result`, rolls it back.

The hazards, each with its line and the properties that watch it, are listed in
`PROJECT.json`.

## 2. Module `Bookings` and the code

### State

| Variable | Code |
| --- | --- |
| `clock` | `datetime.now(UTC)`, in units of the slot grid |
| `bookings`, `resources`, `inbox` | the committed rows of the three tables (`inbox` counts the notifications per recipient, kind and booking) |
| `operational` | `subscription.status.is_operational()` per owner |
| `pc`, `op` | where a session's handler stands, and its command |
| `staged`, `resStaged` | entities in memory: read, changed, not yet written |
| `seen`, `resSeen` | what the SELECT inside `update()` found |
| `draft`, `resDraft`, `outbox` | rows written by the open transaction; a written row is locked until the transaction ends |
| `advisory` | `pg_advisory_xact_lock` per resource |

### Steps

A session takes up a command (`LoadFor...`, `ListOverdue`), goes through the
handler's statements, and ends in `Commit`, in a refusal, or in an abort.

| Command | Actions, in order |
| --- | --- |
| request | `LoadForRequest`, then `RefuseDuplicate` or `AddBooking`, `Commit` |
| approve | `LoadForApprove`, `AcquireLock`, `RefuseDecided` or `Refetch`, `ListCompetitors`, (`SelectRow`, `Write` or `ExclusionViolation`) for the target and then for each competitor, `Commit` |
| reject, cancel | `LoadForReject` / `LoadForCancel`, `SelectRow`, `Write` or `ExclusionViolation`, `Commit` |
| soft delete | `LoadForDelete`, `ListPendings`, (`SelectRow`, `Write`) per booking, `SelectResource`, `WriteResource`, `Commit` |
| publish, unpublish | `LoadForPublish`, `SelectResource`, `WriteResource`, `Commit` |
| expiry job | `ListOverdue`, (`SelectRow`, `Write`) per booking, `JobReturns` |

Any open transaction may also end in `Abort` (a failed statement, a lost
connection, a crash) or in `DeadlockAbort`.

Points at which the model follows the code closely, because properties depend
on them:

* **`update()` is two statements.**  `booking_repository.py:257-268` selects the
  row again and assigns every attribute; SQLAlchemy then emits an UPDATE of the
  columns that differ from what this SELECT returned.  The identity map holds
  its objects weakly, and no handler keeps a model object, so the second SELECT
  reads the row as it is committed now.  `Written` is the resulting row.  The
  entity's history always ends with a change of its own and is always written;
  its status is written only if it differs from `seen`.  For resources,
  `deleted_at` and `is_published` are treated in the same way.
* **READ COMMITTED.**  Every SELECT sees the rows committed at its step.  An
  UPDATE waits for a row lock and then applies its column values to the newest
  version of the row.
* **The exclusion constraint** (`migrations/versions/20260427_1000_bookings_table.py:57-63`)
  is checked with the write: a clash with a row that another transaction is
  changing makes the writer wait (`ClashInFlight`); a clash with a settled row
  is an error (`ExclusionViolation`).
* **Notifications are inside the transaction.**  The comment "Outside lock +
  outside TX" at `approve_booking.py:102` does not describe what happens: the
  notification repository uses the request's session, and the advisory lock
  lasts until COMMIT.
* **The job never commits.**  `main()` returns from inside `async for session in
  get_session()`; the generator is closed at its `yield` and `session.commit()`
  is not reached, so the transaction is rolled back (`JobReturns`).

### Overlapping transactions

`request`, `reject`, `cancel`, the soft delete and the job hold no lock between
reading a row and writing it, and `update()` compares no version.  So several
guarantees of the domain model do not hold of the system without exception:
terminal states, the append-only history, natural dedup, the cascade of a
deletion.  `BookingOverlaps` states what does hold.  It adds three history
variables that no guard reads:

| Variable | Meaning |
| --- | --- |
| `outdated[s]` | bookings that others have committed since session `s` read them (for a request: since it looked for duplicates; for a deletion: since it looked for approved ones ahead, or later read them as pending) |
| `gone[s]` | resources that others have deleted since `s` took up its command |
| `torn` | bookings where an UPDATE that left the status column out met a row with another status |

and each property names the one kind of step that may break it:

* `DecisionsStand`, `TrailOnlyGrows`, `RejectedOnce`: only `Overwrites`, the
  COMMIT of a version made from a row that has been replaced since.  The handlers
  can do that, so plan-08 section 6.3, line 642 ("state machine handles concurrent
  rejects: second one fails with `BookingInvalidStateTransition`") does not hold:
  two rejects that both read the PENDING row both succeed, and the customer is
  told twice.  It holds when the second reject reads after the first one's COMMIT.
* `HistoryExplainsStatus`: except for `torn` rows.
* `DuplicatesOverlap`: only a request that commits after the other booking was
  committed behind its back (or a lost update).  `lock.py:8-9` says that dedup is
  under the per-resource lock, but `request_booking.py:92-111` takes none; the run
  `DuplicateRequests` keeps that on file.
* `DeletionClears`: a deletion leaves behind what was committed after it looked,
  and a request or an approval that began before it may add a booking later.

### Abstractions

* The gates at the start of a handler (existence, ownership, published,
  subscription, future slot) are one step with the SELECT of the entity they
  lead to.  A handler that fails a gate leaves no state behind, so the step is
  simply not taken.
* Slots are abstract half-open ranges that already satisfy alignment and opening
  hours; grid, walks and price are in module `SlotGrid`.
* The subscription is reduced to its operational bit, which may change at any
  time; the customer's cutoff is one constant.
* `status_history` keeps from, to, role and reason of each change; times and
  actor ids are dropped.  Reasons are reduced to the four that the code tells
  apart.
* Row order inside a loop is arbitrary (`SelectRow` chooses), because the queries
  have no ORDER BY; only approve writes its target first.
* The advisory key is the first eight bytes of the resource id; a collision would
  only make unrelated approvals wait, so it is not modelled.

## 3. The other modules and the code

### `RowStore`: every other table

Outside the booking tables the repositories share one pattern, and `RowStore`
has it once.  Rows of all tables of a module live in `rows`, a function of the
primary keys; a row is a record whose fields are the columns.

| Variable | Code |
| --- | --- |
| `rows` | the committed rows |
| `pc`, `staged`, `seen`, `draft` | as in `Bookings`: the handler, entities still to be saved, what the SELECT inside `update()` found, versions written by the open transaction (`Gone` for a DELETE) |
| `mixed`, `outdated`, `torn`, `lost` | bookkeeping that no action reads |

`SelectRow` and `WriteRow` are the two statements of an `update()`; `Written` is
the UPDATE of the columns that differ.  `InsertRows` and `InsertRefused` are one
flush of new rows against a unique constraint.  Which rows share a key is for
the module that extends `RowStore` to say (`SameKey`): it lets the flush wait
while another transaction is writing or deleting a row of the same key (`Waits`,
over `InFlight`), and then succeed (`KeysFree`) or fail (`KeyRefused`).  `CommitRows`
and `Rollback` are the two ends of `get_session()`.  `View` lets a session see
its own writes, which PATCH relies on.

The bookkeeping separates what the handlers guarantee from what lost updates
destroy.  A row is *torn* when a committed UPDATE left it unlike the entity of
its writer: the columns of two transactions met in it.  It is *lost* when its
writer had loaded it before another transaction changed it.  `AggregateSound`,
`SubscriptionReadable`, `NoticeMatchesStatus` and `ShownAsSubmitted` except torn
rows, `DeactivationIsFinal` and `ReadIsFinal` lost ones, and each exception is
needed: without it TLC shows

* a subscription that is PAST_DUE with a trial date (two `SetStatus` of which
  one had selected the other's TRIALING): `OwnerSubscription.__post_init__`
  then raises `ValueError` on every later load of that owner's row;
* pricing rules on one grid beside a schedule on another;
* a deactivated user reactivated by a login that rehashed the password;
* a rating with the score of one edit and the comment of another.

So the theorems say that these faults need a lost update, and nothing else.

### `Resources` and `Schedules`

One action per command of `use_cases/resources/commands` and
`use_cases/catalog/commands`; each loads the aggregate (`View`), checks what the
method of `Resource` or `ResourceType` checks and stages the whole row.
`PATCH /v1/me/resources/{id}` is the sequence of up to five commands it is in
`api/v1/me_resources/routes.py`, in one transaction (`Patch`, `PatchOrder`).
`replace_base_attributes` selects the type after the resource and has two
actions.  The foreign key is in `Insert` (share lock on the type) and
`RemoveType` (RESTRICT).  A promoted owner without slug makes `create_resource`
fail after its INSERT (`AnswerFails`).

`ScheduleAccepted`, `RulesAccepted`, `AttributesDisjoint`, `SchemaAccepted` and
`Conforms` are the checks of the code, in its own terms (neighbouring windows,
pairs of rules); `PartsSound` states what they are for, instant by instant, and
`AggregateSound` compares the two on every reachable row.  Inputs are raw and
include ones the factories refuse.  Times of day count quarter hours, the
greatest unit that divides every slot duration and all of 30, 45, 60, 90, 120.

### `Accounts`

Users and subscriptions are rows; a token pair is a record of its claims in
`pairs`, from its issue to the end of its refresh token.  `AdminPresent` is
`require_role(ADMIN)`: it looks at claims, not at the row.  `Login` keeps the
role it loaded in `task` and may stage a rehash of the same user.  The slug
retries of a registration are one SELECT each (`TakeSlug`, `NextSlug`,
`RefuseSlug`).  `promoted`, `changedAt` and `told` record history for the
properties; `told` is the last `SUBSCRIPTION_CHANGED` notice.  `ExpireTrials`
stages every overdue trial; `JobReturns` rolls them back, because
`jobs/expire_trialing_subscriptions.py` leaves the session generator by `return`
exactly as the booking job does.  So no trial ever ends by itself.  Login and
refresh take less than one unit of the clock (`Tick` waits for them); without
that, `AccessEnds` would need the length of a request in its bound.

### `Ratings`, `Inbox`, `PublicPages`, `SlotGrid`

* `Ratings` keeps of a booking what a rating looks at.  An owner may cancel a
  booking that is over and rated; the rating stays.  Averages are in tenths of a
  score, rounded half to even as `Decimal.quantize` does.  The owner page averages
  the ratings of the resources that `list_published_by_owner` returns (published,
  not deleted, the newest fifty) and of no others: `OwnerAverage(listed)` takes
  that set, and `AverageIsClose` is about every set of the owner's resources, so
  publication, deletion and creation times of resources are not state here.  A
  rating of an unpublished or deleted resource does not count.
* `Inbox` separates the moment a notification is created (`created_at`) from its
  commit.  `ReadPage` is the query with its cursor, `limit + 1` and the next
  cursor; a foreign or unknown cursor counts as none.
* `PublicPages` reads one SELECT per step; commits of others come in between.
  `moments` collects, for the call under way, what was true at some or at all of
  its states.  A demoted owner's resources stay in the listing, which does not
  look at the role; the two other pages do.
* `SlotGrid` keeps instants in UTC and wall-clock times apart, with a zone that
  changes its offset once.  `Fine` moments make a quarter hour, so that starts
  off the minute exist: the code rounds minutes down, and such a booking runs
  past closing time.  The agenda and the request walk on the wall clock,
  `compute_price` in UTC, and the properties say when the three agree: on the
  price of slots that join up always (`PriceAsOffered`), on the rest while the
  offset stays.  Slots of a skipped hour are read as later instants and may
  overlap the slots after them; what such offers cost together means nothing.
  `Steady` names the assumption that no change of the offset lies in the range;
  `CrashNeedsClockChange` says that the agenda fails only then, or when a price
  exceeds `Money.MAX_CENTS`: the spring night really makes it fail.

## 4. The abstract specification

`Calendar` knows neither transactions nor handlers.  A booking claims a slot for
good (`File`), is granted it at most once and only if no granted booking
conflicts (`Grant`), and releases it (`FreeUp`).  `Bookings` implements it
(`ImplementsCalendar`) under the refinement mapping: the claim is the row's
resource and slot, a booking is *held* while its row is APPROVED, *released*
when its row is not APPROVED although its customer was told of an approval, and
*waiting* otherwise.  The mapping uses the notification as history, since a lost
entry of `status_history` would not show that an approval had happened.
`BookingsImplementCalendar` proves the refinement (section 6).

## 5. Runs

The runs of `MCBookings` and `MCBookingOverlaps` use one resource.  Customers are
its owner and one more user; in `BookingOverlaps` the owner alone, who may book her
own resource (`cancel_booking.py:66-67`), since whose the bookings are matters
there only in that they are one customer's.  Symmetry (sessions, bookings, new
keys) is used only where no liveness is checked.

| Run | Instance | Expect | What it shows |
| --- | --- | --- | --- |
| `BookingRaces` | 2 sessions, 1 booking, 2 users, clock 0..3, all seven commands, failures; 428,768 states | pass | approved at most once; every status and every line of the history has its notice and no rolled back booking has one (`OutcomeNotified`) |
| `BookingOverlaps` | 2 sessions, 2 bookings of one time, clock 0..1, request/approve/reject/cancel/delete, failures; 312,204 states | pass | no double booking; the booking flow implements `Calendar`; only lost updates undo a decision or a line of the history or reject twice; duplicates and bookings left on a deleted resource come from transactions that overlap and from nothing else |
| `BookingLiveness` | 2 sessions, 2 bookings, 2 touching slots, request/approve/delete, fairness; 107,294 states | pass | every request ends: no lock is leaked and no cycle of waiters remains; an auto-rejected request was told and lost to an overlapping approved one |
| `ResourceEdits` | 2 sessions, 2 resources, 2 types, 2 owners, 3 commands of 14 kinds; 782,146 states | pass | an aggregate keeps the rules that relate its parts, a URL names one resource, no resource loses its type, attributes fitted a schema of the type |
| `AccountRaces` | 2 sessions, 4 users, 3 commands of 8 kinds, clock 0..2, access 1, refresh 2, trial 1; 450,022 states | pass | unique keys, complete owners, readable subscriptions, notices that match, old access ends, deactivation is final |
| `RatingEdits` | 2 sessions, 3 bookings of 2 resources, 3 commands, clock 0..4; 530,315 states | pass | one rating per booking, shown as it was sent, the owner's average right to a tenth |
| `SlotGrid` | 3 resources, 3 zones, 7 instants around the change, 2 bookings; 106,517 states | pass | agenda and request agree while the offset stays, and on the price of slots that join up always; what fails needs a change of it |
| `InboxPages` | 2 sessions, 3 notifications, pages of 1 and 2, 4 commands, clock 0..1; 63,348 states | pass | a pass through the pages shows each notification once; the time of reading stays |
| `PublicPages` | 3 users, 3 resources, pages of 2, 3 commits by others; 159,342 states | pass | what is shown was allowed at some moment of the call; what was visible all the time is found |
| `RaceTerminal` | 2 sessions, request/approve/cancel | violation | an approval overwrites a committed cancellation (and its history entry) |
| `DuplicateRequests` | 2 sessions, 2 bookings, request | violation | two requests at once file the same slot twice for one customer |
| `JobNeverCommits` | 1 session, request/expire, cron and clock fair | violation | overdue requests never leave PENDING |

The exceptions in the properties of module `BookingOverlaps` are needed: without
any one of them TLC refutes `DecisionsStand`, `TrailOnlyGrows`, `RejectedOnce`,
`DuplicatesOverlap` (requests, or lost updates) and `DeletionClears` (the
deletion's own late bookings, requests, or approvals) on the instance of the run.
Only torn rows do not occur there: they take three sessions (with one booking, TLC
finds a history that does not explain its status), and that nothing else breaks
`HistoryExplainsStatus` with three or more is what the theorem shows.

**Why the bounds are enough.**  Each hazard is a conflict between two
transactions about one or two rows: two sessions and two rows reach all of
them but the torn history of a booking, which takes three sessions and one row.
One slot makes everything overlap; touching slots exercise the half-open
boundary.  The clock passes the start of every slot in the runs where time matters (cutoff, deletion, expiry),
the end of every token, of every trial and of both windows of a rating.
`MaxTime` bounds the clock and `MaxCommands` the commands taken up (three: two
that race and one that prepares or finds the result); `MaxBookings` and
`MaxCommits` do the same in `SlotGrid` and `PublicPages`.  Every table has room
for one row more than the races need.  In `ResourceEdits` prices, labels and
cutoffs have one value each, since no property tells them apart; schedules and
rules include a pair that fits one grid only.  `PageLimit` is 2 (50 in the code)
and pages overflow.

**Mutants.**  Definitions marked `Faulty:` are plausible mistakes
in the code they stand beside (a lock that locks nothing, a dropped re-check, an
off-by-one in a query, notices outside the transaction).  Each property of a
passing run is refuted by one of them; `PROJECT.json` lists the pairs.

**Fairness.**  `FairSpec` assumes strong fairness of each session's next step.
A handler never waits for anything but the database; PostgreSQL queues waiters
of a lock first come first served, so a session whose step is possible again
and again eventually takes it; and the deadlock detector is part of that step.
No fairness is assumed of clients, of failures or of the clock.  `CronSpec` adds
what the deployment promises: time advances, and cron starts the job again and
again.

## 6. Proofs

### Bookings

The theorems hold for every number of users, resources, bookings, slots and
sessions, under the assumptions named in `Bookings` (`OwnerAssumption`,
`SlotAssumption`, `TimeAssumption`, `KindAssumption`, `NoRowAssumption`).

* `TypeCorrect`: `Spec => []TypeOK`.  `TypeOK` is not inductive: what a handler
  stages depends on what its command is known to be at each step (`StepInv`), and
  that a drawn id stays unused until it is committed (`FreshInv`).  `TypeInv` is
  their conjunction.
* `NoDoubleBooking`: with the exclusion constraint,
  `Spec => []NoApprovedOverlap`.  The constraint judges one row when it is
  written, but other transactions commit before this one does.  The invariant
  that bridges the gap is `DraftsAreSafe`: a row has one uncommitted version, and
  an uncommitted approval clashes neither with another one nor with any committed
  row its own transaction leaves alone.  `SafeInv` adds that committed rows do
  not clash.  The lemma for `Write` uses both forms of waiting; the one for
  `Commit` uses nothing but `SafeInv`.
* `ApprovedOnce`: `Spec => []ApprovedAtMostOnce`, with or without the constraint.
  The argument is about the lock: `LockInv` says that an approval past its lock
  holds the lock of its booking's resource until it ends and has written the
  booking when it commits; `RowInv` that a row's identity never changes and that
  no version after the first is PENDING, even where `update()` leaves the status
  column alone; `NoticeInv` that nobody has been told of an approval while the
  booking is PENDING or its approval is under way.  So the status found PENDING
  under the lock is the evidence that no approval was committed before, and the
  lock that none is committed in between.
* `EveryOutcomeIsTold` and `LosersHaveAWinner`: `Spec => []OutcomeNotified` and
  `Spec => []AutoRejectedHasWinner`, lost updates included.  Both relate rows to
  notices, and both become true of a row at COMMIT only, when row and notices
  arrive together.  `OutcomeInv` says it twice: `Settled` of the committed rows
  and the inbox, `Owes` of what an open transaction has staged or written and
  the notices it will send with it.  A version without a decision of its own (a
  stale status column that `update()` leaves alone) is covered because the
  status it keeps was told when it was committed.  `LinesInv` says the same of the
  lines of the history: `TransitionTold` adds one with its notice, and a lost
  update drops lines only.  For the winner, `HasWinner`
  is stated against the notices a session *knows*, its own and the committed
  ones, since the approval and the rejections it causes end in one COMMIT.
* `BookingsImplementCalendar`: with the exclusion constraint,
  `Spec => ImplementsCalendar`.  Only COMMIT changes the mapped state, and
  `CalendarStep` shows for each kind of command which step it is: `RequestFiles`
  (a request is a `File`), `ApprovalGrants` (an approval is a `Grant`: the
  notice is new by `NoticeInv`, and nothing that is held conflicts by
  `SafeInv`), `OthersFreeUp` (every other command only releases), `ClaimsStay`
  (slot and resource never change).  `ClaimsInv` adds what the mapping needs to
  know of an open transaction: which rows a command may write, with which
  status, and that a row whose approval is under way has not been told of one.
* Six theorems are about `BookingOverlaps`, for any number of sessions
  (`OverlapSpec => ...`): `AuditTrailIsAPath`, `DecisionsAreFinal`,
  `AuditTrailIsAppendOnly`, `RejectedTwiceByOverwriting`,
  `RequestsAreDeduplicated`, `DeletionClearsTheResource`.  Their common
  invariant is `VersionsInv`: as long as no other transaction has committed a
  booking (`outdated`), what a session has staged or written of it is one legal
  transition ahead of the committed row (`Successor`), and `update()` finds the
  row that was loaded (`WrittenFresh`); a new booking has no active duplicate but
  the outdated ones.  So every COMMIT of a booking is one legal transition, a
  request, or an overwriting one (`CommitVersions`), and only COMMIT writes
  (`OnlyCommitWrites`).  `TrailInv` says that all copies of a row that is not torn
  are `Explained`: an UPDATE that leaves the status column out keeps the row's own
  status, and `Mixed` is the case where that is not the status its history ends
  with.  `RejectionInv` says that of a booking that still waits for a decision
  nobody has been told a rejection.  `ClearanceInv` says what a deletion has found
  of the bookings that are not outdated, which rows it is still to write, and that
  a request or an approval under way on a deleted resource had begun before.

### The row store and the modules over it

`RowStoreProofs` proves once what transactions over a `RowStore` keep, for any
tables: `R[i]` is the set of rows that key `i` may have, `K[i]` the columns of it
that are fixed.  Its lemmas have one form, "this step of the store keeps this
invariant", so that the proof about a module only shows what its own handlers
stage.

| Invariant | Says | Rests on |
| --- | --- | --- |
| `StoreGood(R, K)` | rows have their types; a row has one uncommitted version; a row to be inserted is new to all; fixed columns are the same in all versions of a row | row locks; fresh keys |
| `Undeleted` | no transaction deletes (where no command does) | - |
| `Unique(C)` | no two rows, committed or written, clash; `C` may look at fixed columns only | an INSERT waits for rows in flight, then looks |
| `Based(G)` | a staged or written version is a `G`-successor of the committed row, unless that has changed since it was loaded (`outdated`) | the handler; `outdated` becomes `lost` at COMMIT (`CommitReplaces`) |
| `Whole(W)` | a version is in `W`, unless its columns come from two entities (`mixed`, and `torn` after COMMIT) | the handler stages elements of `W` |

The last two are the reason why lost and torn rows are the right exceptions: the
handlers look at the entity they have loaded and at nothing else, so a relation
between an old and a new row survives until the old row has been replaced, and a
relation between columns until the columns of two entities meet.

| Theorems | Inductive invariant, beyond the store's | Argument |
| --- | --- | --- |
| `AccountProofs`: `UniqueKeys`, `AlwaysLoadable`, `StaysDeactivated`, `AccountTypes` | `Inv`: `TaskFits` (what a handler holds at each step), `Reserved` (the keys of a registration that still looks for a slug are nobody else's), `Whole(Loadable)`, `Based(ActiveFrom)` | e-mail and slug never change, so uniqueness is decided by the INSERT; each handler stages a readable subscription and makes an active user of an active one only |
| `OldAccessEnds` | `AccessOK`: a pair says what its user's row says, or was issued no later than the last change of it (`changedAt`) | a change sets `changedAt` to the clock; a refresh reads the row; an access token issued before the change ends one lifetime after it |
| `WholeOwners`, `ToldTheStatus` | `Promises`: also for the versions that open transactions have staged or written, and for the notice they will send | user and subscription are inserted by one flush; the notice and the row end in one COMMIT |
| `ResourceProofs`: `SoundAggregates`, `NoTypeMissing`, `UniqueSlugs`, `FittingAttributes`, `ResourceTypes` | `Inv`: `Whole(Accepted)`, `Typed` (the type of every row, committed or written, is there and is being deleted by nobody), `Fitted`, `Recorded` (all versions of a schema) | each command re-checks the parts it relates; `SoundParts` shows that the checks on windows and pairs of rules imply the statement about every time of the week; the foreign key excludes a DELETE from an INSERT in either order |
| `RatingProofs`: `OneRating`, `ShownSent` | `Whole(Sent)` | as above; `Sent` grows, so a version stays in it |
| `OwnerAverageIsClose` | the types of the ratings (`StoreGood`); any set of listed resources | rounding moves a quotient by half a tenth at most (`Rounding`), so each resource adds at most half of its number of ratings to the error of the weighted sum, and the last rounding adds as much again; `TotalIsSum` and `WeightIsSum` turn the owner's sums over resources into sums over ratings |
| `InboxProofs`: `ReadOnce` | `Based(FromUnread)` | `mark_read` returns a read notification as it is |
| `EachShownOnce` | `PassInv`: `Few` (rows are finite), `Marks` (a read mark is never written away), `Turned` (what a pass has shown is newer than its cursor) | the place of a notification in a page is the number of newer ones (`NewestFirst`), so the sorted page exists and continues where the last one ended, without induction over sequences |
| `PublicPagesProofs`: `ShownAllowed`, `VisibleListed` | `PagesInv`: what each SELECT has found was true when it was read, and what is true all the time was found by each | `PushedByNewer`: what `LIMIT` cuts off is pushed by a full page of newer ones, by well-founded induction on finite sets |
| `SlotGridProofs`: `OpenFromEndToEnd`, `OffersCanBeRequested`, `FreeAsShown` | `GridInv`: `Checked` (what the request has found of every booking), `Told` (what the last agenda says of the bookings there are) | `SlotTimes`: a slot divides the day, so a slot on the grid lies in one day and between two multiples of its duration; `OpenToTheEnd`: so do windows, and a slot whose first moment is open is open to its last; `SteadyClock`: instants and wall-clock times differ by a constant |
| `CrashesAreExplained` | `Blamed`: why the last call crashed | `PartCostsLess`: prices are natural numbers, so the slot that exceeds the maximum is no dearer than the range |
| `PriceAsShown` | `Priced`: an offer costs what its slot costs | `LongSlots`: between slots as far apart as whole slots are, none is shortened by the clock; `RangesTile`: then they are the steps of the walk of `compute_price`, in any order; `SumRenamed`: so the two sums have the same terms |

They assume what the modules name: `KeyAssumption`, `SeedAssumption`,
`IdAssumption`, `InboxAssumption` and `PagesAssumption` say that the tables have
disjoint keys, that `NoRow` and `Gone` are no rows, and that the database starts
with rows of its tables that do not clash; `InputAssumption` that windows are
pairs of numbers and rules and custom attributes are lists.  Nothing is assumed
about the inputs being valid.  `KeyAssumption` of `Ratings` says that there are
finitely many ids to draw from (they are 128-bit UUIDs).  `GridAssumption` says
that the resources are such as the factories accept (`ScheduleAccepted`,
`RulesAccepted`, prices up to `Money.MAX_CENTS`); the zone is arbitrary.

Three of these proofs need a sum over a set or a page of a list, which the code
and the model define by recursion.  Induction over data is done with `Smallest`
and `WFMin`: of the finite sets that are counterexamples, one contains no other.
`SumExists` shows in this way that the recursion behind `MapThenSumSet` has a
solution, and `SumOfParts` that its order does not matter.  These lemmas stand
in both `RatingProofs` and `SlotGridProofs`, which are about different state
machines and share no module.

A proof attempt corrected one property.  `PriceAsOffered` used to be stated of
all offers in a range.  With slots of 30 minutes and a clock moved forward by 75
that is false, as TLC then showed: slots of the skipped time overlap later ones.
It is now stated of slots that do not overlap.

Each property and each invariant was first checked by TLC on the instances of
section 5.

### Only model-checked

Every property but the liveness ones that a passing run checks is also a theorem.  What is left to TLC
is liveness (`EveryRequestEnds`, and the violation run `JobNeverCommits`) with
the fairness and ENABLED it needs, which are out of the prover's reach, and
`RaceTerminal` and `DuplicateRequests`, counterexamples.

## 7. Findings

Three violation runs contradict a statement of the repository, quoted in
`PROJECT.json`: entities are written back without version or lock, so that
concurrent decisions overwrite each other (`RaceTerminal`); natural dedup takes
no lock, so that a customer can file one slot twice (`DuplicateRequests`); and
the expiry job does not commit (`JobNeverCommits`; the trial job has the same
shape).  `RejectedOnce` contradicts plan-08 section 6.3 in the same way as
`RaceTerminal` (section 2, overlapping transactions): of two rejects at once, the
second does not fail.

The exceptions in the properties of the other modules name the rest: torn and
lost rows (section 3), an owner promoted without slug and subscription
(`OwnersComplete`), a listing that misses an owner who goes from TRIALING to
ACTIVE between its two SELECTs (`VisibleIsListed`), starts off the minute
(`BookedIsOpen`), an agenda that fails in the spring night
(`CrashNeedsClockChange`), bookings that overlap the last slot of an agenda but
not its range (`AvailableIsFree`).  Each exception is needed: without it TLC finds
the case on the instances of section 5, with two additions: it takes slots of 45
or 90 minutes, which do not divide the hour, to break `OfferIsAccepted` and
`AvailableIsFree` in the autumn night.

## 8. Not modelled

Not modelled because nothing in them changes state or because a model would say
nothing: DTOs and the routes' translation of requests, error texts, the
validation of single texts and numbers (slugs, e-mails, full names, money), the
hashing of passwords and the signing of tokens, Redis, logging, settings,
migrations other than the constraints above, the smoke and seed scripts.  Of the
read side, the plain lookups and offset pages (`list_my_bookings`,
`list_public_ratings`, the administrator's lists) are single SELECTs and left
out.  The order of commit and response is decided by the framework's version and
left open (see the hazards).
