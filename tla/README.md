# Verification of the Miden note transport node

TLA+ models of the note transport node (`crates/node`), TLC runs over small
instances of them, and TLAPS proofs for all instances. Paths below are relative
to `src/crates/node/src/` unless they start with `docs/` or `bin/`.

The node keeps private notes for clients that are offline. Senders call
`SendNote`; recipients poll `FetchNotes` with a list of tags and a cursor, and may
subscribe to one tag with `StreamNotes`. Notes live in one SQLite table and are
deleted after a retention period.

## 1. Inventory

| Part | State it keeps | Operations | Module |
|---|---|---|---|
| Note table, `database/sqlite/mod.rs`, `models.rs` | rows (`seq`, `id`, `tag`, `created_at`, payload), the AUTOINCREMENT entry | `store_note`, `fetch_notes(_by_tags)`, `cleanup_old_notes`, `note_exists` | `NoteTable`, `NoteTransport` |
| Statistics, `sqlite/mod.rs:216` | none; two counts in two snapshots | `get_stats` | `NoteTransport` |
| Pool and write lock, `sqlite/mod.rs:42-116` | at most 16 connections, one write transaction | `transact`, `query` | `NoteTransport` |
| Connection set-up, `connection_manager.rs`, `migrations.rs`, the SQL of the migrations | schema, list of applied migrations, journal mode | `create`, `recycle`, `apply_migrations` | `ConnectionSetup` |
| Handlers, `node/grpc/mod.rs` | one future per request | `send_note`, `fetch_notes`, `stream_notes`, `stats` | `NoteTransport`, `Streamer` |
| Retention task, `database/maintenance.rs` | the loop, its sleep | `step` | `NoteTransport` |
| Streamer, `node/grpc/streaming.rs` | tracked tags with a cursor each, subscribers, wakers, channels | `add_sub`, `remove_sub`, `update_waker`, `query_updates`, `forward_updates` | `Streamer` |
| Subscriptions (`Sub`) | receiver of updates, sender of control messages | `poll_next`, `Drop` | `Streamer` |
| Polling clients (outside the repository) | persisted cursor, imported notes | fetch, import, persist | `NoteTransport`, `Mailbox` |
| Node wiring, `node/mod.rs`, `grpc/mod.rs:116-128`, `bin/node/src/main.rs` | the tasks, the permits of the concurrency limit | start, concurrency limit, timeout layer | `NoteTransport` (restart, timeout), `RequestMetrics` (limit, timeout) |
| Metrics, `metrics.rs` | counters, histograms of durations and of sizes | `RequestTimer`: start, `finish`, `Drop`; sizes, cursor resets | `RequestMetrics` |
| Logging, command line, errors, generated protocol code | none that others read | | not modelled |

How they interact: handlers, the retention task and the streamer share the pool
and call into the table; handlers and `Sub`s send control messages to the streamer
through one bounded channel, with `try_send` only; the streamer sends updates to
each `Sub` through a bounded channel of its own and wakes it with a waker that the
`Sub` has sent before; every request passes the concurrency limit and, inside it,
the timeout layer; a timer runs beside every handler and every database call;
clients interact through requests and replies only.

What is hard here, in the order the work was planned:

- **Order.** Inserts, fetches over many tags, and deletes run concurrently, and
  a client forgets everything below its cursor. A note that becomes visible below
  a cursor is lost without an error anywhere.
- **Abandoned work.** The timeout layer drops handlers at any `.await`, but the
  blocking closure that holds the connection runs on to its commit. Senders retry.
- **Stale values.** `created_at` and the cleanup's cutoff are read before waits of
  unknown length; migrations are listed before the transactions that run them; the
  second count of `Stats` is taken after the first one may have become untrue.
- **Bounded resources.** Connections, the write lock, request permits, the control
  channel, the channel of each subscription.
- **Wakers.** An update goes to a subscription only if its waker has arrived.
- **Liveness.** The streamer's period is restarted by every control message; the
  retention task is restarted by every error; a request waits for its permit
  outside the timeout layer.
- **Scopes.** A timer records when it goes out of scope, on every path there is.

The full list of hazards, each at its line and with the properties that cover it,
is in `PROJECT.json`.

## 2. Modules

```
NoteTable            operators on the table: NextSeq, Batch, IsResponseCursor, OlderThan
  NoteTransport      handlers, pool, write lock, retention task, statistics, polling clients
    Mailbox          the abstract promise to a polling client (INSTANCE, refined)
  Streamer           the streaming task and its subscriptions
    NoteFeed         the abstract promise to a subscriber (INSTANCE, refined)
ConnectionSetup      what a connection does before it is handed out
RequestMetrics       the concurrency limit, and what the metrics say of the requests

NoteTable_proofs, NoteTransport_proofs, Mailbox_proofs, Streamer_proofs,
NoteFeed_proofs, ConnectionSetup_proofs, RequestMetrics_proofs    lemmas and theorems
FiniteSetLemmas      largest elements of finite sets, without induction
MCNoteTransport, MCStreamer, MCConnectionSetup                    instances for TLC
```

Operators called "Mistake: ..." sit before some definitions. Each is a plausible
slip in the definition that follows it; no specification uses them. Putting one in
the place of the definition makes TLC report the property that `PROJECT.json` pairs
it with, which shows that the property depends on that piece of code.

### NoteTable

The columns the operations read. `NextSeq` is AUTOINCREMENT: the next value of the
entry in `sqlite_sequence`, whatever rows are left. `Batch` is the SELECT with
`tag IN`, `seq >`, `ORDER BY seq` and `LIMIT`; `EffectiveCursor` is the reset of
cursors from the time-stamped schema; `IsResponseCursor` is the maximum the handler
returns, as a predicate, so that it can be reasoned about without induction.

### NoteTransport

A handler is cut at each `.await`, a write transaction where it takes the write
lock. A `SendNote` goes from `new` to `waiting` (for a connection, with `created_at`
already stamped), `running` (the closure is on a blocking thread), `inserted` (the
INSERT ran, the lock is held) and `done`. `answer` belongs to the handler and
`phase` to the closure: `SendDropped` sets one and leaves the other alone, because
`interact` runs its closure to the end. A fetch likewise leaves an orphan that
holds its connection until `OrphanReadEnds`; so do the streamer's reads, which share
the pool (`StreamerReads`; what they read is in `Streamer`). In the code the pool
takes back the connection of a dropped handler at once, and `interact` makes whoever
gets it next wait for the closure; in the model that user waits for the connection.
Either way it starts after the closure has ended. A request with no tags is answered
without a connection (`Queries`); one with too many tags is refused before anything
changes, which is a stuttering step. `FetchDropped` also stands for a lost
reply and for a client that dies between importing and persisting. `Restart`
keeps what was committed and drops the rest. `StoreBusy` and the first disjunct of
`CleanupFails` are `busy_timeout` running out.

A read is a single step, because in WAL mode one SELECT sees one snapshot and its
answer depends on nothing after it. `Stats` is two of them on one connection,
outside a transaction: `CountRows` counts the rows first and the tags in a second
step, and anything may commit between. A client asks only with its persisted
cursor, as `docs/external/src/users.md` tells it to. Times are ticks; a note is
stamped and a cutoff computed from the same clock, which does not go back.

The safety of this module is one invariant, `IInv` (section 5), and a refinement:
with `rows \cup expired` as what was posted and the effective cursors as positions,
the node implements `Mailbox`, where a reader never moves over a kept message of
its own that it does not hold.

### Streamer

The loop is a `select!` over two futures. A control message that wins drops
`query_updates` wherever it is, in its sleep or between two reads; so every
`Handle...` action ends with `NextRound`. `ReadTag` is the fetch for one tag, and
notes may be stored between two of them; `QueryFails` is the `?` on the fetch that
throws away the updates of all tags. `ForwardUpdates` is the body of the first
branch as a whole: the cursors move, updates go to the subscribers whose waker is
there, and those whose channel is full or closed are removed. There is no `.await`
in it, so it is atomic towards control messages; a `Sub` may drain its channel at
the same time, which only changes whether a full channel was full. The table changes
under the streamer at any moment: `StoreNote` and `Cleanup` are the commits of a
send and of the retention task, between two reads of a query and between its last
read and `ForwardUpdates` too. A cleanup may take any rows, the newest included,
because notes are stamped before they wait for the write lock; a deleted note may
be sent again. What was deleted is kept in the history variable `deleted`.

`parked[s]` is whether the task that polls `s` waits to be woken. It is woken by its
own waker, by the end of its channel and, as h2 may, without cause
(`SpuriousWake`). A `Sub` that gets no room for its waker ends its stream; `DropSub`
makes one attempt at `RemoveSub`. `HandleOther` is a control message of some
subscription the model does not follow: for the subscriptions it does follow, it
restarts the loop.

### NoteFeed

What a subscriber may rely on, with `posted`, `expired`, `delivered` and `ended`
only. A delivered batch is a stretch of the subscriber's notes between two
positions, with none left out but such as have expired (and expired ones may still
be in it), and comes after everything delivered before. Between two
batches notes may be missing, since the code passes over a subscription that has
not parked; a feed that promised more would not be implemented (`stream_gap`).
`Streamer` implements it with `posted` mapped to the rows there ever were, `expired`
to `deleted`, what was delivered to the notes of each update and `ended` to the
states in which the stream is over.

### ConnectionSetup

Every new connection switches the file to WAL, then sets `busy_timeout`, then lists
the pending migrations, then runs each in a transaction with the row that records
it. Another connection may have run a migration since it was listed; then the SQL
or the primary key of `__diesel_schema_migrations` refuses it, the transaction is
rolled back and whoever asked the pool gets an error. The file is new, or was left
by any earlier version.

### RequestMetrics

A request waits for a permit (`Enter`), counts itself, waits for its database call,
and leaves by `Reply` or `DropHandler`; both give the permit back although the
closure may run on. `Finish` and `Abandon` are the two ends of a `RequestTimer`:
`finish` takes `&self`, so the record of the drop follows that of `finish`. The
timer of a cleanup lives on through the ten minutes' sleep, and that of a streamer
query ends with the query, also when a control message drops it. The sizes of a note
are recorded as its request is counted, those of a reply after `finish` (`Measure`),
and a fetch with a cursor of the old schema is counted a second time (`Resets`).

### Mailbox

`Post`, `Expire`, `PickUp`, `Move`, with no tables or requests.

## 3. Runs

| Run | Asks | Result |
|---|---|---|
| `fetch_order` | `NoLeapfrog`, `IInv`, `RetentionRespected`, `PollsAdvance`, `BacklogIsServed`, `ImplementsMailbox`, `TypeOK`: is any note ever below a cursor without having been imported, does a client make headway, and is the whole a mailbox? | holds, 5.4 million states |
| `send_retries` | `AckedIsStored`, `DuplicateMeansStored`, `StoredOnce`, `StatsAgree`: are answers true when sends race with their own retries, and how far may the counts of `Stats` be apart? | holds, 3.0 million states |
| `delivery` | `SendEnds`, `OldNotesGo`, `StoredIsDelivered` under fairness, with one connection for everybody | holds, 48 000 states |
| `legacy_client` | `StoredIsDelivered` for a client with a cursor of the old schema and a backlog larger than a page | violated |
| `stream_order` | `InOrderOnce`, `OneUpdatePerWaker`, `ParkedIsKnown`, `NewNotesAreAhead`, `WaitingMissNothing`, `WaitsUntilSent`, `ImplementsFeed`, `TypeOK`: is a stream in order, is nothing passed over that a subscription waits for, and will a new note be found, while subscribers come and go and rows are deleted? | holds, 3.9 million states |
| `stream_fair` | `WaitingIsServed`, `ClosedIsRemoved`, `StopEndsStreams`: is a parked subscription given the next note unless it is deleted first, is a closed one removed, and do streams end with the server? | holds, 308 000 states |
| `stream_gap` | `CursorWasForwarded`: is a tag's cursor what was forwarded? | violated |
| `stream_starved` | `WaitingIsServed` when other subscriptions keep sending control messages | violated |
| `stream_lost_removal` | `ClosedIsRemoved` with a control channel that can fill up | violated |
| `conn_setup` | `ReadyMeansMigrated`, `NotesKept`, `RefusedOnlyIfRun`, `PositionsKept`, `EveryoneConnects`, `TypeOK`: do connections that migrate one file at once leave it whole, and does every one open in the end? | holds, 8 900 states |
| `metrics` | `PermitsAddUp`, `EndedIsMeasured`, `OkIsTrue`, `RequestsEnd`, `TypeOK`: on every path out of a handler, does the permit go back, and is what was counted also measured, truly? | holds, 190 000 states |
| `metrics_twice` | `RecordedOnce`: is a request recorded once? | violated |

### What the violations show

- **A legacy cursor is never replaced** (`legacy_client`). It is read as 0 for the
  query (`sqlite/mod.rs:160`), but the response cursor starts from the cursor of
  the request (`grpc/mod.rs:261`) and only grows. The client gets its first page
  forever. With a backlog that fits a page the client does get everything, again
  at every poll: `delivery` checks that.
- **Updates are skipped, not dropped** (`stream_gap`). A subscription between two
  polls has no waker in the manager, is passed over, and its tag's cursor moves on.
  It can happen to one that was parked when the note was stored: an update that was
  read before uses up its waker, and the next query may come before its next waker.
  `WaitingIsServed` is stated so as to leave out this case.
- **The period is restarted** (`stream_starved`) by every control message, a busy
  node's wakers among them.
- **A removal can be lost** (`stream_lost_removal`) when the control channel is
  full, and nobody looks for the subscription again until an update is sent to it.
- **A success is recorded twice** (`metrics_twice`), once as "ok" and once as
  "dropped" with the rest of the timer's scope. `EndedIsMeasured` is what does not
  depend on it: an operation that is over has at least one record, and not two of one
  status. It would hold of a `Drop` that leaves finished timers alone, and fails
  without `Drop`.

Smaller disagreements that need no run: the size limit counts the header too
(`grpc/mod.rs:158`), where `docs/external/src/users.md:156` and
`docs/external/src/operators.md:46` speak of the details; migrations run when the
first connection is opened, where `operators.md:116` says at startup; the
concurrency limit counts requests that are being answered and no open streams,
where `operators.md:47` says connections.

### Bounds, and why they are enough

- `fetch_order`: three notes, each with a tag of its own; the client asks for two of
  the tags, one of them repeated in the request, so that a row of a tag it did not ask
  for may lie before, between or after those it wants. A page of one row, so a fetch
  is always cut short when two rows match; two connections, so that two closures
  overlap while others wait; retention 0 and a clock that ticks once, so that the
  newest row is deleted while a later insert is under way; two faults, which allow a
  timeout and a lost reply, or a crash on top of either. Two sends of one note are the
  matter of `send_retries`; a fourth send here takes the run past ten million states.
  Every mistake paired with these properties shows within these bounds.
- `send_retries`: four sends and a `Stats` request beside a client that asks for no
  tags, because answers do not depend on what is fetched. One note is malformed, one
  over the limit.
- `delivery`: one connection is the hardest case for waiting. One fault, because
  liveness is about what follows the last one.
- `stream_order`: the control channel holds two messages and a subscription's
  channel one update (128 and 32 in the code), so that both fill up. Two
  subscriptions of one tag, which lets the tag leave the map and come back; two
  notes and a page of two, so that there are updates of one note and of two, and a
  cleanup, so that the newest row is gone when the next note is stored; one poll
  without cause, which is what fills a channel. No read fails and the server does not
  stop in this run: `WaitingIsServed` covers failed reads in `stream_fair`, and for the
  safety properties of `stream_order` only the proofs do, as they do three notes and
  more. The two subscriptions and the
  two notes are alike, and the run uses that symmetry; it has no liveness property.
- `stream_fair`: the control channel has room for every message the subscriptions
  can have in it, since the full channel is the matter of `stream_lost_removal`.
  Two tags, so that a failed read of one finds the other already read. One note,
  which is the one that is waited for; what a later one changes is the matter of
  `stream_gap`.
- `conn_setup`: three connections, so that two lists of pending migrations are
  stale at once; two notes in the file, to be put in order; two faults.
- `metrics`: three requests and two permits, so that one waits for the others; two
  rounds of each background task, so that a timer follows one that was dropped.

Deadlock is checked except in `stream_fair`, where the server stops; in
`conn_setup`, where nothing is left to do once all are connected and the note is
stored; and in `metrics` and `metrics_twice`, which end when all requests are
served and the rounds used up.

## 4. Fairness

- tokio runs tasks that are ready and the blocking pool runs closures: weak
  fairness of every step of a handler, a closure, the streamer and a `Sub`.
- The pool's semaphore is first come, first served: strong fairness of
  `StartStore`, `StartRead`, `StartStats` and `StartDelete`, whose guard others may
  disable.
- A write that finds the lock taken waits in `busy_timeout` and gets the lock or an
  error: weak fairness of `InsertNote \/ StoreBusy`. For the retention task, strong
  fairness of `DeleteOld`: the lock is free between any two inserts, there are
  finitely many in the model, and the task retries at once.
- Clients keep polling, and a client whose request was dropped asks again.
- In `RequestMetrics` the permits go round in order (strong fairness of `Serve`) and
  the timeout layer drops what takes too long (weak fairness of `DropHandler`).
  Nothing is assumed of the pool, of SQLite or of a closure: `RequestsEnd` holds
  while every closure hangs.
- In `ConnectionSetup` a connection that was begun goes on, and whoever got an error
  asks the pool again: weak fairness of `SetupStep`.
- Nothing is assumed of clocks, faults, disconnections, stores or, in `Streamer`,
  cleanups.
- `select!` picks among ready branches at random, so neither the timer nor a
  control message is preferred for good; but a branch that is not ready at the time
  has to start over, which is why `stream_starved` is no matter of fairness. That
  starvation is a matter of liveness: `WaitsUntilSent`, a safety property, holds in it.

## 5. Proofs

For every set of notes, tags, calls, clients, subscriptions and connections, every
page, pool, channel and permit size, retention, period, clock and number of faults,
from the named assumptions on the constants alone. Those that are more than types:

- `ClientAssumption`: a client starts at 0 or with a legacy cursor, that is, has not
  made one up;
- `ThresholdAssumption`: no more notes are ever stored (in `NoteTransport` one for
  each call at most, in `Streamer` `MaxStored`, notes stored again included) than
  `LEGACY_CURSOR_THRESHOLD`, which the code chose to lie two orders of magnitude above
  any plausible `seq` (`sqlite/mod.rs`, the comment on the constant); beyond it a
  position would be taken for a timestamp and read as 0;
- `MetricsAssumption`: finitely many requests, each of one kind.

| Module | Theorem | Says |
|---|---|---|
| `NoteTransport_proofs` | `TypeCorrect` | `[]TypeOK` |
| | `Invariant` | `[]IInv` |
| | `NothingLeapfrogged` | no stored note is below a cursor without having been imported |
| | `AcknowledgedIsStored`, `DuplicateIsStored` | "ok" and "duplicate" are true |
| | `NothingTwice` | `id` and `seq` are unique |
| | `StatisticsBounded` | the two counts of `Stats` differ by at most what was stored between them |
| | `RetentionIsRespected` | no row leaves that is not older than the retention period |
| | `ClientsAdvance` | a client's position never goes back, and moves over what an answer brought |
| | `BacklogsAreServed` | a poll with notes ahead of it brings some |
| | `ReadsHaveAnswers` | a fetch under way has a cursor to return |
| | `MailboxImplemented` | the node implements `Mailbox` |
| `Mailbox_proofs` | `MailboxSkipsNothing` | a mailbox never lets a reader past a kept message of its own |
| `Streamer_proofs` | `InvariantHolds`, `TypeCorrect` | `[]IInv`, `[]TypeOK` with the capacities of the channels |
| | `StreamsInOrder` | no stream repeats a note or goes back |
| | `UpdatesCostWakers` | beyond the first, a channel holds no more updates than there were polls without cause, of any subscription |
| | `ParkedAreKnown` | no parked subscription is forgotten |
| | `NewNotesFound` | a note is stored ahead of every cursor of the streamer, whatever was deleted |
| | `WaitingAreSent` | what a tag's cursor passes goes to every subscription with a waker |
| | `WaitsEndInStream` | a note waited for stays the next one until it is in the stream |
| | `QueriesHaveAnswers` | each tag of a query has a cursor to move to |
| | `FeedImplemented` | the streamer implements `NoteFeed` |
| | `StreamsKeepOrder` | so `FeedKeepsOrder` holds of what `poll_next` hands out |
| `NoteFeed_proofs` | `FeedKeepsOrder` | a feed delivers in order, and a batch has no gap |
| `ConnectionSetup_proofs` | `FileStaysWhole`, `TypeCorrect` | `[]IInv`, `[]TypeOK` |
| | `ReadyIsMigrated` | no connection is handed out on a file that lacks a migration |
| | `NotesAreKept` | no note is lost or stored twice by migrations, races and crashes |
| | `RefusalsPass` | a migration is refused only if another connection has run it |
| | `MigrationsCanCommit` | the copy that numbers the rows works for every table |
| | `PositionsAreKept` | a position once given to a note never changes |
| `RequestMetrics_proofs` | `Accounted`, `TypeCorrect` | `[]IInv`, `[]TypeOK` with the permits between none and the limit |
| | `PermitsKept` | permits in use and requests being answered are one to one |
| | `EndedAreMeasured`, `OkTold` | what was counted and is over has a record, not two of one status; "ok" is true |

**NoteTransport.** `NoLeapfrog` is not inductive: a commit might add a row below a
cursor, and persisting might move the cursor over one. `IInv` adds why neither
happens:

- `SeqBounded`, `OneWriter`: the write lock makes the `seq` of the open insert the
  successor of the committed sequence entry, so it is above every row there ever
  was, deleted ones included;
- `CursorsBounded`: a cursor, persisted or in an answer, is 0 or the `seq` of a row
  that was committed, so the new row is above every cursor;
- `AnswerCovers`: an answer leaves out no wanted row between the cursor it was
  asked with and the one it returns, and stays so while rows are added (above) and
  deleted; this rests on `ResponseCursorCovers`, which rests on `BatchIsPrefix`:
  ORDER BY with LIMIT returns a prefix, shown with cardinalities;
- `NothingInvented`, `CutoffIsOld`: what the refinement and retention need.

Headway rests on the same facts read the other way. `PollsAdvance`: the response
cursor is at least the cursor of the request and every row of the page, and by
`ThresholdAssumption` it is no timestamp, so persisting it moves the position on.
`BacklogIsServed`: a page is a prefix of what matches, and a prefix of something not
empty is empty only if LIMIT is 0 (`EmptyPageMeansNothing`).

The mailbox then follows step by step: a commit posts, a cleanup expires, an import
picks up, a persisted cursor moves, and every other step stutters. The statistics
have an invariant of their own, `StatsInv`: between the counts the number of rows
has grown by at most the growth of the sequence entry, and there are never more
tags in use than rows.

**Streamer.** That a stream is in order says nothing of where the next update
starts. The invariant ties the three places an update passes through together:

- `CursorsStored`: a tag's cursor is 0 or the position of a note that is or was
  stored, hence below the next one (`TableInv`), and by
  `ThresholdAssumption` is never taken for a timestamp;
- `QueryInv`: each update of a query under way is the stretch of its tag's notes
  after the tag's cursor (`BatchIsPrefix` again), one for each tag; a note stored
  meanwhile comes after it, and one deleted meanwhile may be in it: `IsStretch` asks
  for all the rows that are left, and for none that never were;
- `StreamInv`: each update in a stream is such a stretch from some position, and if
  the manager still has the subscription it ends at or below the cursor that the
  next one starts from. The cursor of a tag that left the map goes back to 0; that
  is harmless because whoever is added to it has an empty stream, which is what
  `MessageInv` says of every subscription with an AddSub under way;
- `LoadInv`: updates waiting, wakers under way and the waker in the map are together
  at most one more than the polls without cause, and no more than those polls when
  the subscription is about to park, so parking never exceeds the bound;
- `ParkedInv`: `ParkedIsKnown`, preserved together with the above.

A delivery is then a `Deliver` of the feed, with the stretch's bounds and the deleted
notes it lacks as witnesses; a store is a `Post`; a cleanup is an `Expire`; the ways
a stream comes to its end are `End`. The theorem on feeds in general, `FeedKeepsOrder`,
is then read through the refinement (`StreamsKeepOrder`).

`WaitingMissNothing` compares a forwarding step with what it leaves behind: the cursor
of a tag moves to the end of an update, the update is by `QueryInv` all that is kept
up to there, and every subscription with a waker gets it unless it is removed in the
same step. `WaitsUntilSent` follows a note instead: control messages throw queries
away, never cursors, so the note stays on the tag's next page; the page it is on is
the one that is forwarded, since ids are unique in the table (`IdsStayUnique`).

**ConnectionSetup.** A list of pending migrations goes stale; `ListInv` says it can
be too long but never too short, and that a migration which was not refused is the
one the file lacks; with `FileInv` (the record of migrations is `1 .. schema`) and
`OneHolder` (SQLite's lock) the swap of tables runs once. Which of several numberings
by `created_at` the swap picks is left open; `OrderExists` shows that there is one for
any finite table: a smallest set of rows without one would have a newest row, and a
numbering of the others can be continued with it (`OrderGrows`).

**RequestMetrics.** `PermitsAddUp`: a permit is free or held by one active request.
`Balanced` is how this code's timers come out: every count is a drop or a timer in
scope, and every "ok" a drop, except while the retention task sleeps. `EndedIsMeasured`
follows from it, and is what a reader of the metrics may expect of any timer.
`OkIsSettled`: each "ok" of a send belongs to a different request that has ended and
whose closure has committed, which makes the bound by the committed notes inductive.

**Largest elements.** `IsResponseCursor`, a page and a numbering describe what the code
computes by a loop. That they exist is an induction over finite sets, and the induction
theorems of the library take an operator as a parameter, which the installed provers
cannot instantiate. `FiniteSetLemmas` goes around it: inclusion between finite sets is
well founded (a theorem without such a parameter), so a family of them has a minimal
member (`MinimalSet`); applied to the sets of larger elements this is `LargestNumber`
and `LargestValue`. So no handler of the models is disabled because a value it
chooses does not exist: `ReadsHaveAnswers`, `QueriesHaveAnswers`, `MigrationsCanCommit`.

Model-checked only: all liveness properties (`SendEnds`, `OldNotesGo`,
`StoredIsDelivered`, `WaitingIsServed`, `ClosedIsRemoved`, `StopEndsStreams`,
`EveryoneConnects`, `RequestsEnd`; fairness and ENABLED are beyond the prover).

## 6. Not modelled, and why

- `note_exists`: only tests call it.
- Rows that no longer decode: `NewNote` writes what `TryFrom<Note>` reads.
- The in-memory mode: one connection and nothing left after a restart. With
  `PoolSize = 1` and no `Restart` it is an instance of `NoteTransport`; with a
  restart its `seq` starts over below the clients' cursors, as the documentation
  warns.
- Wakers of removed subscriptions: `remove_sub` leaves them in `wakers`, and the
  model does the same. Nothing looks at them again, and no property bounds them.
- Updates of more than two notes: the page in `stream_order` has two. The proofs
  have no such bound.
- The values the metrics record: `RequestMetrics` keeps the numbers of records.
- A graceful shutdown: the node has none. `Server::serve` runs until the process is
  killed, and `StopServer` stands for what drops the `StreamerCtx`: a server task that
  ends with an error, or a test that drops it. `StopEndsStreams` is about that path.
- Open streams at the concurrency limit: a permit is given back with the head of the
  response, so a stream holds none.
- CORS, gRPC-Web, health and reflection layers, logging, the command line, generated
  code: no state that the above depends on.
- A client that adds a tag to its list and keeps its cursor misses older notes of
  that tag by design of the protocol; `AskTags` is fixed for each client.

## 7. Plan

Done: all modules above, and proofs of every safety property that a passing run
checks. What is left, in this order:

1. `NoteTransport` and `Streamer` each bring a table of their own. An abstract log
   that both implement (commits in the order of `seq`, deletions, reads of one
   snapshot) would state once what they rely on.
2. The in-memory mode as a second instance of `NoteTransport`, with a `Restart` that
   empties the table, and clients that reset their cursor as the documentation
   tells them to.
3. `WaitingIsServed` with several notes of one tag, which needs a smaller instance of
   everything else to fit a run. Its safety half, `WaitsUntilSent`, is proved for any
   number of notes.
4. A bound on the manager's wakers, once `remove_sub` takes them out.
