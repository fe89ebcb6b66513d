# Verification of FluxBar's core

FluxBar shows a Miniflux inbox in the macOS menu bar. A Rust core
(`rust-core`) keeps articles, read and starred state and the user's
undelivered wishes in SQLite, synchronises them with Miniflux over HTTP, and
serves a SwiftUI app (`macos/FluxBar`) through a C function that takes and
returns JSON. This directory holds TLA+ models of that core and of the app's
browser store, TLC configurations that check them on small instances, and
TLAPS proofs of the properties that matter most. Paths below are relative to
the repository.

Contents: [system](#the-system), [models](#the-models), [runs](#the-runs),
[bounds](#bounds-and-why-they-are-enough), [fairness](#fairness),
[proofs](#the-proofs), [disagreements found](#disagreements-found),
[what is not modelled](#not-modelled), [what is left](#what-is-left).

## The system

| Part | Source | State it keeps | Operations | Modules |
|---|---|---|---|---|
| Local store | `rust-core/src/persistence/store.rs`, `schema.rs` | `entries` (each field twice: `remote_*` as last seen on the server, and the column the user sees), `pending_mutations` (wish and revision), `undo_batches`, `undo_items`, `feeds`, `categories`, totals | one transaction each: `apply_snapshot`, `set_read`, `set_starred`, `pending`, `acknowledge`, `undo`, `discard_undo`, `local_snapshot` | InboxStore, Counters, Selections |
| Sync service, one per account | `rust-core/src/sync.rs` | `sync_gate`, the shared store's lock, `newest_first` | `sync`, `flush`, `flush_and_snapshot`, `mark_read`, `set_starred`, `undo`, `discard_undo` | SyncService; Inbox is its abstract specification |
| Gate and deadlines | `rust-core/src/sync.rs` (`StateLock`, `RemoteDeadlineGuard`), `remote/miniflux.rs` | the slot, its condition variable, `operation_deadline` | `lock_until`, `execute_with_deadline`, the drops of the guards | RemoteClient |
| Delayed flush | `rust-core/src/sync.rs` (`Scheduler`) | `deadline`, `worker_running`, a condition variable | `schedule_flush`, `run_scheduler` | Scheduler |
| Selection fetch | `rust-core/src/remote/miniflux.rs` | cursor, count, entries of one fetch | `fetch_complete_selection` | Pagination |
| Runtime | `rust-core/src/runtime.rs` | the session (account, generation, service), the store, weak references to services | `configure` and one handler per request | Runtime |
| Transport, dispatcher, FFI | `transport/`, `dispatcher.rs`, `ffi.rs` | none | decode, dispatch, catch panics, encode | Transport, CoreApi |
| Icon cache | `rust-core/src/icons.rs` | `cache`, `loads` under way | `feed_icon_with_deadline`, image processing | IconCache, IconImages |
| Domain, article text, texts | `domain/`, `article.rs`, `localization.rs` | none | pure functions | Selections, Navigation, Article, ArticleImage, Localization |
| Browser store of the app | `macos/FluxBar/BrowserStore.swift` | snapshot, selection, retained ids, four generations, the offered undo receipt, a 15-minute timer | navigation, refresh, mutations, undo | Browser |
| Scroll exposure | `macos/FluxBar/ScrolloverExposureTracker.swift` | exposure per row | `observe`, `processScroll`, `rebase` | none |

How they interact. The app calls the core from detached tasks, so several
requests run at once and are answered in any order. A request takes the
session's service when it starts and keeps it to the end, also when the app
configures another account meanwhile. Local operations take the store lock for
one transaction and then ask the scheduler for a flush; they never wait for the
network. `sync` and `flush` first take `sync_gate`, lend their deadline to the
client, and take the store lock for single transactions only; between them they
call Miniflux. `sync` is a flush, a browse and one `apply_snapshot`. The
scheduler's worker thread calls `flush` and keeps its service alive. Icons are
loaded with the same client, beside the gate. Other clients of the account
change Miniflux at any time.

What is hard about it, and what makes each part correct:

* **Store and sync service.** A wish may change while its older value is on
  its way; a reply may be lost after the server acted; stars can only be
  toggled; a request given up at its deadline may take effect later; a browse
  result may be older than a wish or a confirmation; the process may die
  between the server's change and its acknowledgement. Correct means: the user
  sees the pending wish, or without one what the server last said
  (`Agreement`); without unnoticed foreign changes that is what the server
  holds (`InSync`); nothing but a new wish changes a wish (`WishesStand`);
  every wish is confirmed in the end (`WishesConfirmed`); Undo never overrides
  a later manual decision (`UndoIntact`). All of it is one promise, the
  specification Inbox (`KeepsPromise`).
* **Counts.** They are stored apart from the articles, fetched in other
  requests, moved by confirmations, clamped at 0, and shown after the pending
  wishes are added. Correct means exact, from an undisturbed refresh on
  (`CountsExact`, `TotalsExact`).
* **Gate and deadlines.** Guards are dropped in an order that matters, one
  waiter is woken at a time. Correct means: requests keep their own call's
  deadline, no wake-up is lost, every call returns although the server does
  not answer (`RequestsKeepDeadline`, `NoLostWakeup`, `EveryCallReturns`).
* **Scheduler.** Commits race the worker's wait, its flush and its end. Correct
  means one worker, the earliest deadline, no lost wake-up, and a flush after
  every wish.
* **Selection fetch.** The selection changes between pages, and what a complete
  result leaves out is marked read. Correct means: only what was really absent
  at some moment is left out.
* **Runtime.** Configuring is slow and may finish out of order; an account's
  service must outlive a switch while its work runs, and be found again
  (`OneService`, `SessionIsLatest`, `WishesHaveAWorker`).
* **Icon cache.** Concurrent loads of one icon, with deadlines and failures
  (`OneLoad`, `WaitersGetTheIcon`).
* **Browser store.** Answers arrive out of order and may belong to another
  route; receipts must be offered or discarded (`ShowsWhatIsWanted`,
  `ReceiptsAccounted`, `MutationsKeepRows`).
* **Pure functions.** What a refresh asks the server for and what it then looks
  for in the store are decided in different files and must agree
  (`SelectionsAgree`); when a row is read the list must not move, and it does
  not, except that rows of one time may change places (`ListStandsStill`).

`PROJECT.json` lists every part (`components`) and every hazard with its line
(`hazards`).

## The models

### InboxStore.tla (store.rs)

Variables and operators only: each operator that primes variables is one
transaction, used as a whole by the module that extends this one. An article
has two mutable fields; a *cell* is `<<article, "read">>` or
`<<article, "starred">>`.

| Model | Code |
|---|---|
| `known` | articles that have a row in `entries` |
| `baseline`, `local` | `remote_status`/`remote_starred`, `status`/`starred` |
| `pending` | `pending_mutations`; revision 0 is "no row" |
| `batches`, `items` | `undo_batches`, `undo_items` |
| `SetReadManual`, `SetReadAutomatic` | `set_read` with `undoable` false and true |
| `SetStarred`, `Undo`, `DiscardUndo`, `Acknowledge`, `ApplySnapshot` | the methods of these names |
| `Disproved` | `reconcile_complete_selection` |
| `manual` | history: whose last read decision was a manual one |

Undo identifiers are a counter (`random_id` combines the clock and a counter;
a collision is not modelled). Titles and times are left out.

### SyncService.tla (sync.rs), extends InboxStore

Callers (threads) run `flush` or `sync`; `pc` says where a caller is:

    idle -> list -> send -> (toggle ->) ack -> send ... -> idle      flush
                                               send ... -> browse -> apply -> idle   sync

`Enter` takes `sync_gate` (a caller that gives up waiting has changed nothing
and is not shown). `ListPending` copies the pending rows once; each row is
sent by `SetReadBatch`, or by `EntryStarred` and, if the values differ,
`ToggleStarred`, and confirmed by `Ack`. `FlushFails` is any error at any
point, also after the server acted (phase `ack`): the reply was lost.
`AbandonRequest` gives a request up at its deadline; `LateRequest` lets it take
effect later. A flush that ends, in success or not, lets a refresh go on to
`Browse` and `Apply`; `RefreshFails` is `SyncResult::Partial` or a local error.
`MarkRead`, `ToggleStar`, `UndoRead`, `Discard` are the local operations, which
interleave with everything. `OtherClient` and `LateRequest` are external.
`Crash` forgets the threads and keeps the store.

Simplifications: the pages of a selection are one step (Pagination looks at
them); the rows of a flush are sent in any order (the code's order is the text
of a timestamp); a flush may start at any time (Scheduler says when it does).
`unseen` is a history variable: cells that something else changed on the server
since this process last wrote or applied them.

### Inbox.tla, what SyncService promises

Five steps over five variables, with neither revisions nor gate, flush or
restart: the user decides, a cell that waits is sent, a cell is confirmed when
the server holds what is shown, the inbox learns what does not wait, somebody
else changes the server. `SyncService!KeepsPromise` is its specification with
`shown <- local` and `wished` the cells with a pending row.

### Counters.tla, extends SyncService

Adds the stored numbers (`feeds.remote_unread_count`,
`accounts.remote_starred_total`, `selection_totals`) to every step of the
service: a refresh fetches counters, the starred total and the articles in
three requests (`UnreadCounters`, `StarredTotal`, `FetchArticles`),
`apply_snapshot` stores them, `acknowledge` moves them with the clamp at 0
(`AckCounts`), and `ShownFeed`, `ShownStarred`, `ShownTotal` are what
`local_snapshot` shows. `trusted` is history: the numbers that have to be
exact, that is, since a refresh none of whose cells anybody else changed
between its requests. Late requests are left to the other client, who changes
the same cells at any time.

### Scheduler.tla (schedule_flush, run_scheduler)

Time in ticks. `ScheduleFlush(delay)` is a commit and its `schedule_flush`,
which run under the store lock, with delay 0 (manual) or `Delay` (automatic).
`SpawnWorker`/`SpawnFails` are the thread start after the schedule mutex has
been released. `WorkerEnds`, `WorkerWaits`, `WorkerFlushes` are the branches of
one turn of the loop under the mutex, `WakesUp` a notification, a timeout or a
spurious wake-up, `FlushReturns` any outcome of the flush. `due` is history:
when the earliest wish that no flush has followed is due.

### Pagination.tla (fetch_complete_selection)

One fetch against a selection that changes between pages. `Verdict` is what the
code makes of a page: an error, a complete result or the need for another page.
`always` is history: ids that were in the selection during the whole fetch.

### RemoteClient.tla and IconCache.tla (StateLock, deadlines, icons.rs)

RemoteClient is a call of `flush` or `sync` seen from its waiting: `Look` is
one turn of `lock_until` under its mutex, `LendDeadline` and `DropDeadline` are
`RemoteDeadlineGuard`, `Request` is `execute_with_deadline`, `DropGate` puts
the value back and wakes one sleeper. IconCache extends it with the threads
that load icons: each action is the code between two of the cache's three
mutexes. The two share the clock, the threads and the client, and the run
checks them together.

### Runtime.tla, Transport.tla, CoreApi.tla

Runtime has the process-wide state: `configure` is `Configure` (what it prepares
unseen) and `Register` (its last critical section, with the search for a
service that still lives); other operations `Start` with the session's service
and end in `Answer`. `Live` is what `Arc` keeps alive: the session's service,
the calls' and the running workers'. `Panic` is `catch_unwind`. Transport
decodes members to fields as `request.rs` does: other letter cases, repeated
members, null and lists. CoreApi puts a text before each operation:
`FluxCoreRequest` decodes, dispatches and refuses.

### Browser.tla (BrowserStore.swift)

The actor's operations and the tasks they start. A task is queued, sent (its
request is built when it begins), answered by the core, and its answer handled;
`current` holds the generations it heeds that have not moved on since. The core
is external: it answers a request in one step from its own rows and undo
batches. It answers with all rows that are unread or retained, so
`MutationsKeepRows` is about what the browser makes of its answers; that the
limit of 200 rows can take a row out of an answer is in Rules. `wanted` is history, `lost` the receipts that failures cost.

### Selections, Navigation, Localization, Article, ArticleImage, IconImages; Rules

Pure definitions, and the modules that give them inputs: a state is one input,
and each invariant compares the translated algorithm with a definition of what
it is for, written independently of it (a scan instead of a search, characters
instead of a tree walk, and so on). Sorting has what `sort_by` and `ORDER BY`
promise, a sequence of given items in a given order; Selections (the snapshot
query) and Navigation are built on it. The walks through the nodes of a text
(Article, ArticleImage), splitting and joining lines, the sums of the navigation
and the filling of a template are recursive functions, since the provers can
unfold a function, not a recursive operator. Rules has the inputs, the definitions
of what the algorithms are for, and the invariants.

The snapshot query sorts by `published_at` and nothing else, and date-only feeds
bring many articles of one time. Which of those comes first is SQLite's choice:
`found`, one of `Plans(rows)`, numbers the rows in the order in which the plan
finds them and decides between equal times. Two snapshots may have two plans,
and the first retained row does change the plan, by its `OR`
(store.rs:934-945); so the properties compare the snapshots of any two plans,
and those of one.

A document is a sequence of nodes in document order, each with its parent's
number. Article's text of a node includes that of the siblings behind it, which is
how the loop over `node.children` becomes one recursive function over the numbers
of nodes. What html5ever makes of a text is outside of the model, and so is
`truncate(&collapse_whitespace(value))` for a text on which it panics. Localization
is `apply_count_template` only; which text of which language it is given is not
modelled.

## The runs

| Run | Instance | Shows |
|---|---|---|
| `sync` (Sync.cfg) | 1 article, both fields, 2 callers, unread and starred view, 2 revisions, 1 batch, 1 late request, another client that stars | `TypeOK`, `Agreement`, `InSync`, `WishesStand`, `KeepsPromise` (the refinement of Inbox) |
| `batches` (Batches.cfg) | 2 articles, read field, 2 batches, the unread view and one feed's | `UndoIntact`, and `InSync` where a listing's scope is not everything |
| `sync_live` (SyncLive.cfg) | 1 article, both fields, another client that stars, under `FairSpec` | `WishesConfirmed` |
| `counters` (Counters.cfg) | 2 articles in 2 feeds, one read and the other starred, another client that reads and unreads, views of a feed and of the stars | `CountsExact`, `TotalsExact` |
| `scheduler` (Scheduler.cfg) | a delay of 12 ticks, threads may be refused, under `FairSpec` | `TypeOK`, `SleepsUntilDeadline`, `OneWorker`, `DeadlineIsEarliest`, `FlushFollowsOrStranded` |
| `pagination` (Pagination.cfg) | 6 ids, pages of 2, articles leave and new ones join, under `FairSpec` | `AbsenceIsReal`, `FetchEnds` |
| `remote_work` (RemoteWork.cfg) | 3 threads in any mix of flushes and icon loads, 1 icon, a server that need not answer | `RequestsKeepDeadline`, `NoLostWakeup`, `OneLoad`, `WaitersGetTheIcon`, `EveryCallReturns` |
| `core_api` (CoreApi.cfg) | 2 callers, 2 accounts, 2 generations, 3 services, 13 texts of every form | `TypeOK`, `OneService`, `SessionIsLatest`, `WishesHaveAWorker`, `BoundaryIsRuntime` (CoreApi implements Runtime), `EveryCallAnswered` |
| `algorithms` (Algorithms.cfg) | every input within the bounds | `SelectionsAgree`, `ListStandsStill`, `NavigationCounts`, `TemplateFilled`, `PreviewIsFaithful`, `FirstImageTaken`, `IconFits` |
| `browser` (Browser.cfg) | 2 views, 2 articles, 2 requests at a time, 2 receipts and failures together | `ShowsWhatIsWanted`, `ReceiptsAccounted`, `MutationsKeepRows` |
| `browser_retention`, `pagination_rejoin` | see [below](#disagreements-found) | each finds one disagreement |

Every property of a passing run has a mutant in `PROJECT.json`: a plausible bug
in the modelled code (the operators named `...AnyRevision`, `...Ignored`,
`...Never` and so on, next to the definition they change) with which TLC finds
the property violated.

Deadlock is not checked where the system may stop: `pagination` ends when its
fetch has ended, `remote_work` when the clock has reached its bound, and
`core_api` when nobody calls any more (an answer may be kept for ever).
Everywhere else it is.

## Bounds and why they are enough

* `MaxRevision = 2`: a wish, and a newer one while the first is being sent. A
  third behaves as the second: only equality of revisions is ever tested.
* One article in `sync`: cells of different articles meet only in the pending
  list, in undo batches and in the scope of a listing; `batches` has two
  articles for the last two. The proofs hold for any number.
* Two callers: the third would wait at the gate as the second does; the waiting
  itself is in `remote_work`, with three threads, so that one holds the gate,
  one was woken and one still sleeps.
* Another client changes stars in `sync`, the field that a toggle can get
  wrong; read cells are changed from outside by late requests.
* `MaxLate = 1`, `MaxBatch` 1 or 2: one late request against one flush in
  progress; two batches so that one is undone while the other stays.
* `counters` starts (`MCInit`) with the first article starred and the second
  unread; nobody changes these two cells, so they only add to the counts. It
  has a feed with a counted article and one without, and a selection of each
  kind of total. A count that nobody trusts any more can drift upwards (it is
  clamped below, so down and up do not cancel); `MaxCount` cuts that off, and
  every count that is trusted stays below it.
* Scheduler: every order of deadlines relative to the clock occurs with any
  delay of two ticks or more; the number only scales the instance. Two workers
  are enough to see a second one, which never comes to exist.
* Pagination: three to four pages, the last one short, full or empty.
* `remote_work`: deadlines of one tick and a clock of two, so that a call can
  start before and after another's deadline. A request's own timeout (four
  ticks) is longer than any deadline, which makes the deadline the binding one
  as for a request late in a call.
* `core_api`: three services for two accounts and two callers: the session's,
  one that an old call or worker holds, and a candidate. Register waits when
  all three live, which the code does not; more services only repeat accounts.
  The proofs hold for any number that leaves a candidate.
* `browser`: two requests at a time are enough for any two answers to be
  swapped; a second view without articles shows answers of the wrong view.
  `MaxEvents = 2` allows two receipts (an offer replaces an older one), two
  failures, or one of each; the proofs need no bound.
* `algorithms`: texts of four nodes, three elements and an enclosure around
  images, templates of six tokens, three rows of the store in every plan, three feeds in two
  categories that may share an id, icons of 8 to 16 pixels from images up to
  40 by 40. The rows are of two feeds and two times, so that a pair of equal ones
  lies within the limit (1 or 2), across it or behind it, with a third row
  before, among or after them; any of them may be retained. All of it is proved for every size, too; within these bounds the
  mistake of each mutant shows.

## Fairness

`SyncService!FairSpec`: a refresh is asked for again and again (strongly fair:
the 15-minute timer of BrowserStore, whose call waits at the gate); each call
ends (weakly fair steps: every call has a deadline); a step that is tried
again and again succeeds at times (strong fairness of listing, of each cell's
sending, toggling and confirming). The last part is an assumption about the
network and the server, not about the code; without it nothing can be
delivered. It is not true of a row that the server always refuses, which then
blocks the rows behind it: see the hazards.

`Scheduler!FairSpec`: threads run; flushes return (30 s deadline); time
passes. Spurious wake-ups are allowed but do not stop time.

`Pagination!FairSpec`: the fetch starts and a page is answered, in some way.

`IconCache!Spec`: threads that can go on do, and time passes. The server need
not answer: `Answered` and `IconAnswered` have no fairness, only their timeouts
have.

`CoreApi!ApiSpec`: threads that can go on do, where waiting for a gate can
always be given up (its deadline, which RemoteClient models). Nothing makes a
caller call or free an answer.

## The proofs

Each holds for every value of the constants that meets the named assumptions of
its module.

| Module | Theorem | States |
|---|---|---|
| `SyncServiceProofs` | `TypeCorrect` | `Spec => []TypeOK` |
| | `AgreementHolds` | `Spec => []Agreement`, for callers that act as the app does |
| | `InSyncHolds` | `Spec => []InSync`, for the same callers |
| | `WishesStandAlways` | `Spec => WishesStand`, for the same callers |
| | `UndoIntactHolds` | `Spec => []UndoIntact` |
| | `KeepsPromiseHolds` | `Spec => KeepsPromise`, for the same callers: SyncService implements Inbox |
| `RuntimeProofs` | `TypeCorrect` | `RuntimeSpec => []TypeOK` |
| | `OneServiceHolds` | `RuntimeSpec => []OneService` |
| | `SessionIsLatestHolds` | `RuntimeSpec => []SessionIsLatest` |
| | `WishesHaveAWorkerHolds` | `RuntimeSpec => []WishesHaveAWorker` |
| | `BoundaryHolds` | `ApiSpec => BoundaryIsRuntime`: CoreApi, the C function, implements Runtime |
| | `ServedSafely` | the four invariants above, of `ApiSpec` |
| `CountersProofs` | `CountersKeepTheService` | `CountersSpec => Spec`: counting changes nothing else of the service |
| | `CountsExactHolds` | `CountersSpec => []CountsExact`, for callers that act as the app does |
| | `TotalsExactHolds` | `CountersSpec => []TotalsExact`, for the same callers |
| `SchedulerProofs` | `TypeCorrect` | `Spec => []TypeOK` |
| | `OneWorkerHolds` | `Spec => []OneWorker` |
| | `SleepsUntilDeadlineHolds` | `Spec => []SleepsUntilDeadline` |
| | `DeadlineIsEarliestHolds` | `Spec => []DeadlineIsEarliest` |
| `RemoteWorkProofs` | `RequestsKeepDeadlineHolds` | `Spec => []RequestsKeepDeadline` |
| | `NoLostWakeupHolds` | `Spec => []NoLostWakeup` |
| | `OneLoadHolds` | `Spec => []OneLoad` |
| | `WaitersGetTheIconHolds` | `Spec => []WaitersGetTheIcon` |
| `PaginationProofs` | `AbsenceIsRealHolds` | `Spec => []AbsenceIsReal`, while no old article rejoins |
| `BrowserProofs` | `ShowsWhatIsWantedHolds` | `Spec => []ShowsWhatIsWanted` |
| | `ReceiptsAccountedHolds` | `Spec => []ReceiptsAccounted` |
| | `MutationsKeepRowsHolds` | `Spec => MutationsKeepRows` |
| `RulesProofs` | `SelectionsAgreeHolds` | `RulesSpec => []SelectionsAgree` |
| | `IconFitsHolds` | `RulesSpec => []IconFits` |
| | `ListStandsStillHolds` | `RulesSpec => []ListStandsStill`, for rows that may share their times |
| | `MarkedRowMayLeave` | with equal times, a marked row can be missing in the next list: the exception in `ListStandsStill` is real |
| | `NavigationCountsHolds` | `RulesSpec => []NavigationCounts` |
| | `TemplateFilledHolds` | `RulesSpec => []TemplateFilled` |
| | `FirstImageTakenHolds` | `RulesSpec => []FirstImageTaken` |
| | `PreviewIsFaithfulHolds` | `RulesSpec => []PreviewIsFaithful` |

"Callers that act as the app does" is `FromUserInterface`: stars go to articles
that were shown, so have a row, and the starred view is never also unread-only.
Without it `Agreement` and `InSync` are false: see the disagreements.

The assumptions on constants are what the code fixes. `ApiAssumption`: a text is
a null pointer, bytes that are not UTF-8, something that is not an object, JSON's
null, or an object with any number of members, of any keys, with JSON values;
and generations are those of the model.
`CountersAssumption`: there are finitely many articles, each in one feed, and the
starred selection has neither feed nor category (`Selection` is a sum type).
`RulesAssumption`: ids of articles' feeds are positive, rows have a time of any
value, which they may share, and selections a known kind, counters and limits are
natural numbers, titles have a key to sort by, nodes of a text are of the kinds
`append_node_text` distinguishes and only text and described images have text,
elements have the attributes the code reads, images have sides of at least a pixel, and icons have 8 pixels or
more (the program's have 32).

`Agreement` and `InSync` are not inductive. The invariant that is, `IInv` in
SyncService, adds:

* `GateHeld`: a caller that is not idle holds the gate, so at most one works;
* `WishesKnown`, `ItemsKnown`: wishes and undo items are for stored articles;
* `BaselineSeen`: a baseline without a wish is the server's value, unless
  something else changed it;
* `RowsListed`: a listed copy of a row is the pending row or older than it, and
  with the same revision it has the same wish. This is why acknowledging by
  revision is right; it depends on the gate, since a row that were confirmed by
  another flush and created anew would start at revision 1 again;
* `RowSent`: before a toggle the server holds the opposite of the wish, before
  a confirmation the wish;
* `Browsed`: what a refresh carries is what the server holds, but for changes
  recorded in `unseen`. It holds because the gate keeps this process from
  writing to the server between browse and apply.

The proof takes the steps in groups: new wishes (`WishesKeepIInv`,
`UserKeepsIInv`), the flush (`SendKeepsIInv`, `ToggleKeepsIInv`,
`AckKeepsIInv`), the application of a browse result cell by cell (`ApplyCell`,
`ApplyKeepsIInv`), the rest of a call (`CallKeepsIInv`), and the outside world
(`OutsideKeepsIInv`). `UndoIntact` is inductive by itself.

The refinement uses the same invariant: a user's step is `Decide`, an
application is `Learn`, an acknowledgement is `Confirm` or, for an old revision,
nothing (`AckConfirms`, from `RowsListed` and `RowSent`), the steps that write
to the server are `Send`, those of others `Change`, and the rest stutter.

Runtime's invariant adds to its properties `CallsHold` (a call at work holds a
service), `Registered` (a live service is the one its account is found by,
which is what makes services unique) and `DueIsSeen` (a flush is scheduled only
where a worker runs). The proof has one lemma for each kind of step, with
`Register` split into the configuration that is refused and the one that
replaces the session.

CoreApi implements Runtime because a text that reaches an operation begins a
call of Runtime with arguments it knows, whatever its members are: of the members that name
a field the last one decides (`LastOfMember`, from `MaxIsGreatest`), a null
means the field's zero (`ZeroOf`), and what is decoded has the types Runtime
asks for (`RequestTyped`); every other text is answered at once, a step that
leaves the runtime alone (`TextIsOperation`). So Runtime's theorems hold behind
the C function (`ServedSafely`).

The counts need an invariant of their own, `CountersInv`, on top of `IInv`, which
`CountersKeepTheService` lends them:

* `NumbersStored`: a trusted number counts what the store last saw of the
  articles it knows and what the server has of the others;
* `TrustedSeen`: what it last saw of a cell that a trusted number counts is
  the server's value unless a wish is pending;
* `TrustedSent`: a wish that is being sent for such a cell is the opposite of
  what the server has before the toggle, and what it has before the
  confirmation. Therefore a confirmation moves the number by exactly what the
  server did, and a trusted number is never clamped at 0;
* `NumbersFetched`: what a refresh has fetched is still the server's where
  nobody disturbed it, since the gate keeps this process from sending.

That the shown number is then exact is a count of cells in three tables, seen,
shown and wanted: where they differ a wish is pending, and the difference of two
counts over finite sets is that of the cells on which they differ (`Exchange`,
`DeltaIs`, `DeltaMakesUp`; then `FeedShown`, `StarredShown`, `TotalShown`). The
proof has one lemma for each step that matters: an application replaces every
number at once (`ApplyMoves`), a confirmation moves one cell (`OneCellMoves`,
`AckMoves`), a foreign change withdraws trust (`InterferenceKeeps`), and the rest
leaves the numbers alone (`QuietKeeps`, `SendKeeps`, `UserKeeps`).

Nothing moves in Rules, so its theorems are about every input. `SelectionRule`
takes the kinds of selection one by one through the query's keys. For an icon,
a quotient that is rounded either way is off by half at most (`RoundedIs`), so
the longer side fills the icon exactly and the other one keeps its proportion
(`ScaledSide`, `ImageRule`). The surface is mirrored because samples are at odd
and bounds at even fortieths of a pixel, so that none lies on a bound
(`InsideMirrored`), and because its corners do not overlap, which takes 8 pixels
(`RadiusIs`); its count of samples follows by the bijection of the sixteen
samples (`Exchanged`).

What is sorted is a sequence of all items in their order, each once
(`RankedIs`), and there is only one. A mark of a shown row leaves the set of
candidates alone, and with one plan their order, so the list stays as it is; the
limit cuts off the end (`FirstIs`). With two plans two lists hold the first rows
of one set of candidates in two orders that differ among equal times only
(`KeyOrders`). If one had at some place a row that is earlier than the other's
at that place, it would put that row and all before it into fewer places of the
other list than there are of them (`NoneEarlier`, from `TooFewPlaces`): so the
times agree place by place. A row that is in one list only is therefore of the
time of the last place, as is the one that has taken its place (`Displaced`,
`SnapshotRule`). That the exception for equal times is needed is proved, too
(`MarkedRowMayLeave`): of one row more than the limit, all of one time, a plan
that finds the marked row last takes it off the list that a plan that finds it
first began with. In the navigation every feed of a known
category has one parent, the last category with its id (`ParentIs`), the sorted
titles are a bijection (`SortIs`), and a total is the size of a disjoint union of
intervals, one for each feed (`TotalIs`, `CategoryIs`, `NavigationIs`).

The recursive functions are reasoned about without induction, by the smallest or
greatest place at which they would differ from what they should be (`Extremes`,
from the well-foundedness of finite subsets). A function that solves the
recursion is either written down (`WalkFinds`, `TotalIs`) or extended place by
place (`ScanIs`, `FilledIs`, `Recursion`). The walk through a text finds, below any node, the
first element in document order that offers an image: what is below a child lies
between it and the next one (`ChildrenShare`, `FindDescends`). The template is
compared with a reader that goes token by token and remembers what it is inside
of: outside of braces both write on (`ScanOutside`), from the first braces to
the next closing ones the reader holds back what the search cuts out
(`ScanInside`, `ScanCloses`), and so both agree from every place outside of
braces on (`ScanFills`).

The preview takes the longest argument. `append_node_text` writes more lines and
blanks than `normalize_lines` leaves, so a text that is half written is judged by
what is left of it (`Normal`) and by what it would put before the next word
(`Gap`: nothing, a blank or a new line). `NormalStep` says how one more character
changes both; it comes from the recursions of split (`PartsAppend`), join
(`JoinAppend`), collapsing one line (`CollapseStep`) and all (`LineStep`). The
reader's side is cut up in the same way: where the characters of each node end
(`PlacedIs`), what is seen after each of them (`WatchedIs`), and what is between
the last word and the next as far as the nodes tell (`Ahead`). `Stands` says that
both sides agree when the walk has come to some node with some elements still
open. It is kept when a node is opened and its text read (`Opens`, `ReadsText`),
when it is closed (`Closes`) and when an ignored element is passed over (`Skips`);
the first child of a node is the next node, and its next sibling the one after all
that is inside of it (`FirstChild`, `NextChild`), so it is kept by the text of a
node if it is by those of all later ones (`NodeAdds`), and at the end the document
has been read (`ChildrenTextIs`). Such a text begins and ends with a word and its
words are one character apart (`NormalClean`), so cutting it costs one space at
most (`TruncateIs`).

The scheduler's properties are inductive together (`SInv`), none of them alone:
that a sleeping worker's alarm is the deadline depends on there being one
worker, and that the deadline is the earliest wish's on who may clear it.

For the gate and the icons (`RInv`), a thread is inside exactly if it holds the
gate, and then the lent deadline is its own (`GateInv`); `NoLostWakeup` is
inductive with it. A load that is listed is the one at work on its feed
(`LoadsInv`), a waiter's slot is that of a load for its feed (`SlotsInv`), and
what a load has brought was cached before the load is given up (`OutcomeInv`).
The steps of the icon cache leave the gate, its sleepers and the lent deadline
alone (`ClientKept`), and those of the gate the cache and its loads, so each half
of the invariant is kept by the other's steps.

For the fetch (`PInv`), what stayed in the selection is collected up to the
cursor (`UpToCursor`), and the first page's total is the size of a set `R` that
holds all that stayed and, of everything else that is or was listed, only
members or ids above all of `R` (`TotalCounts`). If the count is reached and an
id of `R` that stayed were missing, it would be behind the cursor, so all that
was collected would be members of `R` other than it: too few (`NothingLeftOut`).
Rejoining breaks exactly the clause about ids above `R`.

For the browser (`BInv`), every task that heeds the route is for the selected
view, a mutation that will be shown was built with all that is retained, and a
view that is not shown yet has its local rows under way (`ViewComes`). Outdating
a generation keeps all of this because the tasks it outdates are not shown
(`ToldKeeps`); the operations of the user and the answers each share one lemma
(`StarterKeeps`, `AnswerKeeps`).

Only model-checked are the properties that need fairness, which are beyond the
prover: `WishesConfirmed`, `FlushFollowsOrStranded`, `FetchEnds`,
`EveryCallReturns` and `EveryCallAnswered`. `AbsenceIsReal` is false without its assumption, which the run
`pagination_rejoin` shows.

## Disagreements found

Two have a run that ends in a counterexample, and an entry under `findings`.

* `browser_retention`: a startup or background refresh that is under way when a
  row is marked read answers with the rows retained at its start, and the row
  disappears from the list although the user has not refreshed it. Its guard
  compares route and refresh generations, which a mutation leaves alone.
* `pagination_rejoin`: an old article that rejoins a selection during a fetch
  can fill the count of one that was never listed, because only the first
  page's total is compared.

One is a theorem, `MarkedRowMayLeave`:

* SYNC_AND_DATA.md:87-89 says "Rows marked read locally remain visible in the
  current unread-only list until the user explicitly refreshes it." At the limit
  they need not. It takes more unread rows than the limit (200) and several of
  one time around it (store.rs:947, no second key). SQLite answers a snapshot
  with nothing retained from the index by account and time, read backwards for
  newest first; with the `OR` of the first retained row (store.rs:934-945) it
  collects the rows of both terms and sorts them, which turns rows of one time
  around. Tried with this schema, seven unread rows of one time, newest first, and
  a limit of 4, SQLite 3.40 gives 7, 6, 5, 4, and 1, 2, 3, 4 once row 7 has been
  marked read: row 7 is gone, although it is retained. `ListStandsStill` says what
  remains true. That equal times have no second key is a known limitation in
  `docs/reference/fluxnews/FLUXNEWS_CORE_GAP_ANALYSIS.md`; that a retained row
  can disappear by it is not mentioned.

Others are noted here because no document promises the contrary or the app
never gets there:

* A star for an article that has no row (store.rs:525) is queued, but the
  refresh that inserts the article shows the server's value (store.rs:382), and
  `acknowledge` fails on it until there is a row.
* A starred selection with `unread_only` set is reconciled by the unread branch
  over all articles (store.rs:1007) and marks unstarred unread ones read; its
  total is stored as the total of all stars (sync.rs:713).
* After one refused worker thread (sync.rs:615) the stale deadline makes every
  later `schedule_flush` return early; only refreshes deliver wishes
  (`Stranded` in Scheduler).
* A count template whose braces are never closed is written, and then its rest
  once more (localization.rs:105-111). `TemplateFilled` is about closed ones.
* `unread_total` of the navigation is the sum over the feeds of known
  categories (navigation.rs:71-73), while its comment (navigation.rs:46) has
  all feeds.
* The rounded surface of a dark icon need not be symmetric below 8 pixels,
  where inset and radius exceed half a side and the corners overlap; icons are
  larger.
* Two changes of one article run on detached tasks and may reach the core in
  the other order; nothing in the core tells which the user made last.

## Not modelled

* The scroll exposure tracker: floating-point geometry of what SwiftUI reports.
  Browser takes any set of unread rows for its result.
* Image decoding (SVG, PNG, ICO) and the analysis of colours in `icons.rs`, the
  HTML parser, the lookup of texts, logging, SQL migrations, HTTP headers and
  the mapping of statuses to messages: I/O, wording or libraries.
* The encoding of answers (`transport/response.rs`, `snapshot.rs`) and the
  Android bridge.
* The app's views, settings, routing and keyboard handling; in BrowserStore the
  time before the first configuration, starring, and settings.
* The Go core is the deprecated reference for the same contract; the Rust core
  is what ships. The mobile proof-of-concept, the probes and the comparison
  tools are not part of the product.

## What is left

* A queue with a row that the server always refuses, in the order of its
  timestamps' text, and the scheduled flush that gives up on the gate after
  30 s: the documents do not say what should happen, so a model would only
  restate the code.
* Browser over the real SyncService instead of its one-step core: the states of
  the two multiply beyond what TLC finishes in minutes.
