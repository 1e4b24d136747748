# Verification of the CAN Research Tool

The tool records CAN frames with a Kvaser adapter, shows them while they come,
stores them as sessions of a project, rebuilds transport messages from them,
and compares sessions. This directory holds TLA+ models of the parts in which
threads, files and failures meet, the TLC runs that check them on small
instances, and proofs checked by TLAPS for every instance. `src/` paths below
are relative to the repository; `PROJECT.json` maps every definition to lines.

Checking by hand: `tlc -workers 2 -config CaptureService.cfg CaptureService`,
`tlapm Capture_proofs.tla`.

## 1. Inventory

### Threads and how the parts meet

```
 adapter -> reader thread -> queue -> capture worker -> session, CSV, marker files
 (driver)   (kvaser)                     |    ^   ^
                                  live buffer |   marker queue
                                         |    stop event, lock
                                         v    |   |
            thread pool  <- snapshots - GUI thread (timers, dialogs, models)
            (scans, DBC, search,         |
             decoding, analyses) -> signals -> GUI thread
                                         |
                                    project.db and the files it names
```

The GUI thread runs one handler at a time. The capture worker, the adapter's
reader and the pool's threads run beside it. They meet in queues and events
(reader and worker), a lock and a queue without it (GUI and worker), a bounded
buffer (worker and view), signals (pool and GUI) and files (everyone).

### Components

| Component | State | Operations | Interacts by | What is hard | Correct when |
|---|---|---|---|---|---|
| Capture service (`app/capture_service.py`, `app/deferred_capture_service.py`) | capture state, stop event, marker queue, three writers, live buffer | start, stop, wait, add_marker, `_run` | lock; queue; the channel's calls; files | `add_marker` puts after the unlock; `_run` overwrites the state; its handler can raise too | shown was written; STOPPED means complete; footers are honest; a stop takes effect |
| Kvaser channel (`kvaser/backend.py`) | queue, two events, two flags, reader thread, handle | open, read, close, reader | called by the worker; no lock | time-outs of open and close race the reader | nothing is lost before close; no reader stays on the bus |
| Session file (`app/session_stream.py`) | records, buffered records, sparse index and its temporary file | append, flush, close, open for pages, rebuild index, read page | file system | kill, full disk, power loss; stale index; two readers; a line cut at the end | a page is exact or raises at a cut line, never short; a killed session can be read |
| Saving a log (`gui/live_save_integration.py`, `gui/confirmed_start_live_capture.py`, `gui/fixed_marker_menu_shell.py`, `gui/main.py`) | the pending log, its status, files in two directories, the row | start, end, save, discard, close tab, change project, exit | timer; project store; moves of files | one step of several fails; crash; the question depends on a timer | no finished log goes without a decision; a saved one is whole, but for what a failed discard has deleted |
| Frame view and filters (`gui/*live_filter*`, `gui/bounded_live_capture.py`, `gui/frame_model.py`, `app/live_buffer.py`) | buffer, cursor, model, projection, pending rows, tasks, generation | refresh, reload presets, whole scan, increment, clean | timers; pool; signals | late and out-of-date results; ring buffers; timers that must be armed | the filtered view is the filter of the view; it catches up |
| Transport reassembly (`app/transport.py`, `app/stream_pipeline.py`) | open J1939 and ISO-TP sessions, messages | feed, flush | called per frame by the logical worker | losses, repeats, interleaving, abort, numbers that wrap | a message marked complete is exact; each frame is in one place |
| Logical cache (`app/logical_cache.py`, `crt_logical_messages_worker.py`, `gui/sqlite_logical_session_view.py`, `gui/stored_logical_sql_model.py`) | SQLite image, fingerprint, temporary file, worker process, filters over the image | build, replace, open, filter, show all, clear, change of DBC | process; pool; files | the files change while they are read; killed workers; stale row numbers | a believed image is made of the files as they are |
| Search index (`app/project_search_index.py`, `gui/persistent_search_index.py`) | a source row with a state and a count, documents | begin or resume, batches, cancel, complete, query, remove | pool; SQLite; signals | a cancelled build goes on beside the next; crash between batches | a believed index has every frame of the present file |
| Removal of sessions (`app/session_management.py`, `gui/session_management_integration.py`) | rows and the files they name | remove | SQLite; files | files are not transactional; analyses run meanwhile | row and files go together; sources of results stay |
| Comparison sets (`app/comparison_sets.py`, `gui/comparison_sets_view.py`, `gui/comparison_sets_analysis_view.py`) | definitions, archived or not; windows that hold one | create, change, fork, archive, delete | SQLite; modal dialogs | a run is recorded while the editor is open | what a run was recorded for does not change |
| Analysis runs and artifacts (`app/extensions/runner.py`, `app/extensions/writers.py`, `app/project_domain_store.py`, `gui/comparison_analysis_dialog.py`) | run rows, artifact files and rows | create, run, cancel, write, finish | GUI and pool threads | cancel against completion; failed writes; dead processes | rows, files and signals agree |
| UDS latencies (`app/comparison_uds_latency.py`) | open requests, counters, a heap of evidence | pair, time out, count, keep | one loop over a session | long messages, pending responses, repeats, a full heap | every message counted once, pairs are those of the bus; no evidence is dropped for a lesser one |
| Stored session view (`app/stored_session_controller.py`, `app/session_filters.py`, `app/stored_search_navigation.py`, `gui/stored_search_navigation.py`, `gui/comparison_evidence_stored_navigation.py`) | page, generation, filters, futures; each navigator's pending request | load, turn, filter, go to a row, cancel | pool; timers; two navigators over one controller | late answers; a page replaced while it is waited for; failed loads | the page is that of the filters; the row selected is the one asked for |
| Session rows (`app/project.py`, `app/project_migrations.py`) | rows | register, finalize, rename, import, migrate | SQLite | - | rows name files that exist |
| Filters of raw frames (`app/filters.py`, `app/static_filter_engine.py`, `app/static_active_filters.py`, `app/static_filter_patterns.py`) | presets: trees of conditions and groups | validate, test one preset, decide with all | called by scans in the pool and by the editor | three results, two evaluators, early ends | a view shows what the presets ask for, one by one |
| Decoders, DBC (`app/protocols.py`, `app/uds.py`, `app/dbc.py`) | none, or a parsed file | decode, load | pool | loads end out of order | the last set asked for is in force |
| Other built-in analyses, comparisons (`app/extensions/builtin/`, `app/comparison_*.py`) | none between calls | run | analysis runs | pairings in the presence of gaps | documented statistics |
| Editors of filters and markers, shell, exports, help | forms, models of tables | GUI handlers | GUI thread | no concurrency of their own | - |

`PROJECT.json` lists every component with its files and status, and every
hazard at the line where it bites.

## 2. Modules

| Module | Models | Its state and actions in the code |
|---|---|---|
| `CaptureRecorder` | the promise of a capture: record, present a prefix, finish only when all is presented | abstract |
| `CaptureService` | `CaptureService` with `DeferredLogicalCaptureService._run` | `wpc` is the place in `_run`, one action per call that touches a file, the channel, the lock or the live buffer; each has the outcome "raises", which goes where the `except` and `with` blocks send it. `gpc` is the GUI thread's place in `add_marker`: the test under the lock and the put are two steps |
| `KvaserChannel` | `KvaserPassiveChannel` | `call` is the owner's place in `open`, `read`, `close`; `reader` the thread's place in `_receive_loop`; events and flags are variables because nothing guards them |
| `CaptureWithKvaser` | the service on that channel | the worker's `with` block and reads are the owner's calls; `CaptureService` is extended, `KvaserChannel` instantiated |
| `SessionStream` | `SessionStreamWriter`, `SessionPagedReader`, the index | records in the file and records in the file object's buffer apart; a torn last line, at which a page that comes to it raises (`Broken`); a header whose write fails (`HeaderFails`); the index file and its one temporary file; each reader thread's place |
| `LiveSave` | the end of a capture and every way its log can go | a handler is a step, a save is four (`saving`), so that a crash falls between them; a log is its two groups of files (`rest` may be gone after a discard that failed, and a save then skips it), its row and its fate |
| `FrameFilters` | validity of presets, `StaticFilterCompiler.evaluate`, `StaticCombinedActiveFilterSet._decide` for raw frames | functions, no state; a tree is the sequence of its nodes. `Preview` is the editor's test, `Decide` the view's decision, `Wanted` the reference: the tests of all presets, combined |
| `LiveView`, `MCLiveView` | buffer, refresh, table, filtered projection, scans; extends `FrameFilters` | a handler is a step on the record `gui`; the methods are operators on it; a task is its snapshot and whether its generation is the present one |
| `Transport` | `J1939TpReassembler`, `IsoTpReassembler`, `StreamingTransportPipeline` | one action per kind of frame; `tp`, `isotp` are the dictionaries of sessions, `messages` what was emitted; the senders are external actions |
| `SearchIndex` | `ProjectSearchIndex.build` in the pool, `PersistentSessionSearchIndex` in the window, removal | `pc` is the place of each build between two transactions, with its own fingerprint, batch and count; `row` and `docs` are the two tables; `adapter` is the window's object; an aborted program leaves tables and loses the rest |
| `LogicalCache` | `build_logical_cache` in its worker process, the tab, filters in the pool | an image is the list of versions its rows were made of; `worker` is the process's place, with the fingerprint and the DBC file it has read; other programs may change a file at every step; `criteria` says whether the rows were last asked for with a criterion: `ShowAll` (the box of the project's filters) leaves the generation, `ClearFilters` (the button) counts it up |
| `AnalysisRuns` | sets, windows, runs in both forms, artifacts, removals | `pc` is a run's place between two transactions or file operations, `status`, `file`, `recorded` what the database and the disk have, `told` the signal; `gui` is the one modal dialog or removal the GUI thread is inside |
| `UdsLatency` | `_analyze_session` with the reassembly it reads from | a step is a frame, a message, or a request that the loop times out; a transaction is the place of its request, its pending responses and its end |
| `StoredView` | the tab of a stored session and its navigators | the GUI thread's state is the record `gui`; a slot is a step and the methods it calls are operators on the record; `loads` and `locates` are the tasks |

Theorems and proofs are in `Capture_proofs` (of `CaptureService` and
`CaptureWithKvaser`), `SavedSession_proofs` (of `SessionStream` and `LiveSave`),
`SessionCaches_proofs` (of `SearchIndex` and `LogicalCache`, which therefore has names of its
own for its specification, `CacheSpec`), and in `Transport_proofs`, `LiveView_proofs`,
`AnalysisRuns_proofs`, `UdsLatency_proofs` and `StoredView_proofs`, each beside the module it
is about. The inductive invariants stand at the end of the modules themselves ("Why the
properties hold"), except that of `LiveView`, which stands in its proofs.

Two compositions are explicit. `CaptureWithKvaser` joins two modules action by
action and shows `ImplementsCapture`: whatever `CaptureService` assumes of its
channel (frames come once, in order, without gaps; a read may time out or raise)
the Kvaser channel delivers, so what is shown of the service alone holds on the
adapter. `CaptureService` implements `CaptureRecorder` (`ImplementsRecorder`)
under the mapping `Phase`, `Recorded`, `live`: a state is "done" only after the
last batch was shown and the files closed, "abandoned" when a fault inside the
handler killed the thread. `AnalysisRuns` and `SearchIndex` each hold several
components that meet in one database: runs, windows, sets and removals; builds,
the window's adapter and the removal.

## 3. Runs

Each run ends in seconds or within two minutes, `live_view` within about three; the largest
have some millions of states (`uds_latency` 5.5, `stored_view` 3.1).

| Run | Bounds | Shows |
|---|---|---|
| `capture_service` | 2 captures, 2 frames each, 2 markers, 2 faults, batches of 2 | `WrittenBeforeShown`, `StoppedIsComplete`, `FooterIsHonest`, `MarkersKept`, `TerminalIsFinal`, the refinement `ImplementsRecorder`, and `StopEnds` |
| `capture_with_kvaser` | 1 capture, 3 frames, 1 fault; the driver may refuse, hang or fail at each call | `SessionIsPrefixOfBus` (with the channel's `NothingLost`), `BusIsOwned`, `ImplementsCapture`, `FailureEndsCapture`, `BusIsReleased` |
| `session_stream` | 2 files of one name, 3 frames, 2 failures, flush and stride of 2, one reader | `ReadersAreExact` (a page is exact, and raises if and only if it comes to a cut line; the count), `WriterIndexIsBuilt` (the index counted while writing is that of a scan) |
| `session_stream_race` | 1 file, 2 readers | refutes `CompletedSessionOpens` |
| `live_save` | 3 captures, 1 crash; every move, row and unlink may fail | `LogsAreWhole` (saved whole but for what a failed discard deleted, rows have files, never split), `AnnouncedIsAskedFor`, `EndIsAnnounced` |
| `live_view` | 2 captures of 3 frames, a view of 2, a streaming view of 1, batches of 1, a bus of 3 kinds of frames, 4 states of the presets, 1 edit, 2 clicks, 1 failed scan | `ViewIsExact` (the table is a run of the bus, the projection is what the presets ask for and no more than the table), `ViewSettles` |
| `transport` | 2 addresses, the broadcast address, 1 ISO-TP identifier, 2 transfers, 6 frames, 2 losses, 1 repeat, abort or malformed header | `FramesOnce`, `PayloadsAreExact` (complete is exact, links kept apart), `ReceivedIsComplete` |
| `search_index` | 3 frames in batches of 2, 2 builds, 1 changed stamp or content, 1 failure, 1 kill | `IndexFollowsSession`, `SearchSeesAll`, `WorkIsKept`, `WaitingEnds` |
| `logical_cache` | 2 messages, 3 loads, 2 changes of files, 1 filter, 1 failure, 2 tries of a move | `BelievedIsCurrent`, `TabIsExact` (the image asked for, and rows chosen in it; not which question they answer), `LoadSettles` |
| `analysis_runs` | 2 sessions, 2 sets, 1 run of any kind, 1 fault | `ArtifactsAreWhole`, `SessionsAreWhole`, `OutcomeIsTrue`, `HistoryIsKept`, `RunsEnd` |
| `uds_latency` | 4 messages, long ones among the responses, a window of 2, a clock to 3, evidence for 1 | `EachMessageOnce`, `PairsAreTrue`, `EvidenceIsBest` (by the order of the stage's report, but for one step up with 0x78) |
| `stored_view` | 3 frames in pages of 2, 2 navigators, 3 clicks, 1 edit, 1 failed task | `PageIsExact`, `SelectionIsAsked`, `NobodyWaitsInVain` |

Each module has a `TypeOK` (`StreamTypeOK` in `SessionStream`, `CacheTypeOK` in
`LogicalCache`), which is part of every inductive invariant of section 4.

### Why the bounds are enough

- `capture_service`: two captures because the hazard of a reused service is what
  the first leaves to the second; two frames and batches of two so that a frame
  waits, is published with the batch, or is left for the end; two faults because
  the handler of the first can meet the second; two markers because one may be
  drained while the other waits.
- `capture_with_kvaser`: three frames so that one is delivered, one buffered and
  one about to be put. One capture is enough for the refinement: each capture has
  its own channel object, which is opened once.
- `session_stream`: with stride and flush of 2, three frames cross a checkpoint
  and a flush and leave one in the buffer; two files of a name are what a stale
  index needs, and a kill and a failed write may both fall on one file.
- `live_save`: the third log starts while an earlier one waits and another was
  saved. One crash may fall anywhere; a second only repeats the start-up.
- `live_view`: a view of two drops a frame of three while a scan runs; a streaming
  view of one trims inside the view of two; the second capture makes every result
  of the first one late; two clicks turn the filter on and off, or off and on. The
  presets of `MCLiveView` have every kind of group, an include and an exclude under
  both combinations, fields of frames and of messages in one group, patterns, and
  presets that are highlighting, disabled, invalid or for another view; its frames
  tell the results of their conditions apart.
  One case needs more: a table of twenty rows is the smallest that can lose all its rows
  at once (its chunk, a tenth, must be two, and the new rows one fewer than the table
  takes). When two rows are followed by nineteen, the table is empty as
  `_prune_frame_filter_cache` looks for its first row, nothing is pruned
  (`gui/live_filter_integration.py:617`), and the filtered view shows two frames that the
  table has dropped, or keeps twenty-one in its queue, until the next batch is handed out.
  `MCLiveViewDrained.cfg` (a table of 20, 21 frames, batches of 8, one click, 239 569
  states) checks `ViewIsExact` there; both outcomes are reached.
- `transport`: sizes 6 and 14 are a payload that ends with the first frame and
  one of two packets; two losses are what a session needs to be continued by the
  packets of the next transfer (the rest of one, the header of the other); a
  modulus of 2 makes sequence numbers wrap inside a transfer.
- `search_index`: batches of two leave one frame for the end of the file, so that a
  build can stop before, between and after batches; the second build resumes or
  starts over what the first left. Three builds are what the overlap in
  refutation 6 below takes.
- `logical_cache`: the third load is the one that reuses, or builds again, what the
  second left beside the first; two changes are one of the session's files and one
  of the DBC file; two messages let a file change between them.
- `analysis_runs`: a run meets sets, removals and windows, not other runs: two runs
  of a set share only its row, which neither changes. Two sets are a set and its
  fork. A second fault was tried once on the safety properties and shows no more.
- `uds_latency`: four messages are two requests and two answers in every order, or
  a request with pending answers before the last one; the clock ends one and a half
  windows after the first request, so that windows end with and without a message
  after them. One kept transaction makes every second one compete for its place.
  Two services, and long frames on both identifiers, were tried with three messages.
- `stored_view`: three frames on pages of two are a full and a partial page; the
  preset that hides the first frame moves every other one. Three clicks are what a
  location takes that is posted and then replaced: filters on, a row, another row.

### Fairness

- `CaptureService`: weak fairness of the worker (with its channel calls) and of
  the two remaining steps of an `add_marker` that has begun. A read has a timeout,
  file calls return or raise. Nobody has to start or stop.
- `CaptureWithKvaser`: weak fairness of the worker, of the reader, whose driver calls
  have timeouts, and of the waits of open, read and close, which have them too.
- `LiveSave`: weak fairness of the 100 ms timer and of the steps of a save.
- `LiveView`: weak fairness of the refresh and preset timers, of the single-shot
  increment timer and of the pool. The bus is quiet when the bounds are used up.
- `SearchIndex`: weak fairness of each build's thread, of the delivery of its signal
  and of a removal that has begun.
- `LogicalCache`: weak fairness of the worker process, which ends or dies, and of the
  handler that opens its result. Filters have safety properties only.
- `AnalysisRuns`: weak fairness of each run's thread and of a removal that has begun.
  No dialog has to be closed, nothing has to be cancelled.
- `StoredView`: its run checks safety, with `NobodyWaitsInVain` saying that whatever is
  waited for is under way. `StoredViewLive.cfg` (two clicks, 101 421 states) checks
  `PageSettles` and `RequestsEnd` under weak fairness of the pool, of the delivery of
  signals and of the timers of 25 and 500 ms.
- `SessionStream`, `Transport` and `UdsLatency` have safety properties only.

`CHECK_DEADLOCK FALSE` is set where bounded use comes to an end by itself.

### Refutations

The run `session_stream_race` and the configurations below state what a doc, a comment
or a message says of the program, or what one would expect of it, and TLC finds a
behaviour of the code that breaks it. `tlc -config <file> <module>` shows each within
seconds. The properties of section 3's table leave out exactly these cases.

1. `session_stream_race` (`SessionStreamRace.cfg`): threads that open a session without
   an index share one temporary file, and the slower one fails (`session_stream.py:373`).
2. `CaptureServiceMarkers.cfg`: `_run` sets RUNNING without looking
   (`deferred_capture_service.py:105`), so a `stop()` during the start leaves the
   service RUNNING with the event set until it is closed; markers set meanwhile,
   after the last drain, are never written. `docs/architecture.md:111` says that
   they are written later. `MarkersKept` shows that captures stopped while RUNNING
   keep every marker.
3. `SessionStreamCrash.cfg`: one line cut by a full disk or a power loss makes the
   whole file unreadable, against "crash-readable" (`session_stream.py:29`).
   A kill alone leaves whole lines, since the buffers spill whole records. A reader that
   was open before gives the pages before the cut and raises at it (`session_stream.py:182`),
   which `ReadersAreExact` says page by page.
4. `LiveSaveReopen.cfg`: opening the project that is open closes the Live tab with
   its unsaved log and asks nothing (`fixed_marker_menu_shell.py:133`).
5. `LiveSavePending.cfg`: a row that cannot be written after the files were moved
   leaves a log that is neither pending nor in the project
   (`live_save_integration.py:196`).
6. `SearchIndexOverlap.cfg`: a cancelled build goes on until it next looks, and marks
   the source ready without looking at the table (`project_search_index.py:220`). When
   a second build is cancelled as well and a third begins by deleting all documents,
   `is_current`, "whether a complete durable index matches the session content",
   believes an empty table.
7. `AnalysisRunsBaseline.cfg`: an analysis window computes with the definition it was
   opened with. When the base of the set is changed meanwhile (it has no analyses yet),
   the result is recorded for the set, and a new window takes it for its own: the
   loader looks whether the old base is a member, not whether it is the base
   (`comparison_sets_analysis_view.py:66`).
8. `UdsLatencyLong.cfg`: a response that began within the window but ends, being long,
   after another message that comes past it finds its request timed out already
   (`comparison_uds_latency.py:541`).
9. `StoredViewRetry.cfg`: a page that cannot be read leaves `_page_start` at its own start
   and the table at the rows of the last page (`stored_session_controller.py:164`). Who
   then asks for that page is told that it is there (`request_page` returns nothing), and
   a navigator selects a row of the old page, and reports success.
10. `StoredViewDropped.cfg`: `_check_pending_page` drops a request whose page something
   else replaced and tells nobody (`gui/stored_search_navigation.py:230`); the "completion
   callback for evidence handoff" (`comparison_evidence_stored_navigation.py:9`) is never
   called, until the next request calls it with an error.
11. `LiveSaveDiscard.cfg`: a discard deletes the files it can and reports the others
   (`live_save_integration.py:246`). The log is still pending, and a save of it skips what is not there (`:400`) and reports success,
   although "komplet artefaktów jest przenoszony" (the complete set of artifacts is moved,
   `docs/reports/LIVE_CAPTURE_MARKERS_SAVE_HANDOFF_PL.md:177`; line 183 adds "o ile
   istnieją", as far as they exist).
12. `LogicalCacheFilter.cfg`: taking the tick from the box of the project's filters while a
   filter runs shows all rows at once but leaves the generation
   (`sqlite_logical_session_view.py:283`), so that the filter that ends afterwards hides
   rows again: "wynik starszego workera nie może nadpisać nowszej generacji filtra lub
   strony" (the result of an older worker must not overwrite a newer generation,
   `docs/REFACTORING_HANDOFF_FILTERS_PL.md:245`). The button that clears counts it up.
13. `UdsLatencyEvidence.cfg`: the report of the stage keeps timeouts before transactions
   that the end of the capture interrupted, these before negative responses, and 0x78
   only after them (`docs/reports/COMPARISON_VISUALIZATION_STAGE2C2_UDS_LATENCY_PL.md:196`).
   The code adds one for a 0x78 to numbers that are one apart
   (`comparison_uds_latency.py:991`), so that an interrupted transaction with a 0x78
   displaces a plain timeout, and a negative one with a 0x78 an interrupted one.
   `EvidenceIsBest` is the report's order with that exception (`Lifted`) and no other.

## 4. Proofs

The theorems hold for every value of the constants: every number of frames, markers,
captures, faults, addresses, transfers, builds, loads, sessions, sets, runs, pages,
messages, navigators and deaths. For each component there is an inductive invariant, checked by TLC before
it was proved (but for that of `LiveView`, which ranges over all frames there could be),
from which the listed properties follow; none of these is inductive by itself. An invariant is proved by a lemma for each action or for each conjunct.

The first part of `Capture_proofs`, from `BoundsAssumption` (the bounds are natural numbers,
batches are not empty):

- `InductiveInvariant`: `Spec => []IInv`. That STOPPED means complete depends on what was
  written, shown and closed on the way. `IInv` says at each place of the worker what is
  already true: `StateInv` (which states and faults go with the place), `StopInv` (reads
  after the stop), `FrameInv` (the session, the CSV file, the count and what was shown
  differ by the frame in hand), `HandleInv` (which files are open), `ChannelInv`,
  `MarkerInv` (markers in the file and counted) and `FooterInv`.
- `TypeCorrect`, `StoppedComplete`, `ShownIsWritten`, `HonestFooter`,
  `DeathIsReported` follow from it; `TerminalStaysFinal` is an action property
  that needs `StateInv`: a terminal state is set in the worker's last step.
- `MarkersInvariant`, `NoMarkerLost`: markers are in the file, in the queue or about to be
  put, in this order (`OrderInv`, `KeptInv`), and once a capture was asked to stop none is
  about to be put any more (`AskedInv`), so that the last drain leaves the queue empty.
- `RecorderImplemented`: every step maps to a step of `CaptureRecorder` or a stutter. Most
  steps leave `Phase`, `Recorded` and `live` alone; those that do not are the start, the
  write of a frame, the publication of a batch (a prefix of what is recorded, by
  `FrameInv`), and the four ends.

Its second part, about `CaptureWithKvaser`, from the assumptions of both modules:

- `SystemInvariant`: the invariants of service and channel (`ChannelIInv`: where the
  owner's call and the reader are, who holds the handle, frames numbered as the driver
  sent them), what of the frames the service relies on (`SerialInv`) and the link between
  the two (`LinkInv`: the worker is inside a call of the channel only at the place that
  makes it, and has what read() returned).
- `BusHasOwner` and `SessionFollowsBus` follow; `CaptureImplemented` shows that each step
  of the whole is one of `CaptureService` or leaves it alone. `LinkInv` is what makes a
  frame that read() returns the `nextFrame` of `CaptureService`. Each
  capture of the code has a channel object of its own, which is opened once; the module
  has one such object, so that the theorems speak of one capture.

The first part of `SavedSession_proofs`, from `StreamAssumption` (natural bounds; the stride
and the flush rate are not 0), for every number of readers:

- `StreamInvariant`: `StreamIInv` is inductive. `Shaped`: the file, also with what is in
  the buffer, is a header, frames and at most a footer, so that a file of n records has
  a count of frames (`Count`) and every checkpoint a place (`PointsFit`: the k-th frame
  starts where k + 1 records end). `KeptInv`: an index on disk that is of this file was
  made of its first m records and has the size of its first n, m <= n (`Good`), or
  a power loss has cut the file below the size it claims. `ReaderInv`: a reader that saw
  the first j records has an index of j records or more.
- Records are two bytes or longer (`EndsGap`) and a torn line counts as one, so that a
  size names one number of records (`SizeIsOne`): the index that is believed because of
  its size is one of the records the reader saw (`SidecarFits`). What is appended moves
  nothing (`GoodExtends`); what is cut either leaves the records of an index or makes its
  size too large to be believed (`GoodIsCut`).
- `ReadersExact` follows: `PageExact` (seek to a checkpoint, skip, take, and raise at a cut
  line exactly when the frames before it are not enough, `CutOfTail`) and `BuildIndexFits`
  (the scan) are the facts about the algorithms, proved of their recursive functions by an
  induction over sets (`Induction`, from `LeastNat` as below). `WriterIndexBuilt` says that
  the writer, whose writes and flushes may raise, and the scan keep the same checkpoints.

Its second part, from `LiveSaveAssumption` (natural bounds):

- `SaveInvariant`: `WaitingInv` (a log that is over and not in the project is the pending
  one, and the tab knows it once it was announced), `SavingInv` (what each place of a save
  has moved), `TogetherInv`, `CaptureInv`, `WidgetInv`.
- `LogsStayWhole`, `NothingLostUnasked` and `StartCoversNoLog` follow. The ways in which a
  decision goes on (`GoOn`: stay, clean view, closed tab, exit) are proved once, of any
  logs that are settled; each decision settles them. In `LogsStayWhole` a saved log has its
  session file, and the rest of its files unless a failed discard had deleted them
  before: what is gone stays gone in `MoveRest`.

`Transport_proofs`, from `NodesAssumption`, `BytesAssumption` and `LinksAssumption` (a link
of J1939 is no identifier of ISO-TP, which the code keeps in two dictionaries):

- `TransportInvariant`, `EveryFrameOnce`, `TransportTypes`: every handler of a link takes
  the frames of that link's session and the new one and divides them between the next
  session and new messages (`TpDivides`, `IsoTpDivides`); a division keeps the partition of
  the frames fed, whatever the senders, the losses and the other links do. `flush()`
  divides all of them.
- `ReassemblyInvariant`: `TransportIInv` adds `PayloadInv` and `ProgressInv`. J1939 is the
  easy half: packets have their numbers. An ISO-TP sequence number comes back every 16
  packets, and nothing in the session says which round a packet is of. The argument is one of
  slack (`ChainSound`): in a session filled by one transfer, a packet is never earlier in
  its transfer than its place in the session, and never further ahead of its place than
  the sender is ahead of the session. When the session is full, the sender can be ahead of
  it by nothing, so every packet is in its place: `CompleteMeansExact`. Packets of
  a transfer whose header was lost are the exception that `PayloadsAreExact` names.
- `NothingReceivedIsMissed`: `TpFollows` and `ChainFollows` say that the session of a
  transfer without a gap so far has all that arrived and expects what is sent next.

`SessionCaches_proofs`, on `SearchIndex`, from `IndexAssumption`:

- `IndexInvariant`: `AloneInv` (without overlapping builds the row claims exactly what is
  stored, so that the next build goes on there), `PairInv` (two builds of one content
  leave no gap below what either has counted), `VersionInv` (documents of another
  version are never under a current stamp), `RemovedInv`.
- `IndexIsTheSession`, `SearchMissesNothing`, and the action property `StoredWorkIsKept`,
  which needs `AloneInv` at the one place where a build throws documents away. All
  three carry the conditions under which the code is right; refutation 6 shows what
  happens outside them.

`SessionCaches_proofs`, on `LogicalCache`, from `CacheAssumption`:

- `CacheInvariant`: files only get newer and the fingerprint is taken before anything is
  read (`SignedInv`), so that a row is never older than the fingerprint of its image
  (`InsertedInv`, `Whole`); an image that is moved into place is whole (`ReplacedInv`); what
  a tab or its newest filter has is the image at the path (`TabInv`, `FilterInv`).
- `BelievedImageIsCurrent`: believed means that the fingerprint is that of now; then no row is
  older or newer. `TabShowsWhatWasAsked` follows from `TabInv`: it is about
  the image and the rows that were chosen in it, and does not say that the rows answer the
  last question, which refutation 12 shows they need not.

`LiveView_proofs`, from `LiveViewAssumption` (capacities and batches are not 0, the presets
are trees, the bus carries something) and `FrameFiltersAssumption`:

- `ViewInductive`: `ViewIInv == TypeOK /\ TableOK /\ BufferOK` is inductive. `RunTo` says that
  the buffer and the table each hold neighbouring frames of the present capture up to a
  last one. `Flow` is what ties the filtered view to the table. Its rows, the frames a scan
  has in hand and the frames that wait come one after another in the order of the bus, and
  the accepted ones among them are, from some number on, those of the table; that number
  is older than the table unless a streaming view dropped rows. Every method that moves
  frames is a lemma about `Flow` alone (`FlowPruned`, `FlowTaken`, `FlowScanned`,
  `FlowIncremented`, `FlowTrimmed`, `FlowInserted`); `Sound` says which of the three states
  of a view has which frames in hand (`Idle`, `Adding`, `Scanning`), and each method of the
  integration keeps it. A late result is harmless because a new generation leaves no
  awaited task (`NewGenerationType`), and every handler that empties or replaces the
  table begins one.
- `DecideIsWanted`: the view's decision is the editor's test. A tree is one function from its
  nodes to states (`Tree`), of which there is one because children come after their
  parent (`TreeExists`); both evaluations are that function (`SameState`), since a group that
  stops at the first child that decides it gives what all its children give together
  (`GroupTogether`), and so does the loop over the presets with its counters
  (`DecideCounted`). It holds for every depth, for presets that are not valid or cannot judge
  the frame, and in every order; it assumes what `IsTree` says, that a tree is finite and
  that every node comes before its children.
- `ViewExact` follows: in a sequence in the order of the bus, what `Flow` says of the set of
  the frames decides the sequence (`SameEls`, `FlowIsExact`); `ViewTypes`.
- `ViewBounded`, the last part of `ViewIsExact`, needs that nothing the view keeps is much older than the table, which is
  not inductive as it stands: a table can lose all its rows at once and leave nothing to
  prune by. `Near` is what is: either no row and no waiting frame is older than the first row
  of the table (`Pruned`), or by a chunk at most, the table is longer than a chunk, and a
  frame waits (`Drained`). A table so long cannot be drained again (`TrimDrops`), so the lag
  does not add up, and the batch that the waiting frame is for prunes first. `ViewNear` is
  this invariant on top of `ViewIInv`; frames in order between two numbers are then no
  more than the numbers (`RisingSpan`). With the 20 000 rows of the program that
  is 22 000 frames, so that the limit of 250 000 that the view and its queue have of their
  own (`gui/live_filter_integration.py:219`, `229`, `267`) is never reached: the
  model leaves it out on the strength of this theorem.
- What a recursive definition (`Kept`, `EvaluateGroup`, `Preview`) computes is proved from
  `Induction` and `Recursion`, two lemmas about sets of numbers, as in `SavedSession_proofs`.

`AnalysisRuns_proofs`, from `RunsAssumption` (finitely many sessions, the bounds are
natural numbers) and `NoDefinitionAssumption`:

- `AnalysesInvariant`: `IInv == TypeOK /\ RunsFit /\ SourcesStay /\ RemovalIsWhole /\
  RemovalFits /\ SetsFit` is inductive. `RunsFit` says at each place of a run what its
  row, its file, its artifact's row and its signal are, which the four properties about
  runs rest on; `RemovalFits` what a removal in progress has deleted; `SetsFit` that a set with a
  window or a run was made. Cleaning up is what makes it hold: each failing step of a
  run is followed to the place where its file is gone.
- `ArtifactsKept`, `SessionsKept` and `OutcomesHold` follow; `HistoryHolds` is an action
  property: `UpdateSet`, `ForkSet` and `DeleteSet` look for runs inside their transactions.

`UdsLatency_proofs`, from `UdsAssumption` (there is another first byte than those of the
services, the timeout and the limit of the evidence are not 0):

- `UdsInvariant`: `UdsIInv`, whose parts need each other. `MessagesInv`: messages come in
  the order of their ends and none ends before it begins, which is all the loop knows
  of the order of their beginnings. `RequestsInv` and `AnswersInv`: each request and each
  response that was passed is at one place. `CountsInv`. `OpenInv`: what was left over
  while a request was open began before it. `DoneInv`: a transaction that was answered
  has its answer from its window; one that was not is over for all that is still to
  come, because everything to come ends, though it need not begin, after its window.
  `OrderInv`: a request that waits is younger than the answered ones of its service. Every
  step only adds messages (`Grows`), passes one, or takes a request from the open ones
  (`Leaves`: `Drops` without an answer, `Pairs` with one); each part is proved of these.
- `MessagesOnce`, `TruePairs` and `BestEvidence` follow. In `TruePairs`, that no answer goes
  past an older request needs that the first request that fits is the oldest of its
  service that began before the answer, since requests end in the order they are opened.
  The heap keeps what ranks highest by the numbers of the code (`EvidenceRanks`, which is
  inductive because a lowest rank exists, whatever the size of the heap); `BestEvidence`
  is about the report's order and follows by `RankedAsReported`: the numbers follow the
  classes of the report, so that only a 0x78 can put a lower class above the next one.
- These rest on `LeastNat`, that a set of natural numbers has a least element. The
  theorems of the library about induction take an operator, which the provers here
  cannot instantiate; its `WFMin` and `FS_StrictSubsetOrderingWellFounded` take sets,
  and applied to the intervals `0 .. n` they give `LeastNat`.

`StoredView_proofs`, from `StoredAssumption`:

- `StoredInvariant`: `LoadsInv`, `ShownInv` and `PendingInv` tie everything that is under way
  to a generation: a load of the present one reads what the filters in force let through, a
  request that waits for a page of the present one asks for a row they let through, and
  filters change only with a new generation. A slot calls several methods one after
  the other; the invariant is stated of the record `gui` (`Sound`), and each method is
  proved to keep what the next one needs.
- `TableIsExact`, `SelectionIsTheRow`, `WaitsAreFounded`. The second needs that a row is in
  the page at its place among the rows let through: `Through(set)` is the ascending
  sequence of a set, and `AscendsToPlaces` shows that the place of a row in it is the
  number of rows before it.

Model-checked only: every liveness property (`StopEnds`, `FailureEndsCapture`,
`BusIsReleased`, `EndIsAnnounced`, `ViewSettles`, `WaitingEnds`, `LoadSettles`, `RunsEnd`),
which the prover cannot treat. Every invariant of a run is a theorem.

## 5. What is left out

Not modelled, by component:

- `CaptureService._run`, the routine that decodes while capturing: the
  application installs the deferred one. `status()` copies fields.
- The driver below `KvaserPassiveChannel` and its configuration.
- Of the Live tab: the grouped table, logical messages, highlighting, and the loading
  of DBC files (`live_save_integration.py:438`). Nothing reads the decoder that is
  loaded: the view that did (`live_capture.py:382`) is overridden
  (`bounded_live_capture.py:203`). Its counter of loads would not cover two cases: a
  loaded set asked for again while another is being loaded returns early and the other
  takes effect, and a set that cannot be loaded leaves the decoder of the one before.
- Of filters: those of decoded messages, which have other conditions under the same
  groups, and how a text becomes a number or a pattern.
- Of transport: CAN identifiers and addresses (`j1939.py`), time stamps and
  metadata, and the sort at the end of the batch pipeline, which feeds the same
  reassemblers. An abort is matched without its PGN, as in the code. There is no
  time-out of a session in the code, so there is none in the model. Data frames
  have their full data bytes or are rejected as truncated.
- Of the search index: the queries. Of the logical cache: the queries of the table and
  the viewer without an image.
- Of UDS latencies: the percentiles over sampled latencies, the limit of the unmatched
  responses that are listed, and the shape of the artifact.
- Of analyses: findings, hypotheses and annotations, and runs with several artifacts.
- Of the stored view: the filter of the older message tab, markers, labels and texts.
- Import, renaming and migrations of a project: each is one transaction with a copy of
  a file before it.
- A session's content: a frame is a number, a marker a capture and a number.
- Other analyses and decoders are functions of one record or of a finished session,
  without control to model; editors, docks, help, themes and charts have
  no state that another thread shares.

Outside of the fault models: a power loss under `synchronous=OFF` (the cache's image);
two programs on one project; in `AnalysisRuns`, deaths of the program between operations,
when nothing of a run or removal is under way.

What reading the code for the models showed beside the refutations:

- A run whose process dies stays RUNNING or PENDING: no transition leads out of these but
  those of its thread. `OutcomeIsTrue` speaks of runs that ended.
- A cancellation between the last artifact and the last test leaves a CANCELLED run with
  an artifact. `ArtifactsAreWhole` allows it: the artifact is whole and listed.
- A set that is deleted between the validation of a run's input and the insertion of its
  row leaves a run that names no set.
- A removal that broke off at a file and is tried again leaves the copy of the imported
  original without an owner (`session_management.py:50`); `torn` marks these sessions.
- A crash between `register_session` and `finalize_session` leaves a row with a count
  of 0 for a whole file.
- A filter over the logical messages that is dropped because the image was loaded again
  leaves its buttons disabled (`sqlite_logical_session_view.py:290`, `:313`).
- A search window that finds the index current keeps the error of an earlier build
  (`persistent_search_index.py:117`).
- A session that is changed and changed back between a build and the next look makes the
  index of the version between believable; `IndexFollowsSession` has one change.
- A tab that is closed while an evidence waits for its row never calls the callback.
  Neither does a dropped navigation (refutation 10): the comparison dialog then keeps its
  controls disabled until it is closed, or another request fails it
  (`comparison_visualization.py:198`).
- A location that arrives late for an older evidence takes the place of the newer one's
  navigation: nothing cancels the older request (`comparison_evidence_navigation.py:138`).
- The editor's test of a logical message uses the older compiler, to which a group with
  one condition on channels, payloads or masks is not valid; a view's OR may match it
  (`enhanced_filter_manager.py:226`, `static_active_filters.py:374`).

## 6. Plan

Done: sections 2 to 4. What would come next, in this order:

1. Imports and migrations of a project; the filters of decoded messages beside
   `LogicalCache`; the coordinator of evidence beside `StoredView`.
2. The seven hazards that no property of a run covers, because the code does what one would
   forbid: six are refuted by configurations of section 3 (3, 4, 7, 9, 10 and 12); the
   seventh is a thread that dies inside its exception handler.
