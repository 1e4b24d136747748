------------------------------ MODULE LogicalCache ------------------------------
(***************************************************************************)
(* The image of the logical messages of one stored session                 *)
(* (app/logical_cache.py), the worker process that builds it               *)
(* (crt_logical_messages_worker.py), and the tab that starts the worker,   *)
(* opens its result and runs filters over it in the thread pool            *)
(* (gui/sqlite_logical_session_view.py, gui/stored_logical_sql_model.py).  *)
(*                                                                         *)
(* A row of an image is known by what it was made of: the version of the   *)
(* session's files and that of the DBC file (0: without DBC).  The files   *)
(* may be changed by other programs at any moment; each change makes a     *)
(* version that was never there before.                                    *)
(***************************************************************************)
EXTENDS Naturals, Sequences

CONSTANTS
    Messages,       \* logical messages of the session
    Attempts,       \* tries of os.replace and of unlink (10 and 5 in the code)
    MaxLoads,       \* bound: worker processes ever started
    MaxEdits,       \* bound: changes of the session's files and of the DBC file
    MaxFilters,     \* bound: filter tasks ever started
    MaxWorkerFailures \* bound: steps of a worker that fail, workers that crash

ASSUME CacheAssumption ==
    /\ Messages \in Nat \ {0} /\ Attempts \in Nat \ {0}
    /\ MaxLoads \in Nat /\ MaxEdits \in Nat /\ MaxFilters \in Nat /\ MaxWorkerFailures \in Nat

Filters == 1 .. MaxFilters

VARIABLES
    data,           \* version of the session file or its messages CSV
    dbcFile,        \* version of the DBC file
    cache,          \* the image at its path, or NoImage
    temporary,      \* the image under construction, or NoImage
    worker,         \* the worker process: where it is, --force, the fingerprint it
                    \* has taken, the DBC file it has loaded, tries of os.replace
    loads,          \* workers started
    view,           \* the tab: its state, and whether the DBC file is active
    shown,          \* the image its model has open, or NoImage
    visible,        \* the image the visible rows were chosen from, or NoImage
    criteria,       \* whether the rows were last asked for with a criterion
    filter,         \* the filter tasks
    workerFailures

sources   == <<data, dbcFile>>
images    == <<cache, temporary>>
tab       == <<view, shown, visible, criteria>>
cachevars == <<sources, worker, images, loads, tab, filter, workerFailures>>

-----------------------------------------------------------------------------

Made(d, c) == [data |-> d, dbc |-> c]
NoImage == [build |-> 0, rows |-> <<>>, of |-> Made(0, 0), committed |-> FALSE]
NoWorker == [at |-> "none", force |-> FALSE, signed |-> Made(0, 0), decoder |-> 0, tries |-> 0]
NoFilter == [state |-> "none", newest |-> FALSE, image |-> NoImage]

(* The DBC part of a signature: the content of the files that are active.   *)
ActiveDbc == IF view.dbc THEN dbcFile ELSE 0

(* _analysis_fingerprint of the files as they are.                          *)
AnalysisFingerprint == Made(data, ActiveDbc)

(* Slip: only the session's files are compared.                             *)
BelievesData(image, files) == image.committed /\ image.of.data = files.data

(* read_logical_cache_info and the comparison in ensure_logical_cache: the  *)
(* metadata is written last, and a wrong count of rows counts as no image.  *)
Believes(image, files) == image.committed /\ image.of = files

(* Somebody has the image at the cache path open.                           *)
InUse == \/ shown # NoImage /\ shown.build = cache.build
         \/ \E f \in Filters : filter[f].state = "open" /\ filter[f].image.build = cache.build

CacheInit ==
    /\ data = 1 /\ dbcFile = 1
    /\ cache = NoImage /\ temporary = NoImage
    /\ worker = NoWorker /\ loads = 0
    /\ view = [state |-> "idle", dbc |-> FALSE]
    /\ shown = NoImage /\ visible = NoImage /\ criteria = FALSE
    /\ filter = [f \in Filters |-> NoFilter]
    /\ workerFailures = 0

-----------------------------------------------------------------------------
(* The worker process.                                                      *)

(* ensure_logical_cache takes the fingerprint before it reads anything.     *)
Sign ==
    /\ worker.at = "started"
    /\ worker' = [worker EXCEPT !.at = "signed", !.signed = AnalysisFingerprint]
    /\ UNCHANGED <<sources, images, loads, tab, filter, workerFailures>>

(* The image that is there is used, or another one is built.                *)
Decide ==
    /\ worker.at = "signed"
    /\ worker' = [worker EXCEPT !.at = IF ~worker.force /\ Believes(cache, worker.signed)
                                       THEN "written" ELSE "building"]
    /\ UNCHANGED <<sources, images, loads, tab, filter, workerFailures>>

(* _build_logical_cache: what a dead worker left is removed, the DBC files  *)
(* are loaded, the empty tables are made.                                   *)
OpenTemporary ==
    /\ worker.at = "building"
    /\ worker' = [worker EXCEPT !.at = "inserting", !.decoder = ActiveDbc]
    /\ temporary' = [NoImage EXCEPT !.build = loads]
    /\ UNCHANGED <<sources, cache, loads, tab, filter, workerFailures>>

Insert ==
    /\ worker.at = "inserting" /\ Len(temporary.rows) < Messages
    /\ temporary' = [temporary EXCEPT !.rows = Append(@, Made(data, worker.decoder))]
    /\ UNCHANGED <<sources, worker, cache, loads, tab, filter, workerFailures>>

(* Slip: the fingerprint of the files as they are by now.                   *)
CommitLate ==
    /\ worker.at = "inserting" /\ Len(temporary.rows) = Messages
    /\ temporary' = [temporary EXCEPT !.of = AnalysisFingerprint, !.committed = TRUE]
    /\ worker' = [worker EXCEPT !.at = "replacing"]
    /\ UNCHANGED <<sources, cache, loads, tab, filter, workerFailures>>

(* The metadata with the fingerprint taken before, then the commit.         *)
Commit ==
    /\ worker.at = "inserting" /\ Len(temporary.rows) = Messages
    /\ temporary' = [temporary EXCEPT !.of = worker.signed, !.committed = TRUE]
    /\ worker' = [worker EXCEPT !.at = "replacing"]
    /\ UNCHANGED <<sources, cache, loads, tab, filter, workerFailures>>

(* _atomic_replace, one try: where open files are locked (Windows) an image *)
(* in use cannot be replaced, and the last try raises.                      *)
Replace ==
    /\ worker.at = "replacing"
    /\ \/ /\ InUse
          /\ worker' = [worker EXCEPT !.tries = @ + 1,
                            !.at = IF worker.tries + 1 = Attempts THEN "failing" ELSE @]
          /\ UNCHANGED images
       \/ /\ cache' = temporary /\ temporary' = NoImage
          /\ worker' = [worker EXCEPT !.at = "written"]
    /\ UNCHANGED <<sources, loads, tab, filter, workerFailures>>

(* The result file, and the end of the process.                             *)
WriteResult ==
    /\ worker.at = "written"
    /\ worker' = [NoWorker EXCEPT !.at = "succeeded"]
    /\ UNCHANGED <<sources, images, loads, tab, filter, workerFailures>>

Running == worker.at \in {"started", "signed", "building", "inserting", "replacing", "written"}

(* Any step may raise; what is half made is removed, and the process exits  *)
(* with 1.                                                                  *)
WorkerRaises ==
    /\ Running
    /\ workerFailures < MaxWorkerFailures /\ workerFailures' = workerFailures + 1
    /\ worker' = [NoWorker EXCEPT !.at = "failing"]
    /\ UNCHANGED <<sources, images, loads, tab, filter>>
Unwind ==
    /\ worker.at = "failing"
    /\ temporary' = NoImage
    /\ worker' = [NoWorker EXCEPT !.at = "failed"]
    /\ UNCHANGED <<sources, cache, loads, tab, filter, workerFailures>>

(* The process is gone, with the temporary file as it was.                  *)
Crash ==
    /\ Running
    /\ workerFailures < MaxWorkerFailures /\ workerFailures' = workerFailures + 1
    /\ worker' = [NoWorker EXCEPT !.at = "failed"]
    /\ UNCHANGED <<sources, images, loads, tab, filter>>

WorkerStep ==
    \/ Sign \/ Decide \/ OpenTemporary \/ Insert \/ Commit \/ Replace
    \/ WriteResult \/ Unwind

-----------------------------------------------------------------------------
(* The tab, in the GUI thread.                                              *)

(* _local_filter_generation counts up: a task under way knows that it is no *)
(* longer the newest, which is all that generations are compared for.       *)
NewGeneration == [f \in Filters |-> [filter[f] EXCEPT !.newest = FALSE]]

(* _stop_logical_process kills the worker; its signals are blocked.         *)
Launch(force) ==
    /\ loads < MaxLoads /\ loads' = loads + 1
    /\ worker' = [NoWorker EXCEPT !.at = "started", !.force = force]

(* _start_embedded_load: by a click on the tab or on the button (force).    *)
Load(force) ==
    /\ view.state \in {"idle", "ready", "failed"}
    /\ Launch(force)
    /\ view' = [view EXCEPT !.state = "loading"]
    /\ shown' = NoImage /\ visible' = NoImage /\ criteria' = FALSE
    /\ filter' = NewGeneration
    /\ UNCHANGED <<sources, images, workerFailures>>

(* reload_logical_messages: another set of active DBC files.  The worker is *)
(* killed; the next one starts at once if the tab is in front.              *)
ChangeDbc ==
    /\ view.state # "closed"
    /\ shown' = NoImage /\ visible' = NoImage /\ criteria' = FALSE
    /\ \/ /\ Launch(TRUE)
          /\ view' = [state |-> "loading", dbc |-> ~view.dbc]
       \/ /\ worker' = NoWorker
          /\ view' = [state |-> "idle", dbc |-> ~view.dbc]
          /\ UNCHANGED loads
    /\ filter' = NewGeneration
    /\ UNCHANGED <<sources, images, workerFailures>>

(* _logical_process_finished: the image at the path is opened.              *)
OpenImage ==
    /\ view.state = "loading" /\ worker.at = "succeeded"
    /\ worker' = NoWorker
    /\ IF cache # NoImage
         THEN shown' = cache /\ view' = [view EXCEPT !.state = "ready"]
         ELSE view' = [view EXCEPT !.state = "failed"] /\ UNCHANGED shown
    /\ visible' = NoImage
    /\ UNCHANGED <<sources, images, loads, criteria, filter, workerFailures>>

(* Slip: the tab waits on when the worker has failed.                       *)
IgnoreFailure ==
    /\ view.state = "loading" /\ worker.at = "failed"
    /\ worker' = NoWorker
    /\ UNCHANGED <<sources, images, loads, tab, filter, workerFailures>>

ShowFailure ==
    /\ view.state = "loading" /\ worker.at = "failed"
    /\ worker' = NoWorker
    /\ view' = [view EXCEPT !.state = "failed"]
    /\ UNCHANGED <<sources, images, loads, shown, visible, criteria,
                   filter, workerFailures>>

(* _apply_message_filters, with a criterion: the newest generation counts.  *)
StartFilter(f) ==
    /\ view.state = "ready" /\ filter[f].state = "none"
    /\ \A g \in Filters : g < f => filter[g].state # "none"
    /\ filter' = [NewGeneration EXCEPT ![f] = [state |-> "queued", newest |-> TRUE,
                                               image |-> NoImage]]
    /\ criteria' = TRUE
    /\ UNCHANGED <<sources, images, worker, loads, view, shown, visible, workerFailures>>

Filtered == visible # NoImage \/ criteria

(* _apply_message_filters without any criterion, by the box of the project's *)
(* filters: all rows are shown at once, and the generation does not count   *)
(* up, so that a task under way is still the newest.                        *)
ShowAll ==
    /\ view.state = "ready" /\ Filtered
    /\ visible' = NoImage /\ criteria' = FALSE
    /\ UNCHANGED <<sources, images, worker, loads, view, shown, filter, workerFailures>>

(* _clear_message_filters: all rows, and the generation counts up.          *)
ClearFilters ==
    /\ view.state = "ready"
    /\ Filtered \/ \E f \in Filters : filter[f].newest
    /\ filter' = NewGeneration
    /\ visible' = NoImage /\ criteria' = FALSE
    /\ UNCHANGED <<sources, images, worker, loads, view, shown, workerFailures>>

(* shutdown.                                                                *)
CloseTab ==
    /\ view.state # "closed"
    /\ view' = [view EXCEPT !.state = "closed"]
    /\ filter' = NewGeneration
    /\ shown' = NoImage /\ visible' = NoImage /\ criteria' = FALSE
    /\ worker' = NoWorker
    /\ UNCHANGED <<sources, images, loads, workerFailures>>

(* The session is opened in a new tab; late filters have nobody to tell.    *)
OpenTab ==
    /\ view.state = "closed" /\ loads < MaxLoads
    /\ view' = [view EXCEPT !.state = "idle"]
    /\ UNCHANGED <<sources, images, worker, loads, shown, visible, criteria, filter,
                   workerFailures>>

-----------------------------------------------------------------------------
(* The filter tasks, in the thread pool.                                    *)

(* run opens the image at the path, whichever is there by now.              *)
OpenFilter(f) ==
    /\ filter[f].state = "queued"
    /\ filter' = [filter EXCEPT ![f].state = IF cache = NoImage THEN "failed" ELSE "open",
                                ![f].image = cache]
    /\ UNCHANGED <<sources, images, worker, loads, tab, workerFailures>>
EndFilter(f) ==
    /\ filter[f].state = "open"
    /\ filter' = [filter EXCEPT ![f].state = "completed"]
    /\ UNCHANGED <<sources, images, worker, loads, tab, workerFailures>>

(* _message_filters_applied and _message_filters_failed.                    *)
ShowFiltered(f) ==
    /\ filter[f].state \in {"completed", "failed"}
    /\ filter' = [filter EXCEPT ![f] = [NoFilter EXCEPT !.state = "shown"]]
    /\ visible' = IF filter[f].state = "completed" /\ filter[f].newest
                    THEN filter[f].image ELSE visible
    /\ UNCHANGED <<sources, images, worker, loads, view, shown, criteria, workerFailures>>

(* Another program changes a file.                                          *)
EditData ==
    /\ data + dbcFile < MaxEdits + 2 /\ data' = data + 1
    /\ UNCHANGED <<dbcFile, images, worker, loads, tab, filter, workerFailures>>
EditDbc ==
    /\ data + dbcFile < MaxEdits + 2 /\ dbcFile' = dbcFile + 1
    /\ UNCHANGED <<data, images, worker, loads, tab, filter, workerFailures>>

CacheNext ==
    \/ WorkerStep \/ WorkerRaises \/ Crash
    \/ \E force \in BOOLEAN : Load(force)
    \/ ChangeDbc \/ OpenImage \/ ShowFailure \/ ShowAll \/ ClearFilters \/ CloseTab \/ OpenTab
    \/ \E f \in Filters : StartFilter(f) \/ OpenFilter(f) \/ EndFilter(f) \/ ShowFiltered(f)
    \/ EditData \/ EditDbc

(* The process runs and the event loop hands its end to the tab.            *)
CacheFairness == WF_cachevars(WorkerStep) /\ WF_cachevars(OpenImage \/ ShowFailure)

CacheSpec == CacheInit /\ [][CacheNext]_cachevars /\ CacheFairness

-----------------------------------------------------------------------------

Mades == [data : 0 .. MaxEdits + 1, dbc : 0 .. MaxEdits + 1]
Images == [build : 0 .. MaxLoads, rows : Seq(Mades), of : Mades, committed : BOOLEAN]

Workers == [at : {"none", "started", "signed", "building", "inserting", "replacing",
                  "written", "succeeded", "failing", "failed"},
            force : BOOLEAN, signed : Mades, decoder : 0 .. MaxEdits + 1,
            tries : 0 .. Attempts]
Views == [state : {"idle", "loading", "ready", "failed", "closed"}, dbc : BOOLEAN]
Tasks == [state : {"none", "queued", "open", "completed", "failed", "shown"},
          newest : BOOLEAN, image : Images]

CacheTypeOK ==
    /\ data \in 1 .. MaxEdits + 1 /\ dbcFile \in 1 .. MaxEdits + 1
    /\ {cache, temporary, shown, visible} \subseteq Images
    /\ worker \in Workers
    /\ loads \in 0 .. MaxLoads
    /\ view \in Views /\ criteria \in BOOLEAN
    /\ filter \in [Filters -> Tasks]
    /\ workerFailures \in 0 .. MaxWorkerFailures

(* An image that the next load would reuse has every message, each made of  *)
(* the files as they are: neither a file changed while it was read nor a    *)
(* worker that died, failed or was killed can leave one that is believed    *)
(* and wrong.                                                               *)
BelievedIsCurrent ==
    \A dbc \in {0, dbcFile} :
        Believes(cache, Made(data, dbc))
            => cache.rows = [i \in 1 .. Messages |-> Made(data, dbc)]

(* What the tab shows as loaded is an image with or without DBC signals, as *)
(* asked for by the last change of the active DBC files, however the change *)
(* met the worker.                                                          *)
ShownIsAsked ==
    view.state = "ready" => (shown.of.dbc # 0) = view.dbc /\ Len(shown.rows) = Messages

(* The visible rows, known by their numbers, were chosen in the image that  *)
(* is shown: a filter that ends after a reload is dropped.                  *)
FilterFitsShown == visible # NoImage => visible = shown

(* The tab shows the image it was asked for, and numbers of rows never come *)
(* from another one.  Which question they answer is another matter, of      *)
(* UnfilteredShowsAll.                                                      *)
TabIsExact == ShownIsAsked /\ FilterFitsShown

(* A tab that is loading ends with a table or a message, whatever the       *)
(* worker meets.                                                            *)
LoadSettles == view.state = "loading" ~> view.state # "loading"

(* The handoff document of the filters has no older result replace a newer  *)
(* question: rows last asked for without a criterion are all there.         *)
UnfilteredShowsAll == ~criteria => visible = NoImage

-----------------------------------------------------------------------------
(* Why the properties hold.  Files only get newer and a fingerprint is      *)
(* taken before anything is read, so that a row is never older than the     *)
(* fingerprint of its image; whether the DBC file is active cannot change   *)
(* under a worker, which is killed by the change.                           *)

MadeSince(row, of) ==
    /\ of.data <= row.data /\ row.data <= data
    /\ of.dbc <= row.dbc /\ row.dbc <= dbcFile
    /\ of.dbc = 0 <=> row.dbc = 0

Whole(image) ==
    /\ image.committed
    /\ Len(image.rows) = Messages
    /\ \A i \in 1 .. Messages : MadeSince(image.rows[i], image.of)

AsAsked(image) == (image.of.dbc # 0) = view.dbc

CacheInv == cache = NoImage \/ Whole(cache)

(* A worker lives only while its tab waits for it.                          *)
OwnedInv ==
    /\ worker.at # "none" => view.state = "loading"
    /\ worker.at # "failing" => worker.tries < Attempts

SignedInv ==
    worker.at \in {"signed", "building", "inserting", "replacing", "written"} =>
        /\ worker.signed.data <= data /\ worker.signed.dbc <= dbcFile
        /\ (worker.signed.dbc # 0) = view.dbc

InsertedInv ==
    worker.at = "inserting" =>
        /\ worker.signed.dbc <= worker.decoder /\ worker.decoder <= dbcFile
        /\ worker.signed.dbc = 0 <=> worker.decoder = 0
        /\ Len(temporary.rows) <= Messages
        /\ \A i \in 1 .. Len(temporary.rows) : MadeSince(temporary.rows[i], worker.signed)

ReplacedInv ==
    /\ worker.at = "replacing" => Whole(temporary) /\ AsAsked(temporary)
    /\ worker.at \in {"written", "succeeded"} => Whole(cache) /\ AsAsked(cache)

(* While a table is shown there is no worker: the image it shows is the one *)
(* at the path, which is what the newest filter reads.                      *)
TabInv ==
    /\ view.state = "ready" => shown = cache /\ Whole(cache) /\ AsAsked(cache)
    /\ view.state # "ready" => shown = NoImage
    /\ visible \in {NoImage, shown}

FilterInv ==
    \A f \in Filters : filter[f].newest =>
        /\ view.state = "ready"
        /\ filter[f].state \in {"open", "completed"} => filter[f].image = cache

CacheIInv == CacheInv /\ OwnedInv /\ SignedInv /\ InsertedInv /\ ReplacedInv /\ TabInv /\ FilterInv
=============================================================================
