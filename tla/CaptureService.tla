---------------------------- MODULE CaptureService ----------------------------
(***************************************************************************)
(* The capture service of app/capture_service.py with the worker routine   *)
(* the application installs, DeferredLogicalCaptureService._run.           *)
(*                                                                         *)
(* Two threads share the service.  The GUI thread starts and stops         *)
(* captures and adds markers; add_marker tests the state under the lock    *)
(* but puts the marker into the queue after releasing it.  The worker      *)
(* thread reads frames from a channel, writes every frame to the session   *)
(* file and to the CSV file, drains the marker queue into the marker file  *)
(* and publishes batches to the live buffer.  Every step of the worker     *)
(* that touches a file or the channel may raise.                           *)
(*                                                                         *)
(* A frame is its sequence number, a marker is the capture it was accepted *)
(* in and its number.  A file is the sequence of the records it was given; *)
(* what a crash leaves of it is the subject of SessionStream.              *)
(***************************************************************************)
EXTENDS Naturals, Sequences

CONSTANTS
    PublishEvery,   \* frames that force a publication (256 in the code)
    MaxFrames,      \* bound: frames the channel supplies to one capture
    MaxMarkers,     \* bound: markers accepted in all
    MaxCaptures,    \* bound: calls of start() that succeed
    MaxFaults       \* bound: file operations that raise

ASSUME BoundsAssumption ==
    /\ PublishEvery \in Nat \ {0}
    /\ MaxFrames \in Nat
    /\ MaxMarkers \in Nat
    /\ MaxCaptures \in Nat
    /\ MaxFaults \in Nat

VARIABLES
    state,          \* CaptureState, shared under the lock
    stopEvent,      \* the stop event of the capture
    originSet,      \* _capture_origin_ns is not None
    markerQueue,    \* markers put and not yet drained
    lastMarker,     \* _last_marker
    live,           \* every frame given to the live buffer, in order
    shown,          \* published frame_count and marker_count
    persist,        \* persist_to_disk of the configuration
    timed,          \* duration_s is not None
    gpc,            \* where the GUI thread is inside add_marker
    wpc,            \* where the worker thread is inside _run
    channel,        \* the channel context: "closed", "open", "failed"
    frame,          \* the frame the worker has just read
    pendingLive,    \* frames written and not yet given to the live buffer
    frameCount,     \* local_frame_count
    markerCount,    \* local_marker_count
    drained,        \* markers the present drain has taken
    sessionHandle, sessionRows, sessionFooter,  \* the session file
    csvHandle, csvRows,                         \* the frame CSV file
    markerHandle, markerRows,                   \* the marker file
    accepted,       \* history: markers add_marker has accepted, this capture
    earlyStop,      \* history: stop() found the capture still starting
    lateReads,      \* history: frames read after the stop event was set
    nextFrame,      \* the next sequence number the channel supplies
    nextMarker,     \* the next marker number
    captures,       \* captures started
    faults          \* file operations that have raised

shared  == <<state, stopEvent, originSet>>
gui     == <<markerQueue, lastMarker, gpc, accepted, earlyStop, nextMarker>>
config  == <<persist, timed, captures>>
counts  == <<frameCount, markerCount, drained>>
session == <<sessionHandle, sessionRows, sessionFooter>>
csv     == <<csvHandle, csvRows>>
markers == <<markerHandle, markerRows>>
files   == <<session, csv, markers>>
input   == <<channel, frame, lateReads, nextFrame>>
view    == <<live, pendingLive, shown>>

vars == <<shared, gui, config, counts, files, input, view, wpc, faults>>

-----------------------------------------------------------------------------

CaptureState == {"idle", "starting", "running", "stopping", "stopped", "error"}

Active == {"starting", "running", "stopping"}

NoFooter == [kind |-> "none"]
NoMarker == [capture |-> 0, number |-> 0]

(* Slip: every footer says that the close was clean.                        *)
CleanFooter(count, frames, marks, clean) ==
    [kind |-> "end", count |-> count, frames |-> frames, markers |-> marks,
     clean |-> TRUE]

(* The footer SessionStreamWriter.close writes: the writer's own count and  *)
(* the metadata the service gives it.                                       *)
Footer(count, frames, marks, clean) ==
    [kind |-> "end", count |-> count, frames |-> frames, markers |-> marks,
     clean |-> clean]

Alive == wpc \notin {"none", "dead"}

(* A file operation raises.                                                 *)
Fault == faults < MaxFaults /\ faults' = faults + 1

-----------------------------------------------------------------------------

Init ==
    /\ state = "idle" /\ stopEvent = FALSE /\ originSet = FALSE
    /\ markerQueue = <<>> /\ lastMarker = NoMarker
    /\ live = <<>> /\ pendingLive = <<>>
    /\ shown = [frames |-> 0, markers |-> 0]
    /\ persist = FALSE /\ timed = FALSE
    /\ gpc = "idle" /\ wpc = "none"
    /\ channel = "closed" /\ frame = 0
    /\ frameCount = 0 /\ markerCount = 0 /\ drained = 0
    /\ sessionHandle = "unopened" /\ sessionRows = <<>>
    /\ sessionFooter = NoFooter
    /\ csvHandle = "unopened" /\ csvRows = <<>>
    /\ markerHandle = "unopened" /\ markerRows = <<>>
    /\ accepted = <<>> /\ earlyStop = FALSE /\ lateReads = 0
    /\ nextFrame = 0 /\ nextMarker = 1 /\ captures = 0 /\ faults = 0

-----------------------------------------------------------------------------
(* The GUI thread.                                                          *)

(* start() puts a new marker queue in the place of the old one.             *)
ResetMarkers ==
    lastMarker' = NoMarker /\ accepted' = <<>> /\ markerQueue' = <<>>

(* start(): refused while the worker thread is alive; otherwise every field *)
(* is reset, under the lock, and a worker is started on fresh files.        *)
Start(onDisk, duration) ==
    /\ gpc = "idle" /\ ~Alive
    /\ captures < MaxCaptures
    /\ captures' = captures + 1
    /\ persist' = onDisk /\ timed' = duration
    /\ state' = "starting" /\ stopEvent' = FALSE /\ originSet' = FALSE
    /\ ResetMarkers
    /\ live' = <<>> /\ pendingLive' = <<>>
    /\ shown' = [frames |-> 0, markers |-> 0]
    /\ frameCount' = 0 /\ markerCount' = 0 /\ drained' = 0
    /\ sessionHandle' = "unopened" /\ sessionRows' = <<>>
    /\ sessionFooter' = NoFooter
    /\ csvHandle' = "unopened" /\ csvRows' = <<>>
    /\ markerHandle' = "unopened" /\ markerRows' = <<>>
    /\ channel' = "closed" /\ frame' = 0 /\ nextFrame' = 0
    /\ earlyStop' = FALSE /\ lateReads' = 0
    /\ wpc' = "lookup"
    /\ UNCHANGED <<gpc, nextMarker, faults>>

(* stop(): the state moves to STOPPING and the event is set, under the lock. *)
Stop ==
    /\ gpc = "idle"
    /\ state' = IF state \in {"starting", "running"} THEN "stopping" ELSE state
    /\ stopEvent' = TRUE
    /\ earlyStop' = (earlyStop \/ (state = "starting"))
    /\ UNCHANGED <<originSet, markerQueue, lastMarker, gpc, accepted,
                   nextMarker, config, counts, files, input, view, wpc, faults>>

(* add_marker(), first critical section: the state test and the timestamp.  *)
AddMarkerAccept ==
    /\ gpc = "idle"
    /\ state = "running" /\ originSet
    /\ nextMarker <= MaxMarkers
    /\ gpc' = "put"
    /\ accepted' = Append(accepted, [capture |-> captures, number |-> nextMarker])
    /\ nextMarker' = nextMarker + 1
    /\ UNCHANGED <<shared, markerQueue, lastMarker, earlyStop, config, counts,
                   files, input, view, wpc, faults>>

(* add_marker(), outside the lock: the marker is put into the queue.        *)
AddMarkerPut ==
    /\ gpc = "put"
    /\ gpc' = "last"
    /\ markerQueue' = Append(markerQueue, accepted[Len(accepted)])
    /\ UNCHANGED <<shared, lastMarker, accepted, earlyStop, nextMarker, config,
                   counts, files, input, view, wpc, faults>>

(* add_marker(), second critical section: the marker becomes the last one.  *)
AddMarkerReturn ==
    /\ gpc = "last"
    /\ gpc' = "idle"
    /\ lastMarker' = accepted[Len(accepted)]
    /\ UNCHANGED <<shared, markerQueue, accepted, earlyStop, nextMarker, config,
                   counts, files, input, view, wpc, faults>>

-----------------------------------------------------------------------------
(* The worker: opening.                                                     *)

(* The channel provider answers, and the configured channel may be missing. *)
Lookup ==
    /\ wpc = "lookup"
    /\ wpc' \in {IF persist THEN "openSession" ELSE "enter", "errShow"}
    /\ UNCHANGED <<shared, gui, config, counts, files, input, view, faults>>

(* The three writers are opened one after another; the file may be open     *)
(* when the write of its header raises.                                     *)
OpenSession ==
    /\ wpc = "openSession"
    /\ \/ sessionHandle' = "open" /\ wpc' = "openCsv" /\ UNCHANGED faults
       \/ sessionHandle' \in {"unopened", "open"} /\ wpc' = "errShow" /\ Fault
    /\ UNCHANGED <<shared, gui, config, counts, sessionRows, sessionFooter, csv,
                   markers, input, view>>

OpenCsv ==
    /\ wpc = "openCsv"
    /\ \/ csvHandle' = "open" /\ wpc' = "openMarkers" /\ UNCHANGED faults
       \/ csvHandle' \in {"unopened", "open"} /\ wpc' = "errShow" /\ Fault
    /\ UNCHANGED <<shared, gui, config, counts, session, csvRows, markers,
                   input, view>>

OpenMarkers ==
    /\ wpc = "openMarkers"
    /\ \/ markerHandle' = "open" /\ wpc' = "enter" /\ UNCHANGED faults
       \/ markerHandle' \in {"unopened", "open"} /\ wpc' = "errShow" /\ Fault
    /\ UNCHANGED <<shared, gui, config, counts, session, csv, markerRows,
                   input, view>>

(* __enter__ of the channel: it may block, and it may raise.                *)
EnterChannel ==
    /\ wpc = "enter"
    /\ channel' = "open" /\ wpc' = "running"
    /\ UNCHANGED <<shared, gui, config, counts, files, frame, lateReads,
                   nextFrame, view, faults>>

EnterRaises ==
    /\ wpc = "enter"
    /\ channel' = "failed" /\ wpc' = "errShow"
    /\ UNCHANGED <<shared, gui, config, counts, files, frame, lateReads,
                   nextFrame, view, faults>>

(* The state is set to RUNNING whatever it was: a stop() that came while    *)
(* the capture was starting is kept by the event only.                      *)
SetRunning ==
    /\ wpc = "running"
    /\ state' = "running" /\ originSet' = TRUE
    /\ wpc' = "test"
    /\ UNCHANGED <<stopEvent, gui, config, counts, files, input, view, faults>>

-----------------------------------------------------------------------------
(* The worker: the loop.                                                    *)

(* Slip: another read is tried before the event is looked at.               *)
TestStopLate ==
    /\ wpc = "test"
    /\ \/ wpc' = "read"
       \/ (stopEvent \/ timed) /\ wpc' = "leave"
    /\ UNCHANGED <<shared, gui, config, counts, files, input, view, faults>>

(* The loop condition: the event, or the deadline of a timed capture.       *)
TestStop ==
    /\ wpc = "test"
    /\ \/ ~stopEvent /\ wpc' = "read"
       \/ (stopEvent \/ timed) /\ wpc' = "leave"
    /\ UNCHANGED <<shared, gui, config, counts, files, input, view, faults>>

(* channel.read() returns a frame.                                          *)
ReadFrame(f) ==
    /\ wpc = "read"
    /\ frame' = f /\ nextFrame' = f + 1
    /\ lateReads' = IF stopEvent THEN lateReads + 1 ELSE lateReads
    /\ wpc' = IF persist THEN "session" ELSE "drain"
    /\ IF persist
         THEN UNCHANGED <<pendingLive, frameCount>>
         ELSE pendingLive' = Append(pendingLive, f) /\ frameCount' = frameCount + 1
    /\ UNCHANGED <<shared, gui, config, markerCount, drained, files, channel,
                   live, shown, faults>>

(* channel.read() times out.                                                *)
ReadNone ==
    /\ wpc = "read"
    /\ wpc' = "drain"
    /\ UNCHANGED <<shared, gui, config, counts, files, input, view, faults>>

(* channel.read() raises: the driver failed.                                *)
ReadRaises ==
    /\ wpc = "read"
    /\ wpc' = "leaveErr"
    /\ UNCHANGED <<shared, gui, config, counts, files, input, view, faults>>

(* Slip: a failed write is logged and the frame goes on.                    *)
SwallowWriteError ==
    /\ wpc = "session"
    /\ sessionRows' \in {sessionRows, Append(sessionRows, frame)}
    /\ wpc' = "csv"
    /\ UNCHANGED <<shared, gui, config, counts, sessionHandle, sessionFooter,
                   csv, markers, input, view, faults>>

(* session_writer.append: a write that raises leaves the record out, a      *)
(* periodic flush that raises comes after the record was counted.           *)
AppendSession ==
    /\ wpc = "session"
    /\ \/ /\ sessionRows' = Append(sessionRows, frame)
          /\ wpc' = "csv" /\ UNCHANGED faults
       \/ /\ sessionRows' \in {sessionRows, Append(sessionRows, frame)}
          /\ wpc' = "leaveErr" /\ Fault
    /\ UNCHANGED <<shared, gui, config, counts, sessionHandle, sessionFooter,
                   csv, markers, input, view>>

(* frame_writer.append, then the frame is counted and queued for the view.  *)
AppendCsv ==
    /\ wpc = "csv"
    /\ \/ /\ csvRows' = Append(csvRows, frame)
          /\ pendingLive' = Append(pendingLive, frame)
          /\ frameCount' = frameCount + 1
          /\ wpc' = "drain" /\ UNCHANGED faults
       \/ /\ csvRows' \in {csvRows, Append(csvRows, frame)}
          /\ wpc' = "leaveErr" /\ Fault
          /\ UNCHANGED <<pendingLive, frameCount>>
    /\ UNCHANGED <<shared, gui, config, markerCount, drained, session,
                   csvHandle, markers, input, live, shown>>

(* _drain_markers: one marker per step, until the queue is found empty; the *)
(* caller adds the number taken only when the drain returns.                *)
DrainOne ==
    /\ markerQueue # <<>>
    /\ persist => markerHandle = "open"
    /\ markerQueue' = Tail(markerQueue)
    /\ markerRows' = IF persist THEN Append(markerRows, Head(markerQueue))
                                ELSE markerRows
    /\ drained' = drained + 1
    /\ UNCHANGED <<shared, lastMarker, gpc, accepted, earlyStop, nextMarker,
                   config, frameCount, markerCount, session, csv, markerHandle,
                   input, view, wpc, faults>>

(* The append raises, on a closed file or because the write or its flush    *)
(* fails.  The marker has left the queue and the drain's count is lost.     *)
DrainRaises(raise) ==
    /\ markerQueue # <<>> /\ persist
    /\ markerQueue' = Tail(markerQueue)
    /\ \/ markerHandle # "open" /\ UNCHANGED <<markerRows, faults>>
       \/ /\ markerHandle = "open" /\ Fault
          /\ markerRows' \in {markerRows, Append(markerRows, Head(markerQueue))}
    /\ drained' = 0 /\ wpc' = raise
    /\ UNCHANGED <<shared, lastMarker, gpc, accepted, earlyStop, nextMarker,
                   config, frameCount, markerCount, session, csv, markerHandle,
                   input, view>>

DrainEmpty(next) ==
    /\ markerQueue = <<>>
    /\ markerCount' = markerCount + drained /\ drained' = 0
    /\ wpc' = next
    /\ UNCHANGED <<shared, gui, config, frameCount, files, input, view, faults>>

Drain(next, raise) == DrainOne \/ DrainRaises(raise) \/ DrainEmpty(next)

DrainInLoop == wpc = "drain" /\ Drain("publish", "leaveErr")

(* The publication to the live buffer: due after PublishEvery frames or 0.1 *)
(* s, which may have passed at any iteration.                               *)
SkipPublish ==
    /\ wpc = "publish"
    /\ Len(pendingLive) < PublishEvery
    /\ wpc' = "test"
    /\ UNCHANGED <<shared, gui, config, counts, files, input, view, faults>>

(* Slip: the batch is not cleared.                                          *)
PublishTwice ==
    /\ wpc = "publish"
    /\ live' = live \o pendingLive
    /\ wpc' = "progress"
    /\ UNCHANGED <<shared, gui, config, counts, files, input, shown,
                   pendingLive, faults>>

PublishLive ==
    /\ wpc = "publish"
    /\ live' = live \o pendingLive /\ pendingLive' = <<>>
    /\ wpc' = "progress"
    /\ UNCHANGED <<shared, gui, config, counts, files, input, shown, faults>>

(* _publish_progress, called from the loop, after closing and on an error.  *)
PublishProgress ==
    /\ \/ wpc = "progress" /\ wpc' = "test"
       \/ wpc = "lastProgress" /\ wpc' = "setStopped"
       \/ wpc = "errProgress" /\ wpc' = "setError"
    /\ shown' = [frames |-> frameCount, markers |-> markerCount]
    /\ UNCHANGED <<shared, gui, config, counts, files, input, live,
                   pendingLive, faults>>

-----------------------------------------------------------------------------
(* The worker: closing.                                                     *)

(* __exit__ of the channel after the loop has ended.                        *)
LeaveChannel ==
    /\ wpc = "leave"
    /\ channel' = "closed" /\ wpc' = "lastDrain"
    /\ UNCHANGED <<shared, gui, config, counts, files, frame, lateReads,
                   nextFrame, view, faults>>

LeaveRaises ==
    /\ wpc = "leave"
    /\ channel' = "failed" /\ wpc' = "errShow"
    /\ UNCHANGED <<shared, gui, config, counts, files, frame, lateReads,
                   nextFrame, view, faults>>

(* __exit__ of the channel while an exception leaves the block: whether it  *)
(* raises or not, the handler runs next.                                    *)
LeaveAfterError ==
    /\ wpc = "leaveErr"
    /\ channel' \in {"closed", "failed"} /\ wpc' = "errShow"
    /\ UNCHANGED <<shared, gui, config, counts, files, frame, lateReads,
                   nextFrame, view, faults>>

(* Slip: the loop's own drain is held to be enough.                         *)
NoLastDrain ==
    /\ wpc = "lastDrain" /\ wpc' = "showRest"
    /\ UNCHANGED <<shared, gui, config, counts, files, input, view, faults>>

(* The drain after the channel was left, for markers set while it closed.   *)
LastDrain == wpc = "lastDrain" /\ Drain("showRest", "errShow")

(* Slip: what waits for the next batch is forgotten.                        *)
SkipRest ==
    /\ wpc = "showRest"
    /\ wpc' = IF persist THEN "closeSession" ELSE "lastProgress"
    /\ UNCHANGED <<shared, gui, config, counts, files, input, view, faults>>

(* Slip: STOPPED is reported before the files are closed.                   *)
StoppedTooSoon ==
    /\ wpc = "showRest"
    /\ state' = "stopped" /\ originSet' = FALSE
    /\ live' = live \o pendingLive /\ pendingLive' = <<>>
    /\ wpc' = IF persist THEN "closeSession" ELSE "lastProgress"
    /\ UNCHANGED <<stopEvent, gui, config, counts, files, input, shown, faults>>

(* The frames that still wait are shown before the files are closed.        *)
ShowRest ==
    /\ wpc = "showRest"
    /\ live' = live \o pendingLive /\ pendingLive' = <<>>
    /\ wpc' = IF persist THEN "closeSession" ELSE "lastProgress"
    /\ UNCHANGED <<shared, gui, config, counts, files, input, shown, faults>>

(* session_writer.close: the writer forgets its handle before it writes the *)
(* footer; the sidecar index is written after the footer is on disk.        *)
CloseSessionWith(clean, next, raise) ==
    /\ \/ /\ sessionHandle = "open" /\ sessionHandle' = "closed"
          /\ sessionFooter' = Footer(Len(sessionRows), frameCount, markerCount,
                                     clean)
          /\ \/ wpc' = next /\ UNCHANGED faults
             \/ wpc' = raise /\ Fault
       \/ /\ sessionHandle = "open" /\ sessionHandle' = "closed"
          /\ wpc' = raise /\ Fault /\ UNCHANGED sessionFooter
       \/ /\ sessionHandle # "open" /\ wpc' = next
          /\ UNCHANGED <<sessionHandle, sessionFooter, faults>>
    /\ UNCHANGED <<shared, gui, config, counts, sessionRows, csv, markers,
                   input, view>>

(* What a handle is once its writer's close() has been called.              *)
Closed(handle) == IF handle = "open" THEN "closed" ELSE handle

(* frame_writer.close: no record is added, the last flush may raise.        *)
CloseCsvWith(next, raise) ==
    /\ csvHandle' = Closed(csvHandle)
    /\ \/ wpc' = next /\ UNCHANGED faults
       \/ csvHandle = "open" /\ wpc' = raise /\ Fault
    /\ UNCHANGED <<shared, gui, config, counts, session, csvRows, markers,
                   input, view>>

(* marker_writer.close, likewise.                                           *)
CloseMarkersWith(next, raise) ==
    /\ markerHandle' = Closed(markerHandle)
    /\ \/ wpc' = next /\ UNCHANGED faults
       \/ markerHandle = "open" /\ wpc' = raise /\ Fault
    /\ UNCHANGED <<shared, gui, config, counts, session, csv, markerRows,
                   input, view>>

CloseSession == wpc = "closeSession" /\ CloseSessionWith(TRUE, "closeCsv", "errShow")
CloseCsv     == wpc = "closeCsv" /\ CloseCsvWith("closeMarkers", "errShow")
CloseMarkers == wpc = "closeMarkers" /\ CloseMarkersWith("lastProgress", "errShow")

(* STOPPED is set last, when the files are closed.                          *)
SetStopped ==
    /\ wpc = "setStopped"
    /\ state' = "stopped" /\ originSet' = FALSE
    /\ wpc' = "dying"
    /\ UNCHANGED <<stopEvent, gui, config, counts, files, input, view, faults>>

-----------------------------------------------------------------------------
(* The worker: the exception handler.  What it raises ends the thread.      *)

(* The handler shows what was written, and clears nothing.                  *)
ErrShow ==
    /\ wpc = "errShow"
    /\ live' = live \o pendingLive
    /\ wpc' = "errDrain"
    /\ UNCHANGED <<shared, gui, config, counts, files, input, shown,
                   pendingLive, faults>>

ErrDrain == wpc = "errDrain" /\ Drain("errMarkers", "errEscape")

(* The "finally" of the last drain closes the marker file; if the drain     *)
(* raised, the thread ends there.                                           *)
ErrEscape  == wpc = "errEscape" /\ CloseMarkersWith("dying", "dying")
ErrMarkers == wpc = "errMarkers" /\ CloseMarkersWith("errSession", "dying")
ErrSession == wpc = "errSession" /\ CloseSessionWith(FALSE, "errCsv", "dying")
ErrCsv     == wpc = "errCsv" /\ CloseCsvWith("errProgress", "dying")

SetError ==
    /\ wpc = "setError"
    /\ state' = "error" /\ originSet' = FALSE
    /\ wpc' = "dying"
    /\ UNCHANGED <<stopEvent, gui, config, counts, files, input, view, faults>>

(* The thread ends after _run has returned or raised.                       *)
ThreadEnds ==
    /\ wpc = "dying"
    /\ wpc' = "dead"
    /\ UNCHANGED <<shared, gui, config, counts, files, input, view, faults>>

-----------------------------------------------------------------------------

GuiStep ==
    \/ \E onDisk, duration \in BOOLEAN : Start(onDisk, duration)
    \/ Stop
    \/ AddMarkerAccept
    \/ AddMarkerPut
    \/ AddMarkerReturn

(* The steps of the worker that do not call the channel.                    *)
OpeningStep == Lookup \/ OpenSession \/ OpenCsv \/ OpenMarkers \/ SetRunning
LoopStep ==
    \/ TestStop \/ AppendSession \/ AppendCsv \/ DrainInLoop
    \/ SkipPublish \/ PublishLive \/ PublishProgress
ClosingStep ==
    LastDrain \/ ShowRest \/ CloseSession \/ CloseCsv \/ CloseMarkers \/ SetStopped
HandlerStep ==
    \/ ErrShow \/ ErrDrain \/ ErrEscape \/ ErrMarkers \/ ErrSession \/ ErrCsv
    \/ SetError \/ ThreadEnds

WorkerStep == OpeningStep \/ LoopStep \/ ClosingStep \/ HandlerStep

(* The steps of the worker that call the channel; here any channel that     *)
(* numbers its frames from zero, without gaps.                              *)
ChannelStep ==
    \/ EnterChannel \/ EnterRaises
    \/ (nextFrame < MaxFrames /\ ReadFrame(nextFrame))
    \/ ReadNone \/ ReadRaises
    \/ LeaveChannel \/ LeaveRaises \/ LeaveAfterError

Next == GuiStep \/ WorkerStep \/ ChannelStep

Spec == Init /\ [][Next]_vars

(* The scheduler runs the worker as long as it can take a step, and a call  *)
(* of add_marker that has begun returns.  Nobody has to start or to stop.   *)
Fairness ==
    /\ WF_vars(WorkerStep \/ ChannelStep)
    /\ WF_vars(AddMarkerPut \/ AddMarkerReturn)

FairSpec == Spec /\ Fairness

-----------------------------------------------------------------------------
(* Properties.                                                              *)

WorkerPc ==
    {"none", "lookup", "openSession", "openCsv", "openMarkers", "enter",
     "running", "test", "read", "session", "csv", "drain", "publish",
     "progress", "leave", "leaveErr", "lastDrain", "showRest", "closeSession",
     "closeCsv", "closeMarkers", "lastProgress", "setStopped", "errShow",
     "errDrain", "errEscape", "errMarkers", "errSession", "errCsv",
     "errProgress", "setError", "dying", "dead"}

Handle == {"unopened", "open", "closed"}
Marker == [capture : Nat, number : Nat]
FooterType ==
    {NoFooter} \cup [kind : {"end"}, count : Nat, frames : Nat, markers : Nat,
                     clean : BOOLEAN]

TypeOfControl ==
    /\ state \in CaptureState
    /\ stopEvent \in BOOLEAN /\ originSet \in BOOLEAN
    /\ persist \in BOOLEAN /\ timed \in BOOLEAN /\ earlyStop \in BOOLEAN
    /\ gpc \in {"idle", "put", "last"}
    /\ wpc \in WorkerPc
    /\ channel \in {"closed", "open", "failed"}
TypeOfCounts ==
    /\ shown \in [frames : Nat, markers : Nat]
    /\ frame \in Nat
    /\ frameCount \in Nat /\ markerCount \in Nat /\ drained \in Nat
    /\ lateReads \in Nat /\ nextFrame \in Nat /\ nextMarker \in Nat
    /\ captures \in Nat /\ faults \in Nat
TypeOfFrames == live \in Seq(Nat) /\ pendingLive \in Seq(Nat)
TypeOfMarkers ==
    /\ markerQueue \in Seq(Marker) /\ accepted \in Seq(Marker)
    /\ lastMarker \in Marker
    /\ gpc # "idle" => accepted # <<>>
TypeOfFiles ==
    /\ sessionHandle \in Handle /\ csvHandle \in Handle
    /\ markerHandle \in Handle
    /\ sessionRows \in Seq(Nat) /\ csvRows \in Seq(Nat)
    /\ markerRows \in Seq(Marker)
    /\ sessionFooter \in FooterType

(* Every variable holds a value of its kind, and a call of add_marker that  *)
(* has left its first critical section has a marker to put.                 *)
TypeOK ==
    /\ TypeOfControl /\ TypeOfCounts /\ TypeOfFrames
    /\ TypeOfMarkers /\ TypeOfFiles

Terminal == {"stopped", "error"}

(* What is shown was written first: the frames handed to the live buffer    *)
(* are the first frames of the session file and of the CSV file, in order.  *)
WrittenBeforeShown ==
    persist =>
        /\ Len(live) <= Len(csvRows) /\ Len(csvRows) <= Len(sessionRows)
        /\ live = SubSeq(sessionRows, 1, Len(live))
        /\ csvRows = SubSeq(sessionRows, 1, Len(csvRows))

(* STOPPED promises a complete capture: both frame files hold exactly the   *)
(* frames of the live buffer, the footer says a clean close with counts     *)
(* that are those of the files, the published counts agree, and nothing is  *)
(* left open.                                                               *)
StoppedIsComplete ==
    state = "stopped" =>
        /\ shown.frames = Len(live)
        /\ channel = "closed"
        /\ persist =>
            /\ sessionRows = live /\ csvRows = live
            /\ sessionFooter = Footer(Len(live), Len(live),
                                       Len(markerRows), TRUE)
            /\ shown.markers = Len(markerRows)
            /\ "open" \notin {sessionHandle, csvHandle, markerHandle}

(* A footer never claims more than its file holds: its own count is exact,  *)
(* the count in the metadata lags by at most the one frame whose write      *)
(* raised, and the markers it counts are in the marker file.                *)
FooterIsHonest ==
    sessionFooter # NoFooter =>
        /\ sessionFooter.count = Len(sessionRows)
        /\ sessionFooter.frames \in {Len(sessionRows), Len(sessionRows) - 1}
        /\ sessionFooter.markers <= Len(markerRows)
        /\ sessionFooter.clean => sessionFooter.frames = Len(sessionRows)

(* The marker file holds markers of its own capture only, each once and in  *)
(* the order the operator set them, though the queue outlives a capture.    *)
MarkersOnce ==
    /\ \A i \in DOMAIN markerRows : markerRows[i].capture = captures
    /\ \A i, j \in DOMAIN markerRows :
          i < j => markerRows[i].number < markerRows[j].number

(* A capture that nobody stopped while it was starting and that had no      *)
(* deadline loses no marker: once it is STOPPED and add_marker has returned *)
(* every accepted marker is in the file and in the published count.         *)
OrdinaryStopKeepsMarkers ==
    (state = "stopped" /\ ~timed /\ ~earlyStop) =>
        /\ gpc = "idle"
        /\ shown.markers = Len(accepted)
        /\ persist => markerRows = accepted

(* What became of the markers of a capture, in its file and in the counts.  *)
MarkersKept == MarkersOnce /\ OrdinaryStopKeepsMarkers

(* Whatever the channel does, a worker that dies leaves a terminal state    *)
(* behind unless a file operation has raised.                               *)
DeadIsTerminal ==
    (wpc = "dead" /\ faults = 0) => state \in Terminal

(* STOPPED and ERROR are published last: until the next start() no file, no *)
(* count and nothing in the live buffer changes any more.                   *)
TerminalIsFinal ==
    [][(state \in Terminal /\ captures' = captures)
          => UNCHANGED <<state, files, live, shown, originSet>>]_vars

(* A capture that was asked to stop ends, whatever raises on the way.       *)
StopEnds == (stopEvent /\ Alive) ~> ~Alive

(* docs/architecture.md says of a marker that the interface stamps it at    *)
(* once and the worker thread writes it to the file later: every marker the *)
(* operator set in a capture that ends STOPPED is in its file.  The GUI     *)
(* never starts a capture with a deadline.                                  *)
AcceptedMarkersAreWritten ==
    (state = "stopped" /\ persist /\ ~timed /\ gpc = "idle")
        => markerRows = accepted

-----------------------------------------------------------------------------
(* Why the properties hold: the invariant of the worker, place by place.    *)

Opening  == {"lookup", "openSession", "openCsv", "openMarkers", "enter",
             "running"}
Looping  == {"test", "read", "session", "csv", "drain", "publish", "progress"}
Closing  == {"closeSession", "closeCsv", "closeMarkers", "lastProgress",
             "setStopped"}
Handling == {"errDrain", "errEscape", "errMarkers", "errSession", "errCsv",
             "errProgress", "setError"}
Ended    == {"none", "dying", "dead"}
OnDiskOnly == {"openSession", "openCsv", "openMarkers", "session", "csv",
               "closeSession", "closeCsv", "closeMarkers"}

(* A terminal state is set in the last step before the thread ends.         *)
StateInv ==
    /\ state \in Terminal => wpc \in {"dying", "dead"}
    /\ wpc = "none" => captures = 0 /\ state = "idle"
    /\ ~persist => wpc \notin OnDiskOnly
    /\ (wpc \in {"dying", "dead"} /\ faults = 0) => state \in Terminal
    /\ (wpc = "errEscape" => faults > 0)

(* After the stop event at most the read that was already due is taken.     *)
StopInv ==
    /\ lateReads <= 1
    /\ (~stopEvent \/ wpc \in Opening \cup {"read"}) => lateReads = 0

(* The frames counted: those shown and those waiting to be shown.  The      *)
(* handler shows the waiting ones without forgetting them.                  *)
Counted == IF wpc \in Handling \cup Ended THEN live ELSE live \o pendingLive

FrameInv ==
    /\ frameCount = Len(Counted)
    /\ wpc \in Closing => pendingLive = <<>>
    /\ persist =>
        /\ wpc \in Opening \cup Looping \cup Closing
                \cup {"leave", "lastDrain", "showRest"}
              => /\ csvRows = Counted
                 /\ sessionRows = IF wpc = "csv" THEN Append(Counted, frame)
                                   ELSE Counted
        /\ sessionRows \in {Counted, Append(Counted, frame)}
        /\ csvRows \in {Counted, sessionRows}

(* The handles are open from the opening to the closing of their file; a    *)
(* footer is on a closed file; a file that was never opened is empty.       *)
HandleInv ==
    /\ ~persist => /\ sessionHandle = "unopened"
                   /\ csvHandle = "unopened"
                   /\ markerHandle = "unopened"
    /\ wpc \in {"lookup", "openSession"} => sessionHandle = "unopened"
    /\ wpc \in {"lookup", "openSession", "openCsv"} => csvHandle = "unopened"
    /\ wpc \in {"lookup", "openSession", "openCsv", "openMarkers"}
          => markerHandle = "unopened"
    /\ persist /\ wpc \in {"openCsv", "openMarkers"} => sessionHandle = "open"
    /\ persist /\ wpc = "openMarkers" => csvHandle = "open"
    /\ persist /\ wpc \in {"enter", "running", "leave", "leaveErr", "lastDrain",
                           "showRest", "closeSession"} \cup Looping
          => sessionHandle = "open" /\ csvHandle = "open"
             /\ markerHandle = "open"
    /\ persist /\ wpc = "closeCsv"
          => sessionHandle = "closed" /\ csvHandle = "open"
             /\ markerHandle = "open"
    /\ persist /\ wpc = "closeMarkers"
          => sessionHandle = "closed" /\ csvHandle = "closed"
             /\ markerHandle = "open"
    /\ persist /\ wpc \in {"lastProgress", "setStopped"}
          => "open" \notin {sessionHandle, csvHandle, markerHandle}
    /\ sessionFooter # NoFooter => persist /\ sessionHandle = "closed"
    /\ persist /\ markerHandle = "unopened" => ~originSet /\ markerQueue = <<>>
                                                 /\ accepted = <<>>
    /\ persist /\ markerHandle = "closed" /\ wpc \in {"errShow", "errDrain"}
          => faults > 0

ChannelInv ==
    wpc \in Closing \cup {"lastDrain", "showRest"} => channel = "closed"

MarkerInv ==
    /\ persist => markerCount + drained <= Len(markerRows)
    /\ wpc \notin {"drain", "lastDrain", "errDrain"} => drained = 0
    /\ persist /\ wpc \in Opening \cup Looping \cup Closing
                          \cup {"leave", "lastDrain", "showRest"}
          => markerCount + drained = Len(markerRows)

FooterInv ==
    /\ FooterIsHonest
    /\ persist /\ wpc \in Closing \ {"closeSession"}
          => sessionFooter = Footer(frameCount, frameCount, markerCount, TRUE)
    /\ wpc = "setStopped" => shown = [frames |-> frameCount,
                                      markers |-> markerCount]

(* The markers on their way, in the order they were accepted: those in the  *)
(* file, those in the queue, and the one add_marker is about to put.  All   *)
(* are of this capture, though some may have been lost to a fault.          *)
OrderInv ==
    /\ MarkersOnce
    /\ \A j \in DOMAIN markerQueue :
          /\ markerQueue[j].capture = captures
          /\ markerQueue[j].number < nextMarker
          /\ \A i \in DOMAIN markerRows : markerRows[i].number < markerQueue[j].number
          /\ \A k \in DOMAIN markerQueue :
                j < k => markerQueue[j].number < markerQueue[k].number
    /\ \A i \in DOMAIN markerRows : markerRows[i].number < nextMarker
    /\ gpc = "put" =>
          /\ accepted[Len(accepted)].capture = captures
          /\ accepted[Len(accepted)].number < nextMarker
          /\ \A i \in DOMAIN markerRows :
                markerRows[i].number < accepted[Len(accepted)].number
          /\ \A j \in DOMAIN markerQueue :
                markerQueue[j].number < accepted[Len(accepted)].number

(* Once a capture was asked to stop, not while it was starting, no marker   *)
(* is accepted any more and none is on its way into the queue; without a    *)
(* deadline the loop is left only then.                                     *)
AskedInv ==
    /\ wpc \in Opening => (state = "starting" /\ ~stopEvent) \/ earlyStop
    /\ stopEvent /\ ~earlyStop
          => state \notin {"starting", "running"} /\ gpc = "idle"
    /\ wpc \in Closing \cup {"leave", "lastDrain", "showRest"} /\ ~timed
          => stopEvent

(* While nothing has raised, every accepted marker is in the file, in the   *)
(* queue or about to be put; the last drain leaves the queue empty.         *)
Unput == IF gpc = "put" THEN 1 ELSE 0

KeptInv ==
    /\ wpc \in Opening \cup Looping \cup Closing
              \cup {"leave", "lastDrain", "showRest"}
          => /\ markerCount + drained + Len(markerQueue) + Unput = Len(accepted)
             /\ persist => /\ gpc # "put" => markerRows \o markerQueue = accepted
                           /\ gpc = "put" =>
                                Append(markerRows \o markerQueue,
                                       accepted[Len(accepted)]) = accepted
    /\ wpc \in Closing \cup {"showRest"} /\ ~timed /\ ~earlyStop
          => markerQueue = <<>>
    /\ OrdinaryStopKeepsMarkers

(* The inductive invariant of the markers, beside that of the service.      *)
MarkersInv == OrderInv /\ AskedInv /\ KeptInv

(* What the refinement needs besides: a worker runs in no idle service, and *)
(* the frame in hand is one the channel supplies.                           *)
RecordingInv == (state = "idle" => wpc = "none") /\ frame <= MaxFrames

(* The session file holds the frames the channel supplied, by number, and   *)
(* lags by the frame in hand until that is written.                         *)
SerialInv ==
    /\ wpc \in Opening => nextFrame = 0
    /\ persist =>
          /\ \A i \in DOMAIN sessionRows : sessionRows[i] + 1 = i
          /\ Len(sessionRows) <= nextFrame
          /\ wpc = "session" => /\ Len(sessionRows) + 1 = nextFrame
                                /\ frame = Len(sessionRows)
          /\ wpc \in Opening \cup (Looping \ {"session"}) \cup Closing
                     \cup {"leave", "lastDrain", "showRest"}
                \/ state = "stopped"
                => Len(sessionRows) = nextFrame

(* The inductive invariant of the service.                                  *)
IInv ==
    /\ TypeOK /\ StateInv /\ StopInv /\ FrameInv /\ HandleInv /\ ChannelInv
    /\ MarkerInv /\ FooterInv /\ StoppedIsComplete

-----------------------------------------------------------------------------
(* The service implements the recorder of CaptureRecorder.                  *)

Phase ==
    CASE state = "idle" -> "idle"
      [] state = "stopped" -> "done"
      [] state = "error" -> "failed"
      [] state \in Active /\ wpc # "dead" -> "active"
      [] OTHER -> "abandoned"

(* The frames recorded so far: the session file, or in memory when nothing  *)
(* is kept on disk.                                                         *)
Recorded == IF persist THEN sessionRows ELSE Counted

Recorder == INSTANCE CaptureRecorder
    WITH Frame <- 0 .. MaxFrames, phase <- Phase, log <- Recorded, presented <- live

ImplementsRecorder == Recorder!Spec
=============================================================================
