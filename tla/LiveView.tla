------------------------------- MODULE LiveView -------------------------------
(***************************************************************************)
(* The frames a Live tab shows: the bounded buffer the capture worker       *)
(* publishes to, the refresh that copies it into the table's model behind a *)
(* cursor, and the filtered projection of that model, which a pool of       *)
(* threads computes: whole scans of the model and scans of the rows that    *)
(* have come since.                                                         *)
(*                                                                         *)
(* A handler of the GUI thread is one step; what it works on is the record  *)
(* gui, and the operators on g are the methods the handlers are made of.  A *)
(* task of the pool holds a snapshot, so that only the moment its result is *)
(* delivered matters; a generation number is never used again, so that a    *)
(* task only needs to know whether its generation is the present one.       *)
(***************************************************************************)
EXTENDS FrameFilters

CONSTANTS
    Capacity,       \* LIVE_CAPACITY: of the buffer and of the table's model
    StreamCapacity, \* STREAM_FILTER_VIEW_CAPACITY
    BatchSize,      \* INCREMENTAL_FILTER_BATCH_SIZE
    Projects,       \* bound: what the presets of the project may be, by name
    Opening,        \* bound: what they are when the project is opened
    MaxFrames,      \* bound: frames of one capture
    MaxCaptures,    \* bound: captures
    MaxEdits,       \* bound: changes of the project's presets
    MaxClicks,      \* bound: clicks on the filter and pause check boxes
    MaxFailures     \* bound: scans that raise

ASSUME LiveViewAssumption ==
    /\ {Capacity, StreamCapacity, BatchSize} \subseteq Nat \ {0}
    /\ \A set \in DOMAIN Projects : Projects[set] \in Settings
    /\ Opening \subseteq DOMAIN Projects
    /\ Len(Bus) \in Nat \ {0} /\ DOMAIN Bus = 1 .. Len(Bus)
    /\ {MaxFrames, MaxCaptures, MaxEdits, MaxClicks, MaxFailures} \subseteq Nat

VARIABLES
    capture,    \* the state of the capture service
    number,     \* the number of the capture
    live,       \* LiveFrameBuffer._frames
    project,    \* the presets enabled in the project
    gui,        \* the widget, its models, its filter integration and its tasks
    edits, clicks, failures

bounds == <<edits, clicks, failures>>
vars   == <<capture, number, live, project, gui, bounds>>

None == -1

(* The sets of presets in force for Live, and which frames of the bus, which *)
(* carries those of Bus again and again, are visible under each: tables,    *)
(* which TLC works out once.                                                *)
FilterSets == DOMAIN Projects
InForce(set) == ActiveSet(Projects[set])
Actives == {<<set, InForce(set).presets # <<>> >> : set \in FilterSets}
Concerns == {<<set, Affects(InForce(set))>> : set \in FilterSets}
Changes == {<<old, new, InForce(old) # InForce(new)>> : old, new \in FilterSets}
Decisions == {<<set, i, Decide(InForce(set), Bus[i])>> : set \in FilterSets, i \in DOMAIN Bus}

Active(set) == <<set, TRUE>> \in Actives
AffectsRaw(set) == <<set, TRUE>> \in Concerns

LiveFrame == [capture : Nat, sequence : Nat]
OnBus(frame) == (frame.sequence % Len(Bus)) + 1
Visible(set) == {frame \in LiveFrame : <<set, OnBus(frame), TRUE>> \in Decisions}
Accepted(set, frames) == Kept(frames, Visible(set))

Max2(a, b) == IF a > b THEN a ELSE b
Min2(a, b) == IF a < b THEN a ELSE b
Drop(s, n) == SubSeq(s, n + 1, Len(s))
LastOf(s, n) == Drop(s, Max2(0, Len(s) - n))

(* trim_chunk: a full table loses that many rows at once, or all it has.    *)
TrimChunk == Max2(1, Capacity \div 10)

(* The frames that are not older than the first row of the source.          *)
NotBefore(source) ==
    {frame \in LiveFrame : source = <<>> \/ frame.sequence >= source[1].sequence}
Since(source, frames) == Kept(frames, NotBefore(source))

Init ==
    /\ capture = "idle" /\ number = 0 /\ live = <<>> /\ project \in Opening
    /\ gui = [source |-> <<>>, cursor |-> None, paused |-> FALSE,
              log |-> FALSE, clean |-> FALSE, checked |-> FALSE, set |-> project,
              enabled |-> FALSE, ready |-> FALSE, scanning |-> FALSE,
              rows |-> <<>>, pending |-> <<>>, running |-> FALSE,
              timer |-> FALSE, streaming |-> FALSE, shown |-> FALSE,
              tasks |-> {}]
    /\ edits = 0 /\ clicks = 0 /\ failures = 0

Capturing == capture = "running"

-----------------------------------------------------------------------------
(* Parts of handlers: what each makes of the state of the GUI.              *)

(* What is in flight is out of date.                                        *)
NewGeneration(g) ==
    [g EXCEPT !.pending = <<>>, !.running = FALSE, !.timer = FALSE,
              !.tasks = {[t EXCEPT !.current = FALSE] : t \in @}]

SetEnabled(g, wanted) ==
    LET enabled == wanted /\ Active(g.set)
    IN  IF enabled = g.enabled THEN g
        ELSE [g EXCEPT !.enabled = enabled, !.ready = FALSE,
                       !.scanning = FALSE, !.rows = <<>>]

(* The table is bound to the projection when that is ready.                 *)
Synchronize(g) == [g EXCEPT !.shown = g.enabled /\ g.ready]

(* _schedule_frame_scan: without rows there is nothing to hand out.         *)
ScheduleScan(g) ==
    LET empty == g.source = <<>>
        task  == [kind |-> "scan", frames |-> g.source, set |-> g.set,
                  current |-> TRUE]
    IN  IF ~g.enabled THEN g
        ELSE [NewGeneration(g) EXCEPT
                 !.rows = <<>>, !.scanning = ~empty, !.ready = empty,
                 !.shown = empty, !.tasks = @ \cup (IF empty THEN {} ELSE {task})]

ScheduleIncrement(g) ==
    [g EXCEPT !.timer = @ \/ (/\ g.enabled /\ g.ready /\ ~g.scanning
                              /\ ~g.running /\ g.pending # <<>>)]

(* Slip: only the frames that wait are pruned.                              *)
PrunePending(g) == [g EXCEPT !.pending = Since(g.source, @)]

(* _prune_frame_filter_cache                                                *)
Prune(g) ==
    [g EXCEPT !.rows = Since(g.source, @), !.pending = Since(g.source, @)]

(* _reset_streaming_presentation: the models are emptied, the cursor stays. *)
ResetStream(g) ==
    LET n == [NewGeneration(g) EXCEPT !.source = <<>>, !.shown = g.enabled]
    IN  IF g.enabled
          THEN [n EXCEPT !.rows = <<>>, !.scanning = FALSE, !.ready = TRUE]
          ELSE n

(* The model of the table: replace_frames, clear and append_frames, with    *)
(* what their signals set off.                                              *)
ReplaceRows(g, frames) ==
    ScheduleScan([g EXCEPT !.source = LastOf(frames, Capacity)])

ClearRows(g) == IF g.source = <<>> THEN g ELSE ReplaceRows(g, <<>>)

Trim(source, incoming) ==
    LET overflow == Max2(0, Len(source) + Len(incoming) - Capacity)
    IN  IF overflow = 0 THEN source
        ELSE Drop(source, Min2(Len(source), Max2(overflow, TrimChunk)))

InsertRows(g, incoming) ==
    LET trimmed == [g EXCEPT !.source = Trim(@, incoming)]
        pruned  == IF trimmed.source = g.source THEN g ELSE Prune(trimmed)
    IN  ScheduleIncrement([pruned EXCEPT
            !.source = @ \o incoming,
            !.pending = IF g.enabled THEN @ \o incoming ELSE @])

AppendRows(g, incoming) ==
    IF Len(incoming) >= Capacity THEN ReplaceRows(g, incoming)
    ELSE InsertRows(g, incoming)

-----------------------------------------------------------------------------
(* The capture and the buffer it publishes to.                              *)

Published == IF live = <<>> THEN 0 ELSE live[Len(live)].sequence + 1

(* append_many of the frames since the last time.                           *)
Publish ==
    /\ Capturing
    /\ \E n \in 1 .. Min2(Capacity, MaxFrames - Published) :
         live' = LastOf(live \o [i \in 1 .. n |->
                            [capture |-> number, sequence |-> Published + i - 1]],
                        Capacity)
    /\ UNCHANGED <<capture, number, project, gui, bounds>>

End ==
    /\ Capturing
    /\ capture' \in {"stopped", "error"}
    /\ UNCHANGED <<number, live, project, gui, bounds>>

(* A capture begins with a buffer of its own and an empty table.            *)
Start ==
    /\ ~Capturing /\ number < MaxCaptures
    /\ capture' = "running" /\ number' = number + 1 /\ live' = <<>>
    /\ gui' = ClearRows([gui EXCEPT !.cursor = None, !.paused = FALSE,
                                    !.log = TRUE, !.clean = FALSE])
    /\ UNCHANGED <<project, bounds>>

StartFails ==
    /\ ~Capturing /\ gui.clean
    /\ gui' = [gui EXCEPT !.clean = FALSE]
    /\ UNCHANGED <<capture, number, live, project, bounds>>

(* Start is pressed and the log of the last capture decided: the view is    *)
(* cleared, and stays so until Start is pressed again.                      *)
CleanWorkspace ==
    /\ capture \in {"stopped", "error"} /\ gui.log
    /\ gui' = [ClearRows([gui EXCEPT !.cursor = None, !.paused = FALSE])
                  EXCEPT !.log = FALSE, !.clean = TRUE]
    /\ UNCHANGED <<capture, number, live, project, bounds>>

-----------------------------------------------------------------------------
(* The refresh, every 100 ms.                                               *)

Truncated == gui.cursor # None /\ gui.cursor < live[1].sequence - 1

(* snapshot_since                                                           *)
Selected ==
    IF live = <<>> THEN <<>>
    ELSE IF gui.cursor = None \/ Truncated THEN live
    ELSE Kept(live, {frame \in LiveFrame : frame.sequence > gui.cursor})

Copy(g) ==
    IF Truncated THEN ReplaceRows(g, Selected) ELSE AppendRows(g, Selected)

Refresh ==
    /\ UNCHANGED <<capture, number, live, project, bounds>>
    /\ capture \in {"running", "stopped"} /\ ~gui.paused /\ ~gui.clean
    /\ Selected # <<>>
    /\ gui' = [Copy(Synchronize(gui)) EXCEPT !.cursor = live[Len(live)].sequence]

-----------------------------------------------------------------------------
(* The check box and the presets.                                           *)

ApplyStopped(g) ==
    LET applied == g.checked /\ Active(g.set)
        h == SetEnabled([g EXCEPT !.streaming = FALSE], applied /\ AffectsRaw(g.set))
    IN  IF applied THEN ScheduleScan(h)
        ELSE [NewGeneration(h) EXCEPT !.checked = FALSE]

ApplyStreaming(g) ==
    LET applied == g.checked /\ Active(g.set)
    IN  ResetStream([SetEnabled(g, applied /\ AffectsRaw(g.set))
                        EXCEPT !.streaming = applied])

(* A click is possible while some preset is active or the box waits for one.*)
ClickFilter ==
    /\ clicks < MaxClicks /\ clicks' = clicks + 1
    /\ Active(gui.set) \/ (Capturing /\ gui.checked)
    /\ LET g == [gui EXCEPT !.checked = ~@]
       IN  gui' = Synchronize(IF Capturing THEN ApplyStreaming(g) ELSE ApplyStopped(g))
    /\ UNCHANGED <<capture, number, live, project, edits, failures>>

ClickPause ==
    /\ clicks < MaxClicks /\ clicks' = clicks + 1
    /\ gui' = [gui EXCEPT !.paused = ~@]
    /\ UNCHANGED <<capture, number, live, project, edits, failures>>

EditPresets ==
    /\ edits < MaxEdits /\ edits' = edits + 1
    /\ project' \in FilterSets \ {project}
    /\ UNCHANGED <<capture, number, live, gui, clicks, failures>>

ReloadStopped(g, changed) ==
    LET h == SetEnabled(g, AffectsRaw(g.set))
    IN  IF ~Active(g.set)
          THEN SetEnabled([NewGeneration(g) EXCEPT !.checked = FALSE], FALSE)
        ELSE IF ~changed \/ ~g.checked THEN g
        ELSE IF h.enabled THEN ScheduleScan(h)
        ELSE [h EXCEPT !.pending = <<>>, !.running = FALSE, !.timer = FALSE]

ReloadStreaming(g, changed) ==
    LET filtering == g.enabled \/ g.streaming
        off == SetEnabled(g, FALSE)
        on  == SetEnabled(g, AffectsRaw(g.set))
    IN  IF ~Active(g.set)
          THEN IF g.checked /\ (changed \/ filtering)
                 THEN ResetStream([off EXCEPT !.streaming = FALSE])
                 ELSE off
        ELSE IF ~changed \/ ~g.checked THEN g
        ELSE ResetStream([on EXCEPT !.streaming = TRUE])

(* The presets are read again every 750 ms.                                 *)
Reload ==
    /\ UNCHANGED <<capture, number, live, project, bounds>>
    /\ LET changed == <<gui.set, project, TRUE>> \in Changes
           g == [gui EXCEPT !.set = IF changed THEN project ELSE @]
       IN  gui' = Synchronize(IF Capturing THEN ReloadStreaming(g, changed)
                              ELSE ReloadStopped(g, changed))
    /\ gui' # gui

-----------------------------------------------------------------------------
(* The scans.                                                               *)

(* The timer of 10 ms: a batch of the pending rows is handed out.           *)
StartIncrement ==
    /\ UNCHANGED <<capture, number, live, project, bounds>>
    /\ gui.timer
    /\ LET g == [gui EXCEPT !.timer = FALSE]
           p == Prune(g)
           n == Min2(BatchSize, Len(p.pending))
           task == [kind |-> "increment", frames |-> SubSeq(p.pending, 1, n),
                    set |-> g.set, current |-> TRUE]
       IN  gui' = IF ~g.enabled \/ ~g.ready \/ g.scanning \/ g.running THEN g
                  ELSE IF p.pending = <<>> THEN p
                  ELSE [p EXCEPT !.pending = Drop(@, n), !.running = TRUE,
                                 !.tasks = @ \cup {task}]

(* Slip: a result of an earlier generation is taken as well.                *)
AnyGeneration(task) == TRUE

UpToDate(task) == task.current

(* _frame_scan_completed                                                    *)
ScanCompleted(g, task) ==
    LET through == task.frames[Len(task.frames)].sequence
        later == {frame \in LiveFrame : frame.sequence > through}
        h == [g EXCEPT !.rows = Since(g.source, Accepted(task.set, task.frames)),
                       !.scanning = FALSE, !.ready = TRUE,
                       !.pending = Kept(@, later)]
    IN  IF ~UpToDate(task) \/ ~g.enabled THEN g
        ELSE Synchronize(ScheduleIncrement(Prune(h)))

(* Streaming views are trimmed to their own capacity.                       *)
TrimStream(g) ==
    LET overflow == Len(g.rows) - StreamCapacity
        chunk    == Max2(1, StreamCapacity \div 10)
    IN  IF ~g.streaming \/ overflow <= 0 THEN g
        ELSE [g EXCEPT !.rows = Drop(@, Min2(Len(@), Max2(overflow, chunk)))]

(* Slip: rows that came in the meantime wait for the next insertion.        *)
IncrementLast(g, task) ==
    LET h == [g EXCEPT !.running = FALSE,
                       !.rows = @ \o Since(g.source, Accepted(task.set, task.frames))]
    IN  IF ~UpToDate(task) THEN g
        ELSE IF ~g.enabled \/ ~g.ready THEN [g EXCEPT !.running = FALSE]
        ELSE TrimStream(Synchronize(h))

(* _incremental_scan_completed                                              *)
IncrementCompleted(g, task) ==
    LET h == [g EXCEPT !.running = FALSE,
                       !.rows = @ \o Since(g.source, Accepted(task.set, task.frames))]
    IN  IF ~UpToDate(task) THEN g
        ELSE IF ~g.enabled \/ ~g.ready THEN [g EXCEPT !.running = FALSE]
        ELSE TrimStream(ScheduleIncrement(Synchronize(h)))

Completes(task) ==
    /\ UNCHANGED <<capture, number, live, project, bounds>>
    /\ LET g == [gui EXCEPT !.tasks = @ \ {task}]
       IN  gui' = IF task.kind = "scan" THEN ScanCompleted(g, task)
                  ELSE IncrementCompleted(g, task)

(* _disable_after_error                                                     *)
DisableAfterError(g) ==
    [SetEnabled(g, FALSE) EXCEPT !.checked = FALSE, !.pending = <<>>,
                                 !.running = FALSE, !.timer = FALSE]

Fails(task) ==
    /\ failures < MaxFailures /\ failures' = failures + 1
    /\ LET g == [gui EXCEPT !.tasks = @ \ {task}]
       IN  gui' = IF UpToDate(task) THEN Synchronize(DisableAfterError(g)) ELSE g
    /\ UNCHANGED <<capture, number, live, project, edits, clicks>>

-----------------------------------------------------------------------------

Service  == Publish \/ End
Operator == Start \/ StartFails \/ CleanWorkspace \/ ClickFilter \/ ClickPause
            \/ EditPresets
TaskDone == \E task \in gui.tasks : Completes(task)

Next == Service \/ Operator \/ Refresh \/ Reload \/ StartIncrement \/ TaskDone
        \/ (\E task \in gui.tasks : Fails(task))

(* The timers of the GUI fire and the threads of the pool finish.           *)
Spec == Init /\ [][Next]_vars
FairSpec == /\ Spec
            /\ WF_vars(Refresh) /\ WF_vars(Reload)
            /\ WF_vars(StartIncrement) /\ WF_vars(TaskDone)

-----------------------------------------------------------------------------
(* Properties.                                                              *)

IsSuffix2(s, t) == Len(s) <= Len(t) /\ s = LastOf(t, Len(s))

Task == [kind : {"scan", "increment"}, frames : Seq(LiveFrame), set : FilterSets,
         current : BOOLEAN]

Gui == [source : Seq(LiveFrame), cursor : Nat \cup {None}, paused : BOOLEAN, log : BOOLEAN,
        clean : BOOLEAN, checked : BOOLEAN, set : FilterSets, enabled : BOOLEAN,
        ready : BOOLEAN, scanning : BOOLEAN, rows : Seq(LiveFrame),
        pending : Seq(LiveFrame), running : BOOLEAN, timer : BOOLEAN,
        streaming : BOOLEAN, shown : BOOLEAN, tasks : SUBSET Task]

(* Every part has a value of its kind, and neither the buffer nor the model *)
(* of the table is larger than its capacity.                                *)
TypeOK ==
    /\ capture \in {"idle", "running", "stopped", "error"}
    /\ number \in 0 .. MaxCaptures /\ project \in FilterSets /\ gui \in Gui
    /\ live \in Seq(LiveFrame) /\ Len(live) <= Capacity /\ Len(gui.source) <= Capacity
    /\ edits \in 0 .. MaxEdits /\ clicks \in 0 .. MaxClicks
    /\ failures \in 0 .. MaxFailures

(* The rows are frames of the present capture without a gap, up to the      *)
(* cursor: a view that fell behind the buffer starts again, it never joins  *)
(* frames that were not neighbours.                                         *)
SourceIsRun ==
    LET n == Len(gui.source)
    IN  \A i \in 1 .. n : gui.source[i] =
            [capture |-> number, sequence |-> gui.cursor - (n - i)]

(* What the filtered view shows, what a scan has in hand and what waits are *)
(* together the frames of the source that the presets ask for, as the test  *)
(* in the editor shows them one by one, once and in order; only a streaming *)
(* view may lack the oldest.  Where the view is not filtered although the   *)
(* box is checked, the presets ask for every frame.                         *)
Requests == {<<set, i, Wanted(Projects[set], Bus[i])>> : set \in FilterSets, i \in DOMAIN Bus}
Asked(set) == {frame \in LiveFrame : <<set, OnBus(frame), TRUE>> \in Requests}
Requested(set, frames) == Kept(frames, Asked(set))

InHand ==
    LET mine == {t \in gui.tasks : t.current}
    IN  IF gui.running /\ mine # {} THEN (CHOOSE t \in mine : TRUE).frames ELSE <<>>

FilteredIsExact ==
    /\ gui.checked /\ ~gui.enabled => Requested(gui.set, gui.source) = gui.source
    /\ gui.enabled /\ gui.ready =>
        LET have == Since(gui.source,
                          gui.rows \o Accepted(gui.set, InHand \o gui.pending))
            want == Requested(gui.set, gui.source)
        IN  IF gui.streaming THEN IsSuffix2(have, want) ELSE have = want

(* Raw frames are filtered exactly when the box is checked and the presets  *)
(* in force concern raw frames, and the table is bound to the projection    *)
(* exactly when that is complete.                                           *)
FilterFollowsBox ==
    /\ gui.enabled <=> (gui.checked /\ AffectsRaw(gui.set))
    /\ gui.shown <=> (gui.enabled /\ gui.ready)

(* What the view keeps of its own, the accepted rows and the frames that    *)
(* wait, stays as bounded as the table: it exceeds that by a chunk at most, *)
(* after a table of few rows lost them all at once and left nothing to      *)
(* prune by.  Rows that the table has dropped are shown only while frames   *)
(* wait for the next batch, which begins with the pruning.                  *)
ViewIsBounded ==
    /\ {Len(gui.rows), Len(gui.pending)} \subseteq 0 .. Capacity + TrimChunk
    /\ Since(gui.source, gui.rows) = gui.rows \/ gui.pending # <<>>

(* The operator sees the accepted frames of one run of the bus, whenever he  *)
(* asked for them, and the view keeps no more than it has to.               *)
ViewIsExact == SourceIsRun /\ FilteredIsExact /\ FilterFollowsBox /\ ViewIsBounded

(* Once the operator and the bus are quiet, the view has the newest frames  *)
(* of the buffer, and everything in it has been filtered.                   *)
ViewSettles ==
    <>[](/\ capture = "stopped" /\ ~gui.paused /\ ~gui.clean /\ live # <<>> =>
              gui.cursor = live[Len(live)].sequence
         /\ gui.enabled => gui.ready /\ gui.pending = <<>> /\ ~gui.running)
=============================================================================
