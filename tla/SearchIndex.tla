------------------------------ MODULE SearchIndex ------------------------------
(***************************************************************************)
(* The durable search index of one session (app/project_search_index.py)   *)
(* and its Qt adapter (gui/persistent_search_index.py).  The window owns   *)
(* one adapter of the session at a time; every adapter that does not find  *)
(* the index current starts a build in the thread pool.  Closing a project *)
(* cancels the build, but its thread goes on until it next looks, while a  *)
(* new adapter may start the next build of the same rows.                  *)
(*                                                                         *)
(* The session file has one size and one number of frames in every         *)
(* version, so that time stamps and the SHA-256 of the project are all     *)
(* that tells two versions apart; version 1 is the one the project hashed. *)
(* Every transaction on the index is one step.                             *)
(***************************************************************************)
EXTENDS Naturals, FiniteSets, Sequences

CONSTANTS
    Frames,         \* frames of the session
    Batch,          \* batch_size (1000 in the code)
    MaxBuilds,      \* bound: builds ever started
    MaxStamps,      \* bound: changes of the file or of its time stamp
    MaxFailures,    \* bound: failed accesses to files or to the database
    MaxKills        \* bound: times the program is killed

ASSUME IndexAssumption ==
    /\ Frames \in Nat \ {0} /\ Batch \in Nat \ {0}
    /\ MaxBuilds \in Nat /\ MaxStamps \in Nat
    /\ MaxFailures \in Nat /\ MaxKills \in Nat

Builds == 1 .. MaxBuilds
Rows   == 1 .. Frames

VARIABLES
    file,           \* the session file: there, its version, its time stamp
    session,        \* its row in the project, and the removal of it
    row,            \* the row of table sources, or NoRow
    docs,           \* table documents: the version each frame was read in, or 0
    builds,         \* builds started so far
    pc,             \* where each build is
    stamp,          \* the time stamp in the fingerprint of each build
    indexed,        \* "indexed" of each build
    batch,          \* "batch" of each build: the versions of the frames in it
    cancelled,      \* cancel_event of each build
    posted,         \* the signal of each build that the GUI has not handled yet
    adapter,        \* the PersistentSessionSearchIndex of the window
    failures, kills,
    overlaps        \* history: builds that began while another was under way

source == <<file, session>>
table  == <<row, docs>>
build  == <<pc, stamp, indexed, batch, cancelled, posted>>
bounds == <<failures, kills, overlaps>>
vars   == <<source, table, builds, build, adapter, bounds>>

-----------------------------------------------------------------------------

NoRow   == [status |-> "none", indexed |-> 0, stamp |-> 0]
NoTask  == 0
Closed  == [open |-> FALSE, task |-> NoTask, ready |-> FALSE, error |-> FALSE]
NoDocs  == [i \in Rows |-> 0]

(* SELECT COUNT( * ) FROM documents.                                       *)
DocCount == Cardinality({i \in Rows : docs[i] # 0})

(* Slip: a new time stamp is taken for granted.                             *)
MatchesAnyStamp(at) == file.there

(* _content_matches_after_timestamp_change: the stored stamp, or the file   *)
(* that is there now has the content the project hashed.                    *)
ContentMatches(at) ==
    \/ row.stamp = at
    \/ file.there /\ file.version = 1

(* Slip: a build that was stopped is as good as a finished one.             *)
IsCurrentByStamp(at) == row # NoRow /\ row.status # "building" /\ ContentMatches(at)

(* is_current, with the fingerprint taken at that stamp.                    *)
IsCurrent(at) ==
    /\ row # NoRow
    /\ row.indexed = Frames /\ row.status = "ready"
    /\ ContentMatches(at)

(* Where _begin_or_resume starts: after the rows that are there, if they    *)
(* are as many as the row says.                                             *)
ResumeRow(at) ==
    IF row # NoRow /\ ContentMatches(at) /\ DocCount = row.indexed
      THEN row.indexed ELSE 0

(* The next frame a build reads.                                            *)
NextFrame(b) == indexed[b] + Len(batch[b]) + 1

(* A build that has begun and may still write.                              *)
UnderWay(b) == pc[b] \in {"begun", "reading", "stopping", "failing"}

-----------------------------------------------------------------------------

Init ==
    /\ file = [there |-> TRUE, version |-> 1, stamp |-> 1]
    /\ session = "kept"
    /\ row = NoRow /\ docs = NoDocs
    /\ builds = 0
    /\ pc = [b \in Builds |-> "none"]
    /\ stamp = [b \in Builds |-> 0]
    /\ indexed = [b \in Builds |-> 0]
    /\ batch = [b \in Builds |-> <<>>]
    /\ cancelled = [b \in Builds |-> FALSE]
    /\ posted = [b \in Builds |-> "none"]
    /\ adapter = Closed
    /\ failures = 0 /\ kills = 0 /\ overlaps = 0

-----------------------------------------------------------------------------
(* The builder: rebuild_session in the thread pool.                         *)

GoTo(b, place) == pc' = [pc EXCEPT ![b] = place]

(* run ends: the signal is emitted unless the build is cancelled by now.    *)
End(b, signal) ==
    /\ GoTo(b, "ended")
    /\ posted' = [posted EXCEPT ![b] = IF cancelled[b] THEN "none" ELSE signal]

(* fingerprint, then SessionPagedReader: without the file both raise, and   *)
(* nothing is written.                                                      *)
Fingerprint(b) ==
    /\ pc[b] = "queued"
    /\ IF file.there
         THEN /\ GoTo(b, "sized")
              /\ stamp' = [stamp EXCEPT ![b] = file.stamp]
              /\ UNCHANGED posted
         ELSE End(b, "failed") /\ UNCHANGED stamp
    /\ UNCHANGED <<source, table, builds, indexed, batch, cancelled, adapter, bounds>>

(* The documents after _begin_or_resume: none, unless it resumes.           *)
DocsToResume(b) == IF ResumeRow(stamp[b]) = 0 THEN NoDocs ELSE docs

(* _begin_or_resume, one transaction.                                       *)
Begin(b) ==
    /\ pc[b] = "sized"
    /\ docs' = DocsToResume(b)
    /\ row' = [status |-> "building", indexed |-> ResumeRow(stamp[b]), stamp |-> stamp[b]]
    /\ indexed' = [indexed EXCEPT ![b] = ResumeRow(stamp[b])]
    /\ GoTo(b, "begun")
    /\ overlaps' = IF \E o \in Builds \ {b} : UnderWay(o) THEN overlaps + 1 ELSE overlaps
    /\ UNCHANGED <<source, builds, stamp, batch, cancelled, posted, adapter, failures, kills>>

(* Begin may fail as well, outside the try: nothing is written.             *)
BeginFails(b) ==
    /\ pc[b] = "sized"
    /\ failures < MaxFailures /\ failures' = failures + 1
    /\ End(b, "failed")
    /\ UNCHANGED <<source, table, builds, stamp, indexed, batch, cancelled, adapter, kills,
                   overlaps>>

(* iter_frames opens the file, unless there is nothing left to read.        *)
OpenFrames(b) ==
    /\ pc[b] = "begun"
    /\ GoTo(b, IF file.there \/ indexed[b] = Frames THEN "reading" ELSE "failing")
    /\ UNCHANGED <<source, table, builds, stamp, indexed, batch, cancelled, posted,
                   adapter, bounds>>

(* The batch is full, or the file has no more frames.                       *)
AppendDue(b) ==
    /\ pc[b] = "reading" /\ batch[b] # <<>>
    /\ Len(batch[b]) = Batch \/ NextFrame(b) > Frames

(* One turn of the loop: a cancelled build stops before it takes the frame. *)
ReadFrame(b) ==
    /\ pc[b] = "reading" /\ NextFrame(b) <= Frames /\ ~AppendDue(b)
    /\ IF cancelled[b]
         THEN GoTo(b, "stopping") /\ UNCHANGED batch
         ELSE batch' = [batch EXCEPT ![b] = Append(@, file.version)] /\ UNCHANGED pc
    /\ UNCHANGED <<source, table, builds, stamp, indexed, cancelled, posted, adapter, bounds>>

(* _append_batch, one transaction; without a row the foreign key fails.     *)
AppendBatch(b) ==
    /\ AppendDue(b)
    /\ IF row = NoRow
         THEN GoTo(b, "failing") /\ UNCHANGED <<table, indexed, batch>>
         ELSE LET upTo == indexed[b] + Len(batch[b])
              IN  /\ docs' = [i \in Rows |-> IF i \in indexed[b] + 1 .. upTo
                                               THEN batch[b][i - indexed[b]] ELSE docs[i]]
                  /\ row' = [row EXCEPT !.indexed = upTo]
                  /\ indexed' = [indexed EXCEPT ![b] = upTo]
                  /\ batch' = [batch EXCEPT ![b] = <<>>]
                  /\ UNCHANGED pc
    /\ UNCHANGED <<source, builds, stamp, cancelled, posted, adapter, bounds>>

(* _set_source_status: an UPDATE, so nothing without a row.                 *)
SetStatus(status, n) ==
    row' = IF row = NoRow THEN NoRow ELSE [row EXCEPT !.status = status, !.indexed = n]

(* The loop is over: the index is ready.                                    *)
Finish(b) ==
    /\ pc[b] = "reading" /\ indexed[b] = Frames
    /\ SetStatus("ready", Frames)
    /\ GoTo(b, "finished")
    /\ UNCHANGED <<source, docs, builds, stamp, indexed, batch, cancelled, posted,
                   adapter, bounds>>
Report(b) ==
    /\ pc[b] = "finished"
    /\ End(b, "completed")
    /\ UNCHANGED <<source, table, builds, stamp, indexed, batch, cancelled, adapter, bounds>>

(* Slip: the frames of the open batch are counted.                          *)
CountOfRead(b) == NextFrame(b) - 1

(* indexed_rows of a build that is cancelled or has failed.                 *)
CountToKeep(b) == indexed[b]

Stop(b) ==
    /\ pc[b] = "stopping"
    /\ SetStatus("pending", CountToKeep(b))
    /\ End(b, "completed")
    /\ UNCHANGED <<source, docs, builds, stamp, indexed, batch, cancelled, adapter, bounds>>

(* An exception inside the try: reading, appending or the status.           *)
Raise(b) ==
    /\ pc[b] \in {"begun", "reading", "stopping"}
    /\ failures < MaxFailures /\ failures' = failures + 1
    /\ GoTo(b, "failing")
    /\ UNCHANGED <<source, table, builds, stamp, indexed, batch, cancelled, posted, adapter,
                   kills, overlaps>>

(* Slip: the failure is not announced.                                      *)
FailQuietly(b) ==
    /\ pc[b] = "failing"
    /\ SetStatus("failed", CountToKeep(b)) /\ GoTo(b, "ended")
    /\ UNCHANGED <<source, docs, builds, stamp, indexed, batch, cancelled, posted, adapter, bounds>>

(* The handler: the status is written, or that fails too.                   *)
Fail(b) ==
    /\ pc[b] = "failing"
    /\ \/ SetStatus("failed", CountToKeep(b)) /\ UNCHANGED failures
       \/ failures < MaxFailures /\ failures' = failures + 1 /\ UNCHANGED row
    /\ End(b, "failed")
    /\ UNCHANGED <<source, docs, builds, stamp, indexed, batch, cancelled, adapter, kills,
                   overlaps>>

BuildStep(b) ==
    \/ Fingerprint(b) \/ Begin(b) \/ OpenFrames(b) \/ ReadFrame(b) \/ AppendBatch(b)
    \/ Finish(b) \/ Report(b) \/ Stop(b) \/ Fail(b)

-----------------------------------------------------------------------------
(* The GUI thread.  remove_session runs there without a pause, so that the  *)
(* builds alone see the state between its two transactions.                 *)

Free == session # "removing"

(* is_current stores a new stamp of content it has verified.                *)
Refresh == row' = [row EXCEPT !.stamp = file.stamp]

(* start, where the index turns out to be current: _error stays as it was.  *)
FindCurrent ==
    /\ Free /\ session = "kept" /\ file.there
    /\ adapter.task = NoTask
    /\ IsCurrent(file.stamp)
    /\ Refresh
    /\ adapter' = [adapter EXCEPT !.open = TRUE, !.ready = TRUE]
    /\ UNCHANGED <<source, docs, builds, build, bounds>>

(* start, where it is not: a task for the pool.                             *)
StartBuild ==
    /\ Free /\ session = "kept" /\ file.there
    /\ adapter.task = NoTask /\ builds < MaxBuilds
    /\ ~IsCurrent(file.stamp)
    /\ builds' = builds + 1
    /\ GoTo(builds + 1, "queued")
    /\ adapter' = [open |-> TRUE, task |-> builds + 1, ready |-> FALSE, error |-> FALSE]
    /\ UNCHANGED <<source, table, stamp, indexed, batch, cancelled, posted, bounds>>

(* close: the task is cancelled and forgotten.                              *)
Close ==
    /\ Free /\ adapter.open
    /\ cancelled' = [b \in Builds |-> cancelled[b] \/ b = adapter.task]
    /\ adapter' = Closed
    /\ UNCHANGED <<source, table, builds, pc, stamp, indexed, batch, posted, bounds>>

(* _build_completed asks the index again, and makes a failure of a "no";    *)
(* the adapter of a closed window has nobody to tell.                       *)
BuildCompleted(b) ==
    /\ Free /\ posted[b] = "completed"
    /\ posted' = [posted EXCEPT ![b] = "none"]
    /\ IF adapter.task = b
         THEN /\ adapter' = [adapter EXCEPT !.task = NoTask, !.ready = TRUE,
                                            !.error = @ \/ ~IsCurrent(stamp[b])]
              /\ IF IsCurrent(stamp[b]) THEN row' = [row EXCEPT !.stamp = stamp[b]]
                 ELSE UNCHANGED row
         ELSE UNCHANGED <<adapter, row>>
    /\ UNCHANGED <<source, docs, builds, pc, stamp, indexed, batch, cancelled, bounds>>

(* _build_failed: "ready", so that a waiting search can report the error.   *)
BuildFailed(b) ==
    /\ Free /\ posted[b] = "failed"
    /\ posted' = [posted EXCEPT ![b] = "none"]
    /\ adapter' = IF adapter.task = b
                    THEN [adapter EXCEPT !.task = NoTask, !.ready = TRUE, !.error = TRUE]
                    ELSE adapter
    /\ UNCHANGED <<source, table, builds, pc, stamp, indexed, batch, cancelled, bounds>>

(* remove_session: the row of the project and the files in one transaction, *)
(* then, as far as possible, the index.                                     *)
RemoveFiles ==
    /\ session = "kept"
    /\ session' = "removing" /\ file' = [file EXCEPT !.there = FALSE]
    /\ UNCHANGED <<table, builds, build, adapter, bounds>>
RemoveIndex ==
    /\ session = "removing"
    /\ \/ /\ session' = "removed"
          /\ row' = NoRow /\ docs' = NoDocs
          /\ UNCHANGED failures
       \/ /\ failures < MaxFailures /\ failures' = failures + 1
          /\ session' = "left" /\ UNCHANGED table
    /\ UNCHANGED <<file, builds, build, adapter, kills, overlaps>>

(* Something else writes the file or touches it.                            *)
Stamp ==
    /\ file.there /\ file.stamp <= MaxStamps
    /\ \E v \in {file.version, 2} :
          file' = [file EXCEPT !.version = v, !.stamp = @ + 1]
    /\ UNCHANGED <<session, table, builds, build, adapter, bounds>>

(* The program ends between two transactions.                               *)
Kill ==
    /\ kills < MaxKills /\ kills' = kills + 1
    /\ pc' = [b \in Builds |-> IF pc[b] = "none" THEN "none" ELSE "ended"]
    /\ posted' = [b \in Builds |-> "none"]
    /\ adapter' = Closed
    /\ session' = IF session = "removing" THEN "left" ELSE session
    /\ UNCHANGED <<file, table, builds, stamp, indexed, batch, cancelled, failures, overlaps>>

Next ==
    \/ \E b \in Builds : BuildStep(b) \/ BeginFails(b) \/ Raise(b)
    \/ \E b \in Builds : BuildCompleted(b) \/ BuildFailed(b)
    \/ FindCurrent \/ StartBuild \/ Close
    \/ RemoveFiles \/ RemoveIndex
    \/ Stamp \/ Kill

(* The threads of the pool and the event loop of the window go on.          *)
Fairness ==
    /\ \A b \in Builds : WF_vars(BuildStep(b))
    /\ \A b \in Builds : WF_vars(BuildCompleted(b) \/ BuildFailed(b))
    /\ WF_vars(RemoveIndex)

Spec == Init /\ [][Next]_vars /\ Fairness

-----------------------------------------------------------------------------

Places == {"none", "queued", "sized", "begun", "reading", "stopping", "failing", "finished",
           "ended"}
Files == [there : BOOLEAN, version : 1 .. 2, stamp : 1 .. MaxStamps + 1]
Sources == [status : {"none", "building", "pending", "ready", "failed"},
            indexed : 0 .. Frames, stamp : 0 .. MaxStamps + 1]
Adapters == [open : BOOLEAN, task : 0 .. MaxBuilds, ready : BOOLEAN, error : BOOLEAN]

(* The state of the index, the builds and the adapter.                      *)
TypeOK ==
    /\ file \in Files
    /\ session \in {"kept", "removing", "removed", "left"}
    /\ row \in Sources /\ docs \in [Rows -> 0 .. 2]
    /\ builds \in 0 .. MaxBuilds
    /\ pc \in [Builds -> Places]
    /\ stamp \in [Builds -> 0 .. MaxStamps + 1] /\ indexed \in [Builds -> 0 .. Frames]
    /\ batch \in [Builds -> Seq(1 .. 2)] /\ \A b \in Builds : Len(batch[b]) <= Batch
    /\ cancelled \in [Builds -> BOOLEAN]
    /\ posted \in [Builds -> {"none", "completed", "failed"}]
    /\ \A b \in Builds : posted[b] # "none" => pc[b] = "ended"
    /\ adapter \in Adapters /\ adapter.task <= builds
    /\ failures \in 0 .. MaxFailures /\ kills \in 0 .. MaxKills /\ overlaps \in Nat

Complete == \A i \in Rows : docs[i] = file.version

(* project_search_index.py:148: is_current says whether "a complete durable *)
(* index matches the session content".  What it accepts holds every frame   *)
(* of the file as it is, after any cancellations, failures, kills, changed  *)
(* stamps and one change of the content, as long as no build began while    *)
(* another was under way, or only one did and the content is the old one.   *)
CurrentIsComplete ==
    /\ overlaps = 0 \/ (overlaps = 1 /\ file.version = 1)
    /\ file.there /\ IsCurrent(file.stamp)
    => Complete

(* The same of every build there may be: not so.                            *)
EveryCurrentIsComplete ==
    file.there /\ IsCurrent(file.stamp) => Complete

(* An adapter that lets searches through without an error has every frame   *)
(* in the table: no search silently misses a part of a session that nobody  *)
(* changed, also when a cancelled build is only now taken from the queue.   *)
SearchSeesAll ==
    overlaps = 0 /\ session = "kept" /\ file.version = 1 /\ adapter.ready /\ ~adapter.error
        => Complete

(* What a cancelled, failed or killed build has stored is not read again:   *)
(* without overlapping builds, a changed content or a removal the table     *)
(* only grows.                                                              *)
WorkIsKept ==
    [][overlaps' = 0 /\ file.version = 1 /\ session' = "kept"
         => \A i \in Rows : docs[i] # 0 => docs'[i] # 0]_vars

(* A session removed with its index leaves no documents behind, whether a   *)
(* build of it was under way, had yet to begin or was still in the queue.   *)
RemovedLeavesNoDocuments == overlaps = 0 /\ session = "removed" => DocCount = 0

(* The index goes with the session: it is believed only when it is whole,   *)
(* and leaves with it.                                                      *)
IndexFollowsSession == CurrentIsComplete /\ RemovedLeavesNoDocuments

(* A search that waits for the index is answered, with documents or with an *)
(* error, unless its window is closed.                                      *)
WaitingEnds == (adapter.task # NoTask) ~> (adapter.ready \/ ~adapter.open)

-----------------------------------------------------------------------------
(* Why the properties hold.  The row never claims more than is stored.      *)
(* While builds do not overlap it claims all of it, so that the next build  *)
(* goes on exactly there; a version of the file comes with a stamp of its   *)
(* own, so that rows of another version are never taken for current.  Two   *)
(* builds of one content that overlap write the same rows; what the row     *)
(* then claims is still stored, though it may claim too little.             *)

FileInv ==
    /\ file.there <=> session = "kept"
    /\ row.stamp <= file.stamp
    /\ \A b \in Builds : stamp[b] <= file.stamp

LoopInv ==
    \A b \in Builds :
        /\ pc[b] = "none" <=> builds < b
        /\ pc[b] \in {"none", "queued", "sized", "begun"} => batch[b] = <<>>
        /\ indexed[b] + Len(batch[b]) <= Frames

RowInv == row # NoRow => row.status # "none"

VersionInv ==
    file.version = 1 \/ (overlaps = 0 /\ row.stamp = file.stamp) =>
        /\ \A i \in Rows : docs[i] \in {0, file.version}
        /\ \A b \in Builds : UnderWay(b) =>
              \A k \in 1 .. Len(batch[b]) : batch[b][k] = file.version

AloneInv ==
    overlaps = 0 =>
        /\ \A i \in Rows : docs[i] # 0 <=> i <= row.indexed
        /\ \A b, o \in Builds : UnderWay(b) /\ UnderWay(o) => b = o
        /\ \A b \in Builds : UnderWay(b) /\ row # NoRow =>
              row.status = "building" /\ row.indexed = indexed[b]

PairInv ==
    file.there /\ file.version = 1 /\ overlaps <= 1 =>
        /\ \A i, j \in Rows : i <= j /\ docs[j] # 0 => docs[i] # 0
        /\ \A i \in Rows : i <= row.indexed => docs[i] # 0
        /\ \A b \in Builds : UnderWay(b) =>
              row # NoRow /\ \A i \in Rows : i <= indexed[b] => docs[i] # 0

RemovedInv ==
    overlaps = 0 /\ session = "removed" =>
        /\ row.indexed = 0
        /\ row # NoRow => \A b \in Builds : pc[b] \notin {"reading", "stopping"}

IndexIInv ==
    /\ FileInv /\ LoopInv /\ RowInv /\ VersionInv
    /\ AloneInv /\ PairInv /\ RemovedInv /\ SearchSeesAll
=============================================================================
