------------------------------ MODULE AnalysisRuns ------------------------------
(***************************************************************************)
(* What a project keeps of analyses: the sets of sessions that are         *)
(* compared (app/comparison_sets.py), the runs and their artifacts         *)
(* (app/extensions/runner.py, writers.py, app/project_domain_store.py),    *)
(* and the removal of sessions (app/session_management.py).                *)
(*                                                                         *)
(* Runs are tasks of the thread pool.  A run of kind "session" analyses    *)
(* one session; one of kind "service" reads the definition of its set      *)
(* itself and is driven by ExtensionRunner; one of kind "view" (frame      *)
(* timing, UDS latency) uses the definition its window was opened with and *)
(* has the life cycle of run_and_save.  The windows, the editor of sets    *)
(* and the removal of a session are the GUI thread's.                      *)
(***************************************************************************)
EXTENDS Naturals, FiniteSets

CONSTANTS
    Sessions,       \* sessions of the project
    Runs,           \* bound: tasks ever started
    MaxSets,        \* bound: comparison sets ever made
    MaxFaults,      \* bound: writes, moves and unlinks that fail, and times the program dies
    NoSession, NoDefinition

ASSUME RunsAssumption ==
    /\ IsFiniteSet(Sessions) /\ NoSession \notin Sessions
    /\ MaxSets \in Nat /\ MaxFaults \in Nat

Sets == 1 .. MaxSets

(* ComparisonSet: two sessions or more, one of them the base.              *)
Definitions == {d \in [members : SUBSET Sessions, base : Sessions] :
                    d.base \in d.members /\ Cardinality(d.members) > 1}

(* What a run of one session analyses.                                     *)
Alone(x) == [members |-> {x}, base |-> x]
Subjects == Definitions \cup {Alone(x) : x \in Sessions}

ASSUME NoDefinitionAssumption == NoDefinition \notin Subjects

(* The files of an imported session: its stream, whose header names the    *)
(* copy of the original.                                                   *)
Parts == {"stream", "original"}

VARIABLES
    rows,           \* sessions with a row in the project's database
    files,          \* [Sessions -> SUBSET Parts] the files each one has
    torn,           \* sessions that lost files to a removal that did not end (history)
    sets,           \* [Sets -> {"none", "active", "archived", "deleted"}]
    definition,     \* [Sets -> Definitions \cup {NoDefinition}] the rows of the sets
    window,         \* [Sets -> ...] the definition that an open analysis window holds
    gui,            \* what the GUI thread is in the middle of, and its own variables
    pc,             \* [Runs -> ...] where each run is
    kind,           \* [Runs -> {"session", "service", "view"}]
    target,         \* [Runs -> Sets \cup {0}] the set a run is recorded for
    used,           \* [Runs -> ...] the definition a run works with
    cancelled,      \* the runs whose CancellationToken is set
    status,         \* [Runs -> ...] analysis_runs.status, "none" without a row
    outcome,        \* [Runs -> ...] the status that a run is about to set
    file,           \* [Runs -> {"none", "temporary", "whole"}] its artifact on the disk
    recorded,       \* the runs whose artifact has its row
    told,           \* [Runs -> ...] the signal its task has emitted
    lost,           \* runs that could not write their status (history)
    faults

sessions == <<rows, files, torn>>
studies  == <<sets, definition, window>>
tasks    == <<kind, target, used>>
results  == <<file, recorded>>
vars == <<sessions, studies, gui, pc, tasks, cancelled, status, outcome, results, told, lost,
          faults>>

-----------------------------------------------------------------------------

Idle == [op |-> "idle", set |-> 0, history |-> FALSE, session |-> NoSession, left |-> {}]

(* Runs that are recorded for a set: _analysis_run_count counts them.       *)
RunsOf(s) == {r \in Runs : kind[r] # "session" /\ target[r] = s /\ status[r] # "none"}

(* The sessions that rows of other tables refer to (ON DELETE RESTRICT).    *)
OfSets == UNION {definition[s].members : s \in {t \in Sets : sets[t] \in {"active", "archived"}}}
OfArtifacts == UNION {used[r].members : r \in recorded}

(* Between BEGIN IMMEDIATE and the end of a removal nobody else writes.     *)
Locked == gui.op = "unlink"

Waiting(r) == pc[r] \notin {"idle", "over", "dead"}

Init ==
    /\ rows = Sessions /\ files = [x \in Sessions |-> Parts] /\ torn = {}
    /\ sets = [s \in Sets |-> "none"]
    /\ definition = [s \in Sets |-> NoDefinition]
    /\ window = [s \in Sets |-> NoDefinition]
    /\ gui = Idle
    /\ pc = [r \in Runs |-> "idle"]
    /\ kind = [r \in Runs |-> "session"]
    /\ target = [r \in Runs |-> 0]
    /\ used = [r \in Runs |-> NoDefinition]
    /\ cancelled = {}
    /\ status = [r \in Runs |-> "none"]
    /\ outcome = [r \in Runs |-> "none"]
    /\ file = [r \in Runs |-> "none"] /\ recorded = {}
    /\ told = [r \in Runs |-> "none"] /\ lost = {}
    /\ faults = 0

-----------------------------------------------------------------------------
(* The GUI thread: comparison sets.                                         *)

(* create_comparison_set.                                                   *)
CreateSet(s, d) ==
    /\ gui.op = "idle" /\ sets[s] = "none" /\ \A t \in Sets : t < s => sets[t] # "none"
    /\ d.members \subseteq rows
    /\ sets' = [sets EXCEPT ![s] = "active"]
    /\ definition' = [definition EXCEPT ![s] = d]
    /\ UNCHANGED <<sessions, window, gui, pc, tasks, cancelled, status, outcome, results, told,
                   lost, faults>>

(* _open_analysis: a window that is not modal reads the set, once.          *)
OpenWindow(s) ==
    /\ gui.op = "idle" /\ sets[s] = "active" /\ window[s] = NoDefinition
    /\ window' = [window EXCEPT ![s] = definition[s]]
    /\ UNCHANGED <<sessions, sets, definition, gui, pc, tasks, cancelled, status, outcome,
                   results, told, lost, faults>>

(* Neither closeEvent nor reject closes the window while its own task runs, *)
(* which they cancel instead.  closeEvent has cancelled the tasks of its    *)
(* views by then, reject (the Close button) leaves them; nobody awaits them.*)
CloseWindow(s) ==
    LET running(k) == {r \in Runs : kind[r] = k /\ target[r] = s /\ Waiting(r)}
    IN /\ gui.op = "idle" /\ window[s] # NoDefinition
       /\ \E views \in {running("view"), {}} :
             cancelled' = cancelled \cup running("service") \cup views
       /\ window' = IF running("service") # {} THEN window
                                               ELSE [window EXCEPT ![s] = NoDefinition]
       /\ UNCHANGED <<sessions, sets, definition, gui, pc, tasks, status, outcome, results, told,
                      lost, faults>>

(* _edit_set looks for analyses first and runs a modal dialog then; tasks   *)
(* go on meanwhile.                                                         *)
StartEdit(s) ==
    /\ gui.op = "idle" /\ sets[s] = "active"
    /\ gui' = [Idle EXCEPT !.op = "edit", !.set = s, !.history = RunsOf(s) # {}]
    /\ UNCHANGED <<sessions, studies, pc, tasks, cancelled, status, outcome, results, told, lost,
                   faults>>

(* Slip: what _edit_set saw before the dialog is trusted.                   *)
UpdateSetUnchecked(d) ==
    /\ gui.op = "edit" /\ ~gui.history /\ d.members \subseteq rows
    /\ definition' = [definition EXCEPT ![gui.set] = d]
    /\ gui' = Idle
    /\ UNCHANGED <<sessions, sets, window, pc, tasks, cancelled, status, outcome, results, told,
                   lost, faults>>

(* update: in one transaction, and only without analyses; otherwise the     *)
(* dialog's user is told that it failed.                                    *)
UpdateSet(d) ==
    /\ gui.op = "edit" /\ ~gui.history /\ d.members \subseteq rows
    /\ definition' = IF RunsOf(gui.set) = {} THEN [definition EXCEPT ![gui.set] = d]
                                             ELSE definition
    /\ gui' = Idle
    /\ UNCHANGED <<sessions, sets, window, pc, tasks, cancelled, status, outcome, results, told,
                   lost, faults>>

(* fork: a set with analyses is archived, the change becomes a new set.     *)
ForkSet(s, d) ==
    /\ gui.op = "edit" /\ gui.history /\ d.members \subseteq rows
    /\ sets[s] = "none" /\ \A t \in Sets : t < s => sets[t] # "none"
    /\ sets' = [sets EXCEPT ![s] = "active", ![gui.set] = "archived"]
    /\ definition' = [definition EXCEPT ![s] = d]
    /\ gui' = Idle
    /\ UNCHANGED <<sessions, window, pc, tasks, cancelled, status, outcome, results, told, lost,
                   faults>>

DismissEdit ==
    /\ gui.op = "edit"
    /\ gui' = Idle
    /\ UNCHANGED <<sessions, studies, pc, tasks, cancelled, status, outcome, results, told, lost,
                   faults>>

(* delete decides in its transaction: a set with analyses is archived.      *)
DeleteSet(s) ==
    /\ gui.op = "idle" /\ sets[s] = "active"
    /\ IF RunsOf(s) # {}
          THEN sets' = [sets EXCEPT ![s] = "archived"] /\ UNCHANGED definition
          ELSE /\ sets' = [sets EXCEPT ![s] = "deleted"]
               /\ definition' = [definition EXCEPT ![s] = NoDefinition]
    /\ UNCHANGED <<sessions, window, gui, pc, tasks, cancelled, status, outcome,
                   results, told, lost, faults>>

-----------------------------------------------------------------------------
(* The GUI thread: removal of a session.                                    *)

(* remove_selected_session: the session's tab is closed, which cancels its  *)
(* analysis; the paths are collected.  Only a stream that is still there    *)
(* tells where the copy of the original is.                                 *)
StartRemoval(x) ==
    /\ gui.op = "idle" /\ x \in rows
    /\ gui' = [Idle EXCEPT !.op = "remove", !.session = x,
                           !.left = IF "stream" \in files[x] THEN Parts ELSE {"stream"}]
    /\ cancelled' = cancelled \cup {r \in Runs : /\ kind[r] = "session" /\ Waiting(r)
                                                 /\ used[r] = Alone(x)}
    /\ UNCHANGED <<sessions, studies, pc, tasks, status, outcome, results, told, lost, faults>>

(* Slip: the foreign keys are not switched on for this connection.          *)
DeleteRowUnchecked ==
    /\ gui.op = "remove"
    /\ gui' = [gui EXCEPT !.op = "unlink"]
    /\ UNCHANGED <<sessions, studies, pc, tasks, cancelled, status, outcome, results, told, lost,
                   faults>>

(* BEGIN IMMEDIATE and the DELETE: refused while something refers to the    *)
(* session, before any file is touched.                                     *)
DeleteRow ==
    /\ gui.op = "remove"
    /\ gui' = IF gui.session \in OfSets \cup OfArtifacts THEN Idle
                                                         ELSE [gui EXCEPT !.op = "unlink"]
    /\ UNCHANGED <<sessions, studies, pc, tasks, cancelled, status, outcome, results, told, lost,
                   faults>>

(* One file after the other, the stream first.                              *)
Unlink(part) ==
    /\ gui.op = "unlink" /\ part \in gui.left
    /\ part = "original" => "stream" \notin gui.left
    /\ gui' = [gui EXCEPT !.left = @ \ {part}]
    /\ files' = [files EXCEPT ![gui.session] = @ \ {part}]
    /\ UNCHANGED <<rows, torn, studies, pc, tasks, cancelled, status, outcome, results, told,
                   lost, faults>>

Torn == IF Locked /\ files[gui.session] # Parts THEN torn \cup {gui.session} ELSE torn

(* unlink raises: the row comes back, the files that are gone do not.       *)
UnlinkFails ==
    /\ gui.op = "unlink" /\ gui.left # {} /\ faults < MaxFaults
    /\ gui' = Idle /\ torn' = Torn /\ faults' = faults + 1
    /\ UNCHANGED <<rows, files, studies, pc, tasks, cancelled, status, outcome, results, told,
                   lost>>

CommitRemoval ==
    /\ gui.op = "unlink" /\ gui.left = {}
    /\ rows' = rows \ {gui.session}
    /\ gui' = Idle
    /\ UNCHANGED <<files, torn, studies, pc, tasks, cancelled, status, outcome, results, told,
                   lost, faults>>

-----------------------------------------------------------------------------
(* The GUI thread: runs are asked for and cancelled.                        *)

Ask(r, k, s, d, at) ==
    /\ gui.op = "idle" /\ pc[r] = "idle"
    /\ kind' = [kind EXCEPT ![r] = k]
    /\ target' = [target EXCEPT ![r] = s]
    /\ used' = [used EXCEPT ![r] = d]
    /\ pc' = [pc EXCEPT ![r] = at]
    /\ UNCHANGED <<sessions, studies, gui, cancelled, status, outcome, results, told, lost,
                   faults>>

AskSession(r, x) == x \in rows /\ Ask(r, "session", 0, Alone(x), "defined")

(* The task holds the window's definition, or reads the set when it runs.   *)
AskView(r, s)    == window[s] # NoDefinition /\ Ask(r, "view", s, window[s], "defined")
AskService(r, s) == window[s] # NoDefinition /\ Ask(r, "service", s, NoDefinition, "asked")

Cancel(r) ==
    /\ gui.op = "idle" /\ Waiting(r) /\ r \notin cancelled
    /\ cancelled' = cancelled \cup {r}
    /\ UNCHANGED <<sessions, studies, gui, pc, tasks, status, outcome, results, told, lost,
                   faults>>

-----------------------------------------------------------------------------
(* A run, in its thread.                                                    *)

Moves(r, at) ==
    /\ pc' = [pc EXCEPT ![r] = at]
    /\ UNCHANGED <<sessions, studies, gui, cancelled, outcome, told>>

(* What is left of the definition of runs that are gone: their artifacts'.  *)
Forgets(gone) ==
    used' = [r \in Runs |-> IF r \in gone \ recorded THEN NoDefinition ELSE used[r]]

(* The task emits its signal and is gone, its CancellationToken with it.    *)
Gives(r, signal) ==
    /\ told' = [told EXCEPT ![r] = signal]
    /\ pc' = [pc EXCEPT ![r] = "over"]
    /\ cancelled' = cancelled \ {r}
    /\ outcome' = [outcome EXCEPT ![r] = "none"]
    /\ Forgets({r})
    /\ UNCHANGED <<sessions, studies, gui, kind, target>>

(* An exception or the end of the provider: the status to be set.           *)
Ends(r, result) ==
    /\ outcome' = [outcome EXCEPT ![r] = result]
    /\ pc' = [pc EXCEPT ![r] = "ending"]
    /\ UNCHANGED <<sessions, studies, gui, cancelled, tasks, status, told, lost>>

Fault == faults < MaxFaults /\ faults' = faults + 1

(* ComparisonAnalysisService.run: the definition as it is now.              *)
ReadSet(r) ==
    /\ pc[r] = "asked"
    /\ IF sets[target[r]] = "deleted"
          THEN Gives(r, "failed")
          ELSE /\ used' = [used EXCEPT ![r] = definition[target[r]]]
               /\ Moves(r, "defined") /\ UNCHANGED <<kind, target>>
    /\ UNCHANGED <<status, results, lost, faults>>

(* What create_analysis_run checks before it writes: that there is a row    *)
(* of the session or of the set.                                            *)
Validate(r) ==
    /\ pc[r] = "defined"
    /\ IF IF kind[r] = "session" THEN used[r].base \in rows ELSE sets[target[r]] # "deleted"
          THEN Moves(r, "valid") /\ UNCHANGED tasks
          ELSE Gives(r, "failed")
    /\ UNCHANGED <<status, results, lost, faults>>

(* The rows of analysis_runs and analysis_inputs, which nothing refers to.  *)
Create(r) ==
    /\ pc[r] = "valid" /\ ~Locked
    /\ status' = [status EXCEPT ![r] = "PENDING"]
    /\ Moves(r, "made")
    /\ UNCHANGED <<tasks, results, lost, faults>>

CreateFails(r) ==
    /\ pc[r] = "valid" /\ Fault /\ Gives(r, "failed")
    /\ UNCHANGED <<status, results, lost>>

(* ExtensionRunner looks at the token first, run_and_save does not.         *)
Start(r) ==
    /\ pc[r] = "made" /\ ~Locked
    /\ kind[r] = "view" \/ r \notin cancelled
    /\ status' = [status EXCEPT ![r] = "RUNNING"]
    /\ Moves(r, "running")
    /\ UNCHANGED <<tasks, results, lost, faults>>

(* Slip: the task returns without a status and without a signal.            *)
StopQuietly(r) ==
    /\ pc[r] = "made" /\ kind[r] # "view" /\ r \in cancelled
    /\ UNCHANGED vars

StopBeforeStart(r) ==
    /\ pc[r] = "made" /\ kind[r] # "view" /\ r \in cancelled
    /\ Ends(r, "CANCELLED")
    /\ UNCHANGED <<results, faults>>

(* RUNNING is written outside of every try.                                 *)
StartFails(r) ==
    /\ pc[r] = "made" /\ (kind[r] = "view" \/ r \notin cancelled)
    /\ Fault /\ Gives(r, "failed") /\ lost' = lost \cup {r}
    /\ UNCHANGED <<status, results>>

(* The provider reads every session it was given, or raises.                *)
Read(r) ==
    /\ pc[r] = "running"
    /\ IF r \in cancelled THEN Ends(r, "CANCELLED")
       ELSE IF \A x \in used[r].members : x \in rows /\ "stream" \in files[x]
          THEN Moves(r, "read") /\ UNCHANGED <<tasks, status, lost>>
          ELSE Ends(r, "FAILED")
    /\ UNCHANGED <<results, faults>>

(* write_bytes: a temporary file, synced.                                   *)
WriteTemporary(r) ==
    /\ pc[r] = "read"
    /\ IF r \in cancelled
          THEN Ends(r, "CANCELLED") /\ UNCHANGED file
          ELSE /\ file' = [file EXCEPT ![r] = "temporary"]
               /\ Moves(r, "written") /\ UNCHANGED <<tasks, status, lost>>
    /\ UNCHANGED <<recorded, faults>>

(* The disk is full or the move fails: finally unlinks the temporary file.  *)
WriteFails(r) ==
    /\ pc[r] \in {"read", "written"} /\ Fault
    /\ file' = [file EXCEPT ![r] = "none"]
    /\ Ends(r, "FAILED")
    /\ UNCHANGED recorded

Rename(r) ==
    /\ pc[r] = "written"
    /\ IF r \in cancelled
          THEN file' = [file EXCEPT ![r] = "none"] /\ Ends(r, "CANCELLED")
          ELSE /\ file' = [file EXCEPT ![r] = "whole"]
               /\ Moves(r, "named") /\ UNCHANGED <<tasks, status, lost>>
    /\ UNCHANGED <<recorded, faults>>

(* create_artifact: its sources must have rows when it commits.             *)
Record(r) ==
    /\ pc[r] = "named" /\ ~Locked
    /\ IF used[r].members \subseteq rows
          THEN /\ recorded' = recorded \cup {r} /\ Moves(r, "recorded")
               /\ UNCHANGED <<tasks, status, lost, file>>
          ELSE /\ file' = [file EXCEPT ![r] = "none"] /\ Ends(r, "FAILED")
               /\ UNCHANGED recorded
    /\ UNCHANGED faults

(* Slip: the file stays where its row could not be written.                 *)
RecordFailsQuietly(r) ==
    /\ pc[r] = "named" /\ Fault
    /\ Ends(r, "FAILED")
    /\ UNCHANGED results

RecordFails(r) ==
    /\ pc[r] = "named" /\ Fault
    /\ file' = [file EXCEPT ![r] = "none"]
    /\ Ends(r, "FAILED")
    /\ UNCHANGED recorded

(* ExtensionRunner asks once more after the provider, run_and_save does not.*)
Return(r) ==
    /\ pc[r] = "recorded"
    /\ Ends(r, IF kind[r] # "view" /\ r \in cancelled THEN "CANCELLED" ELSE "COMPLETED")
    /\ UNCHANGED <<results, faults>>

SignalOf(result) == CASE result = "COMPLETED" -> "completed"
                      [] result = "CANCELLED" -> "cancelled"
                      [] result = "FAILED"    -> "failed"

(* set_analysis_status, then the task's signal.                             *)
Finish(r) ==
    /\ pc[r] = "ending" /\ ~Locked
    /\ status' = [status EXCEPT ![r] = outcome[r]]
    /\ Gives(r, SignalOf(outcome[r]))
    /\ UNCHANGED <<results, lost, faults>>

(* Slip: the signal goes out although the status is not there.              *)
FinishBlindly(r) ==
    /\ pc[r] = "ending" /\ Fault /\ Gives(r, SignalOf(outcome[r]))
    /\ lost' = lost \cup {r}
    /\ UNCHANGED <<status, results>>

(* The status cannot be written: whatever it was, the task has failed.      *)
FinishFails(r) ==
    /\ pc[r] = "ending" /\ Fault /\ Gives(r, "failed")
    /\ lost' = lost \cup {r}
    /\ UNCHANGED <<status, results>>

(* The program dies in the middle of a run or of a removal: an open         *)
(* transaction is rolled back.  (At rest nothing is lost but windows.)      *)
Crash ==
    /\ Fault
    /\ Locked \/ \E r \in Runs : Waiting(r)
    /\ pc' = [r \in Runs |-> IF Waiting(r) THEN "dead" ELSE pc[r]]
    /\ gui' = Idle /\ torn' = Torn
    /\ window' = [s \in Sets |-> NoDefinition]
    /\ cancelled' = {} /\ outcome' = [r \in Runs |-> "none"]
    /\ Forgets({r \in Runs : Waiting(r)})
    /\ UNCHANGED <<rows, files, sets, definition, kind, target, status, results, told, lost>>

-----------------------------------------------------------------------------

RunStep(r) ==
    \/ ReadSet(r) \/ Validate(r) \/ Create(r) \/ Start(r) \/ StopBeforeStart(r)
    \/ Read(r) \/ WriteTemporary(r) \/ Rename(r) \/ Record(r) \/ Return(r) \/ Finish(r)

RunFault(r) ==
    \/ CreateFails(r) \/ StartFails(r) \/ WriteFails(r) \/ RecordFails(r) \/ FinishFails(r)

RemovalStep == DeleteRow \/ CommitRemoval \/ \E part \in Parts : Unlink(part)

SetStep ==
    \/ \E s \in Sets : OpenWindow(s) \/ CloseWindow(s) \/ StartEdit(s) \/ DeleteSet(s)
    \/ \E d \in Definitions : UpdateSet(d) \/ \E s \in Sets : CreateSet(s, d) \/ ForkSet(s, d)
    \/ DismissEdit

AskStep(r) ==
    \/ \E x \in Sessions : AskSession(r, x)
    \/ \E s \in Sets : AskView(r, s) \/ AskService(r, s)
    \/ Cancel(r)

Next ==
    \/ \E r \in Runs : RunStep(r) \/ RunFault(r) \/ AskStep(r)
    \/ SetStep
    \/ RemovalStep \/ UnlinkFails \/ \E x \in Sessions : StartRemoval(x)
    \/ Crash

(* The thread pool gets to every task that it was given; a removal is one   *)
(* call of the GUI thread and is not left halfway.                          *)
Spec == Init /\ [][Next]_vars /\ WF_vars(RemovalStep) /\ \A r \in Runs : WF_vars(RunStep(r))

-----------------------------------------------------------------------------

TypeOK ==
    /\ rows \subseteq Sessions /\ files \in [Sessions -> SUBSET Parts] /\ torn \subseteq Sessions
    /\ sets \in [Sets -> {"none", "active", "archived", "deleted"}]
    /\ definition \in [Sets -> Definitions \cup {NoDefinition}]
    /\ window \in [Sets -> Definitions \cup {NoDefinition}]
    /\ gui \in [op : {"idle", "edit", "remove", "unlink"}, set : Sets \cup {0},
                history : BOOLEAN, session : Sessions \cup {NoSession}, left : SUBSET Parts]
    /\ pc \in [Runs -> {"idle", "asked", "defined", "valid", "made", "running", "read",
                        "written", "named", "recorded", "ending", "over", "dead"}]
    /\ kind \in [Runs -> {"session", "service", "view"}]
    /\ target \in [Runs -> Sets \cup {0}]
    /\ used \in [Runs -> Subjects \cup {NoDefinition}]
    /\ cancelled \subseteq Runs /\ recorded \subseteq Runs /\ lost \subseteq Runs
    /\ status \in [Runs -> {"none", "PENDING", "RUNNING", "COMPLETED", "CANCELLED", "FAILED"}]
    /\ outcome \in [Runs -> {"none", "COMPLETED", "CANCELLED", "FAILED"}]
    /\ file \in [Runs -> {"none", "temporary", "whole"}]
    /\ told \in [Runs -> {"none", "completed", "cancelled", "failed"}]
    /\ faults \in 0 .. MaxFaults

(* An artifact that is listed has its whole file, whatever failed or died,  *)
(* and a run that ended leaves no file that is not listed: create_artifact  *)
(* after the rename, unlink when it raises, finally for the temporary file. *)
ArtifactsAreWhole ==
    /\ \A r \in recorded : file[r] = "whole"
    /\ \A r \in Runs : pc[r] = "over" => (file[r] = "none" <=> r \notin recorded)
                                         /\ file[r] # "temporary"

(* What an artifact was made of stays in the project: a removal that began  *)
(* before the artifact was recorded fails, or the artifact does (foreign    *)
(* keys, BEGIN IMMEDIATE).                                                  *)
SourcesStay == \A r \in recorded : used[r].members \subseteq rows

(* A removal is whole: outside of it, and unless one broke off between two  *)
(* files, a session has its row and all files or neither (remove_session).  *)
RemovalIsWhole ==
    \A x \in Sessions \ torn :
        gui.session # x => files[x] = IF x \in rows THEN Parts ELSE {}

(* The sessions of the project are there or gone, and those of its results  *)
(* are there.                                                               *)
SessionsAreWhole == SourcesStay /\ RemovalIsWhole

(* The database says of a run what its task has signalled, and of every run *)
(* that ended how it ended, unless that could not be written; a completed   *)
(* run has its artifact (_execute, run_and_save).                           *)
OutcomeIsTrue ==
    \A r \in Runs :
        /\ told[r] = "completed" => status[r] = "COMPLETED"
        /\ told[r] = "cancelled" => status[r] = "CANCELLED"
        /\ told[r] = "failed"    => status[r] \in {"none", "PENDING", "RUNNING", "FAILED"}
        /\ status[r] = "COMPLETED" => r \in recorded
        /\ pc[r] = "over" /\ r \notin lost => status[r] \notin {"PENDING", "RUNNING"}

(* What a run was recorded for is neither changed nor deleted afterwards,   *)
(* even when the run was recorded while the set's editor was open           *)
(* (_require_mutable in the transaction of update; fork; delete).           *)
HistoryIsKept ==
    [][\A r \in Runs : status[r] # "none" /\ kind[r] # "session" =>
           LET s == target[r]
           IN definition'[s] = definition[s] /\ (sets'[s] = "deleted" => sets[s] = "deleted")]_vars

(* A run that was asked for ends, unless the program dies: no status, lock  *)
(* or cancellation keeps it.                                                *)
RunsEnd == \A r \in Runs : pc[r] # "idle" ~> pc[r] \in {"over", "dead"}

(* load_latest_compatible gives a new window of the set this run's result:  *)
(* the same sessions, a base that is one of them.                           *)
Reopens(s, r) ==
    /\ sets[s] = "active" /\ kind[r] = "view" /\ target[r] = s /\ r \in recorded
    /\ used[r].members = definition[s].members
    /\ used[r].base \in definition[s].members

(* "artifact baseline session changed" is what the loader says it refuses:  *)
(* a result shown for a set was computed against the base that it has.      *)
ReopenedFits ==
    \A s \in Sets, r \in Runs : Reopens(s, r) => used[r].base = definition[s].base
=============================================================================
