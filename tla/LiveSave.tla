------------------------------- MODULE LiveSave -------------------------------
(***************************************************************************)
(* What becomes of a recorded log: LiveSaveIntegration with the installed   *)
(* ConfirmedStartLiveSaveIntegration, the refresh timer of the Live tab,    *)
(* the main window's guards and the cleanup at exit.                        *)
(*                                                                          *)
(* Every capture goes to files in .crt/temp/live.  The timer finds that it  *)
(* has ended and makes it the pending log; the operator saves it into the   *)
(* project, which moves the files and adds a row, or discards it.  The      *)
(* handlers run one at a time in the GUI thread; a save is several steps    *)
(* so that the program may die between them.                                *)
(***************************************************************************)
EXTENDS Naturals

CONSTANTS
    MaxLogs,        \* bound: captures started
    MaxCrashes      \* bound: deaths of the program

ASSUME LiveSaveAssumption == MaxLogs \in Nat /\ MaxCrashes \in Nat

VARIABLES
    service,        \* the capture service: "idle", "active" or "ended"
    started,        \* captures started
    logs,           \* each capture: its files, its row and its fate
    liveTab,        \* the Live tab is there
    pending,        \* _pending_paths: the number of the capture, or 0
    pendingStatus,  \* _pending_status is not None
    finalized,      \* _transient_finalized
    deferredReady,  \* _deferred_start_ready
    startEnabled,   \* start_button.isEnabled()
    saving,         \* where the GUI thread is inside save_pending_log
    after,          \* what the save was asked for: "stay", "clean" or a leave
    crashes

widget == <<pending, pendingStatus, finalized, deferredReady, startEnabled>>
save   == <<saving, after>>
vars   == <<service, started, logs, liveTab, widget, save, crashes>>

Log == 1 .. MaxLogs

(* The session file and the other artifacts are nowhere yet, in the         *)
(* temporary directory, in the project, or deleted.                         *)
Place == {"none", "temp", "project", "gone"}
NoLog == [session |-> "none", rest |-> "none", row |-> "none",
          announced |-> FALSE, split |-> FALSE, fate |-> "none"]

Init ==
    /\ service = "idle" /\ started = 0 /\ logs = [l \in Log |-> NoLog]
    /\ liveTab = FALSE /\ pending = 0 /\ pendingStatus = FALSE
    /\ finalized = FALSE /\ deferredReady = FALSE /\ startEnabled = FALSE
    /\ saving = "none" /\ after = "stay" /\ crashes = 0

(* has_unsaved_log                                                          *)
HasUnsaved ==
    pending # 0 /\ pendingStatus /\ logs[pending].session = "temp"

Free == liveTab /\ saving = "none"
Idle == Free /\ service # "active"

Undecided(l) == logs[l].fate = "finished"

-----------------------------------------------------------------------------
(* The Live tab and its captures.                                           *)

OpenLive ==
    /\ ~liveTab
    /\ liveTab' = TRUE /\ startEnabled' = TRUE
    /\ UNCHANGED <<service, started, logs, pending, pendingStatus, finalized,
                   deferredReady, save, crashes>>

(* Slip: the flag of the last capture stays.                                *)
ResetNothing == UNCHANGED finalized

ResetFinalized == finalized' = FALSE

(* Start with no unsaved log: a capture into new temporary files.           *)
Start ==
    /\ Idle /\ startEnabled /\ ~HasUnsaved /\ started < MaxLogs
    /\ service' = "active" /\ started' = started + 1
    /\ pending' = started + 1 /\ pendingStatus' = FALSE /\ ResetFinalized
    /\ deferredReady' = FALSE /\ startEnabled' = FALSE
    /\ UNCHANGED <<logs, liveTab, save, crashes>>

(* No channel, doubled shortcuts or a service that still ends: no capture.  *)
StartFails ==
    /\ Idle /\ startEnabled /\ ~HasUnsaved
    /\ deferredReady' = FALSE
    /\ UNCHANGED <<service, started, logs, liveTab, pending, pendingStatus,
                   finalized, startEnabled, save, crashes>>

FilesAppear ==
    /\ service = "active" /\ logs[started].session = "none"
    /\ logs' = [logs EXCEPT ![started].session = "temp", ![started].rest = "temp"]
    /\ UNCHANGED <<service, started, liveTab, widget, save, crashes>>

(* STOPPED or ERROR; a capture whose channel was missing left no file.      *)
CaptureEnds ==
    /\ service = "active"
    /\ service' = "ended"
    /\ logs' = [logs EXCEPT ![started].fate =
                   IF logs[started].session = "temp" THEN "finished" ELSE "none"]
    /\ UNCHANGED <<started, liveTab, widget, save, crashes>>

(* The timer: the buttons follow the service, and a capture that has ended  *)
(* becomes the pending log, once.                                           *)
Tick ==
    /\ Free
    /\ startEnabled' = (deferredReady \/ service # "active")
    /\ IF service = "ended" /\ ~deferredReady /\ ~finalized /\ pending # 0
         THEN /\ finalized' = TRUE /\ pendingStatus' = TRUE
              /\ logs' = [logs EXCEPT ![pending].announced = TRUE]
         ELSE UNCHANGED <<finalized, pendingStatus, logs>>
    /\ UNCHANGED <<service, started, liveTab, pending, deferredReady, save,
                   crashes>>

-----------------------------------------------------------------------------
(* Deciding about the pending log.                                          *)

Forget == pending' = 0 /\ pendingStatus' = FALSE /\ finalized' = FALSE

(* The tab is destroyed with what it knows; so is its capture service.      *)
DropTab ==
    /\ liveTab' = FALSE /\ service' = "idle"
    /\ Forget /\ deferredReady' = FALSE /\ startEnabled' = FALSE

(* What is still undecided when its tab goes is lost.                       *)
Leaving(ls, fate) ==
    [l \in Log |-> IF ls[l].fate = "finished" THEN [ls[l] EXCEPT !.fate = fate]
                                               ELSE ls[l]]

(* _cleanup_live_temp when the program ends: the directory is removed.      *)
Cleaned(ls) ==
    [l \in Log |-> [ls[l] EXCEPT
        !.session = IF @ = "temp" THEN "gone" ELSE @,
        !.rest    = IF @ = "temp" THEN "gone" ELSE @]]

(* The tab is closed or another project opened ("tab"), the program is      *)
(* closed ("exit"), or Start goes on to an empty view ("clean").            *)
GoOn(how, ls) ==
    CASE how = "clean" ->
           /\ logs' = ls /\ Forget /\ deferredReady' = TRUE
           /\ UNCHANGED <<service, liveTab, startEnabled>>
      [] how = "stay" ->
           /\ logs' = ls /\ Forget
           /\ UNCHANGED <<service, liveTab, deferredReady, startEnabled>>
      [] how = "tab"  -> logs' = Leaving(ls, "lost") /\ DropTab
      [] how = "exit" -> logs' = Cleaned(Leaving(ls, "lost")) /\ DropTab

(* Slip: only the start of a capture asks about an unsaved log.             *)
LeaveAlways(how) ==
    /\ Idle
    /\ GoOn(how, logs)
    /\ UNCHANGED <<started, save, crashes>>

(* Leaving is refused while a capture is active, and asks when the log is   *)
(* unsaved; without one it goes ahead.                                      *)
Leave(how) ==
    /\ Idle /\ ~HasUnsaved
    /\ GoOn(how, logs)
    /\ UNCHANGED <<started, save, crashes>>

(* The operator opens the project that is open: the tabs are closed, and    *)
(* the question is asked only when the project changes.                     *)
Reopen ==
    /\ Idle
    /\ logs' = Leaving(logs, "dropped") /\ DropTab
    /\ UNCHANGED <<started, save, crashes>>

(* The program is closed while there is no Live tab.                        *)
Exit ==
    /\ ~liveTab /\ logs # Cleaned(logs)
    /\ logs' = Cleaned(logs)
    /\ UNCHANGED <<service, started, liveTab, widget, save, crashes>>

Asked(how) ==
    /\ Idle /\ HasUnsaved
    /\ how = "clean" => startEnabled

(* "Nie zapisuj": every artifact is unlinked.                               *)
Discard(how) ==
    /\ Asked(how) /\ how # "stay"
    /\ GoOn(how, [logs EXCEPT ![pending].session = "gone",
                              ![pending].rest = "gone",
                              ![pending].fate = "discarded"])
    /\ UNCHANGED <<started, save, crashes>>

(* Some artifact cannot be unlinked: the others are, and the log stays      *)
(* pending, without the files that are gone or without its session.         *)
DiscardFails(how) ==
    /\ Asked(how) /\ how # "stay"
    /\ \/ logs' = [logs EXCEPT ![pending].rest = "gone", ![pending].split = TRUE]
       \/ logs' = [logs EXCEPT ![pending].session = "gone",
                               ![pending].split = TRUE,
                               ![pending].fate = "discarded"]
    /\ UNCHANGED <<service, started, liveTab, widget, save, crashes>>

(* "Zapisz log", with a name: the open view of the log is closed first.     *)
Save(how) ==
    /\ Asked(how)
    /\ saving' = "session" /\ after' = how
    /\ UNCHANGED <<service, started, logs, liveTab, widget, crashes>>

SaveStops == saving' = "none" /\ after' = "stay"

MoveSession ==
    /\ saving = "session"
    /\ \/ /\ logs' = [logs EXCEPT ![pending].session = "project"]
          /\ saving' = "rest" /\ UNCHANGED after
       \/ SaveStops /\ UNCHANGED logs
    /\ UNCHANGED <<service, started, liveTab, widget, crashes>>

(* Slip: what was moved before the failure stays where it is.               *)
NoRollback == UNCHANGED logs

(* The artifacts moved so far are moved back; that may fail as well.        *)
Rollback ==
    \/ logs' = [logs EXCEPT ![pending].session = "temp"]
    \/ logs' = [logs EXCEPT ![pending].split = TRUE]

(* An artifact that a discard has deleted is skipped.                       *)
MoveRest ==
    /\ saving = "rest"
    /\ \/ /\ logs' = [logs EXCEPT ![pending].rest = IF @ = "gone" THEN "gone"
                                                                ELSE "project"]
          /\ saving' = "register" /\ UNCHANGED after
       \/ SaveStops /\ Rollback
    /\ UNCHANGED <<service, started, liveTab, widget, crashes>>

(* register_session, then finalize_session: one transaction each.           *)
Register ==
    /\ saving = "register"
    /\ \/ /\ logs' = [logs EXCEPT ![pending].row = "registered"]
          /\ saving' = "finalize" /\ UNCHANGED after
       \/ SaveStops /\ UNCHANGED logs
    /\ UNCHANGED <<service, started, liveTab, widget, crashes>>

FinalizeRow ==
    /\ saving = "finalize"
    /\ SaveStops
    /\ \/ GoOn(after, [logs EXCEPT ![pending].row = "final",
                                   ![pending].fate = "saved"])
       \/ UNCHANGED <<service, logs, liveTab, widget>>
    /\ UNCHANGED <<started, crashes>>

-----------------------------------------------------------------------------

(* The program dies; its files stay where they are.                         *)
Crash ==
    /\ crashes < MaxCrashes /\ crashes' = crashes + 1
    /\ liveTab /\ DropTab /\ SaveStops
    /\ logs' = [l \in Log |->
                  IF logs[l].session # "none" /\ logs[l].fate \in {"none", "finished"}
                    THEN [logs[l] EXCEPT !.fate = "crashed", !.split = TRUE]
                    ELSE logs[l]]
    /\ UNCHANGED started

Operator ==
    \/ OpenLive \/ Start \/ StartFails \/ Exit \/ Reopen
    \/ \E how \in {"tab", "exit"} : Leave(how)
    \/ \E how \in {"clean", "tab", "exit"} : Discard(how) \/ DiscardFails(how)
    \/ \E how \in {"stay", "clean", "tab", "exit"} : Save(how)
SaveStep == MoveSession \/ MoveRest \/ Register \/ FinalizeRow

Next == Operator \/ SaveStep \/ FilesAppear \/ CaptureEnds \/ Tick \/ Crash

(* The timer fires as long as the Live tab is there, and a handler that has *)
(* begun goes on.                                                           *)
Spec == Init /\ [][Next]_vars
FairSpec == Spec /\ WF_vars(Tick) /\ WF_vars(SaveStep)

-----------------------------------------------------------------------------
(* Properties.                                                              *)

(* Every variable holds a value of its kind, and nothing is remembered of a *)
(* log that is no longer the pending one.                                   *)
TypeOK ==
    /\ service \in {"idle", "active", "ended"} /\ started \in 0 .. MaxLogs
    /\ logs \in [Log -> [session : Place, rest : Place,
                         row : {"none", "registered", "final"},
                         announced : BOOLEAN, split : BOOLEAN,
                         fate : {"none", "finished", "saved", "discarded", "lost",
                                 "dropped", "crashed"}]]
    /\ liveTab \in BOOLEAN /\ pending \in 0 .. started
    /\ pending = 0 => ~pendingStatus /\ ~finalized
    /\ saving = "none" => after = "stay"
    /\ pendingStatus \in BOOLEAN /\ finalized \in BOOLEAN
    /\ deferredReady \in BOOLEAN /\ startEnabled \in BOOLEAN
    /\ saving \in {"none", "session", "rest", "register", "finalize"}
    /\ after \in {"stay", "clean", "tab", "exit"} /\ crashes \in Nat

(* The files beside the session file are with it in the project, but for    *)
(* those that a discard which failed had deleted before.                    *)
RestIsMoved(log) == log.rest = "project" \/ (log.split /\ log.rest = "gone")

(* A saved log is whole: its session file and every other file that a       *)
(* failed discard has not deleted are in the project, and its row has its   *)
(* final counts, whatever failed in earlier attempts.                       *)
SavedIsWhole ==
    \A l \in Log : logs[l].fate = "saved" =>
        /\ logs[l].session = "project" /\ RestIsMoved(logs[l])
        /\ logs[l].row = "final"

(* A row of the project never points to a file that is not there, and none  *)
(* is made before the other files are there, also after a crash or a        *)
(* failure in the middle of a save.                                         *)
RowHasFile ==
    \A l \in Log : logs[l].row # "none" =>
        logs[l].session = "project" /\ RestIsMoved(logs[l])

(* A capture is never started over a finished log that still waits in the   *)
(* temporary directory.                                                     *)
CaptureCoversNoLog ==
    service = "active" =>
        \A l \in Log : l < started /\ Undecided(l) => logs[l].session = "project"

(* While nothing is being moved a log is in one place: a failed save leaves *)
(* it where it was, unless moving it back failed, or a discard did.         *)
NeverSplit ==
    saving = "none" =>
        \A l \in Log : ~logs[l].split => logs[l].session = logs[l].rest

(* What the project says of a log is so, at every step and after a crash,   *)
(* and its files are together.                                              *)
LogsAreWhole == SavedIsWhole /\ RowHasFile /\ NeverSplit

(* A log that was announced as unsaved is lost with its tab only by a       *)
(* decision of the operator, unless the program crashed or the open project *)
(* was opened again.                                                        *)
AnnouncedIsAskedFor ==
    \A l \in Log : (logs[l].fate = "lost" /\ logs[l].announced)
        => logs[l].session = "project"

-----------------------------------------------------------------------------
(* Why the properties hold.                                                 *)

(* The pending log is the last capture, and what the tab knows of it is so. *)
WidgetInv ==
    /\ ~liveTab => service = "idle" /\ saving = "none"
    /\ service = "idle" => pending = 0
    /\ pending # 0 => pending = started
    /\ finalized => pendingStatus
    /\ startEnabled /\ pending # 0 => pendingStatus
    /\ deferredReady => pending = 0

(* A capture under way belongs to the tab, which does nothing else.         *)
CaptureInv ==
    /\ \A l \in Log : l > started => logs[l] = NoLog
    /\ service = "active" =>
         /\ pending = started /\ started # 0
         /\ ~pendingStatus /\ saving = "none"
         /\ logs[started].fate = "none" /\ logs[started].row = "none"
         /\ logs[started].session = logs[started].rest /\ ~logs[started].announced

(* Nobody but the tab decides about a log: one that is over and not in the  *)
(* project is the pending one, with its file, until it was decided.         *)
WaitingInv ==
    /\ \A l \in Log : Undecided(l) =>
         /\ liveTab /\ logs[l].session \in {"temp", "project"}
         /\ logs[l].session = "temp" =>
              l = pending /\ (logs[l].announced => pendingStatus)
    /\ pending # 0 =>
         /\ logs[pending].fate \in {"none", "finished", "discarded"}
         /\ service = "ended" /\ logs[pending].session = "temp" => Undecided(pending)

(* What each place of a save has moved.                                     *)
SavingInv ==
    saving # "none" =>
        /\ pending # 0 /\ pendingStatus /\ service = "ended" /\ Undecided(pending)
        /\ saving = "session" =>
             /\ logs[pending].session = "temp"
             /\ ~logs[pending].split => logs[pending].rest = "temp"
        /\ saving = "rest" =>
             /\ logs[pending].session = "project" /\ logs[pending].row = "none"
             /\ ~logs[pending].split => logs[pending].rest = "temp"
        /\ saving \in {"register", "finalize"} =>
             logs[pending].session = "project" /\ RestIsMoved(logs[pending])
        /\ saving = "finalize" => logs[pending].row = "registered"

(* A log that is not being moved is in one place.                           *)
TogetherInv ==
    \A l \in Log :
        logs[l].split \/ logs[l].session = logs[l].rest
                      \/ (saving = "rest" /\ l = pending)

SaveIInv ==
    /\ WidgetInv /\ CaptureInv /\ WaitingInv /\ SavingInv /\ TogetherInv
    /\ SavedIsWhole /\ RowHasFile /\ AnnouncedIsAskedFor /\ CaptureCoversNoLog

(* A capture that has ended is announced while its tab is there.            *)
EndIsAnnounced ==
    \A l \in Log :
        (service = "ended" /\ pending = l)
            ~> (logs[l].announced \/ ~liveTab)

(* The handoff report says that a warning comes before any operation that   *)
(* could remove the temporary log: before the open project is opened again  *)
(* and its tabs are closed, for one.                                        *)
ReopenAsks ==
    \A l \in Log : (logs[l].fate = "dropped" /\ logs[l].announced)
        => logs[l].session = "project"

(* The docstring of LiveSaveIntegration: a completed capture stays pending  *)
(* until the operator has saved or discarded it.                            *)
PendingUntilDecided ==
    \A l \in Log :
        (Undecided(l) /\ logs[l].announced /\ saving = "none") => HasUnsaved

(* The handoff report has the complete set of artifacts moved when a log is *)
(* saved, also when a discard of it was tried before.                       *)
SavedIsComplete ==
    \A l \in Log : logs[l].fate = "saved" => logs[l].rest = "project"
=============================================================================
