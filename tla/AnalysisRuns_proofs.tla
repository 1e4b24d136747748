-------------------------- MODULE AnalysisRuns_proofs --------------------------
(***************************************************************************)
(* Theorems about AnalysisRuns for every number of sessions, runs, sets    *)
(* and failures.  The inductive invariant is made of three parts: what is  *)
(* true of a run at each point of its thread, what a removal has done to   *)
(* the session that it is at, and which sets may have runs.                *)
(***************************************************************************)
EXTENDS AnalysisRuns, TLAPS

Early    == {"idle", "asked", "defined", "valid"}
Working  == {"running", "read", "written", "named", "recorded"}
Unfinished == {"PENDING", "RUNNING"}

(* The row of a run, and what its task has told, by where its thread is.    *)
RowFits(r) ==
    /\ pc[r] \in Early => status[r] = "none"
    /\ pc[r] = "made" => status[r] = "PENDING"
    /\ pc[r] \in Working => status[r] = "RUNNING"
    /\ pc[r] = "ending" => status[r] \in Unfinished /\ outcome[r] # "none"
    /\ pc[r] = "ending" /\ outcome[r] = "COMPLETED" => r \in recorded
    /\ pc[r] = "dead" => status[r] \in Unfinished \cup {"none"}
    /\ pc[r] # "over" => told[r] = "none"

(* The signal and the row of a run that is over.                            *)
SignalFits(r) ==
    /\ told[r] = "completed" => status[r] = "COMPLETED"
    /\ told[r] = "cancelled" => status[r] = "CANCELLED"
    /\ told[r] = "failed"    => status[r] \in {"none", "PENDING", "RUNNING", "FAILED"}
    /\ status[r] = "COMPLETED" => r \in recorded
    /\ pc[r] = "over" /\ r \notin lost => status[r] \notin Unfinished

(* The artifact of a run, its file and its row.                             *)
ArtifactFits(r) ==
    /\ r \in recorded => file[r] = "whole"
    /\ pc[r] \in Early \cup {"made", "running", "read"} => file[r] = "none" /\ r \notin recorded
    /\ pc[r] = "written" => file[r] = "temporary" /\ r \notin recorded
    /\ pc[r] = "named" => file[r] = "whole" /\ r \notin recorded
    /\ pc[r] = "recorded" => r \in recorded
    /\ pc[r] \in {"ending", "over"} => file[r] # "temporary" /\ (file[r] = "none" <=> r \notin recorded)

(* The removal that the GUI thread is in.                                   *)
RemovalFits ==
    /\ gui.op \in {"idle", "edit"} => gui.session = NoSession
    /\ gui.op \in {"remove", "unlink"} => gui.session \in rows
    /\ gui.op = "remove" /\ gui.session \notin torn =>
           files[gui.session] = Parts /\ gui.left = Parts
    /\ gui.op = "unlink" /\ gui.session \notin torn => files[gui.session] = gui.left
    /\ gui.op = "unlink" => \A r \in recorded : gui.session \notin used[r].members

(* Only a set that was made has a window or runs.                           *)
SetsFit ==
    /\ gui.op = "edit" => gui.set \in Sets /\ sets[gui.set] # "none"
    /\ \A s \in Sets : window[s] # NoDefinition => sets[s] # "none"
    /\ \A r \in Runs : kind[r] # "session" => target[r] \in Sets /\ sets[target[r]] # "none"
    /\ \A r \in Runs : pc[r] = "asked" => kind[r] # "session"

RunsFit == \A r \in Runs : RowFits(r) /\ SignalFits(r) /\ ArtifactFits(r)

IInv == TypeOK /\ RunsFit /\ SourcesStay /\ RemovalIsWhole /\ RemovalFits /\ SetsFit

-----------------------------------------------------------------------------

(* What the types of the definitions come down to.                          *)
LEMMA SubjectFacts ==
    /\ NoDefinition \notin Definitions
    /\ Definitions \subseteq Subjects
    /\ \A x \in Sessions : Alone(x) \in Subjects
BY NoDefinitionAssumption DEF Subjects

(* The signals that tell how a run ended.                                   *)
LEMMA SignalIsTyped ==
    /\ SignalOf("COMPLETED") = "completed"
    /\ SignalOf("CANCELLED") = "cancelled"
    /\ SignalOf("FAILED") = "failed"
BY DEF SignalOf

USE DEF Sets

(* Every action keeps the types.                                            *)
LEMMA TypeOfSetStep ==
    ASSUME TypeOK, SetStep
    PROVE  TypeOK'
<1>1. ASSUME NEW s \in Sets, OpenWindow(s) \/ CloseWindow(s) \/ StartEdit(s) \/ DeleteSet(s)
      PROVE  TypeOK'
  <2>1. CASE OpenWindow(s)
    BY <2>1 DEF TypeOK, OpenWindow, sessions, studies, tasks, results
  <2>2. CASE CloseWindow(s)
    BY <2>2 DEF TypeOK, CloseWindow, sessions, studies, tasks, results
  <2>3. CASE StartEdit(s)
    BY <2>3 DEF TypeOK, StartEdit, Idle, sessions, studies, tasks, results
  <2>4. CASE DeleteSet(s)
    BY <2>4 DEF TypeOK, DeleteSet, sessions, studies, tasks, results
  <2> QED BY <1>1, <2>1, <2>2, <2>3, <2>4
<1>2. ASSUME NEW d \in Definitions, UpdateSet(d)
      PROVE  TypeOK'
  BY <1>2 DEF TypeOK, UpdateSet, Idle, sessions, studies, tasks, results
<1>3. ASSUME NEW d \in Definitions, NEW s \in Sets, CreateSet(s, d)
      PROVE  TypeOK'
  BY <1>3 DEF TypeOK, CreateSet, Idle, sessions, studies, tasks, results
<1>4. ASSUME NEW d \in Definitions, NEW s \in Sets, ForkSet(s, d)
      PROVE  TypeOK'
  BY <1>4 DEF TypeOK, ForkSet, Idle, sessions, studies, tasks, results
<1>5. ASSUME DismissEdit
      PROVE  TypeOK'
  BY <1>5 DEF TypeOK, DismissEdit, Idle, sessions, studies, tasks, results
<1> QED BY <1>1, <1>2, <1>3, <1>4, <1>5 DEF SetStep

LEMMA TypeOfRemoval ==
    ASSUME TypeOK, RemovalFits,
           RemovalStep \/ UnlinkFails \/ \E x \in Sessions : StartRemoval(x)
    PROVE  TypeOK'
<1>1. CASE DeleteRow
  BY <1>1 DEF TypeOK, DeleteRow, Idle, sessions, studies, tasks, results
<1>2. CASE CommitRemoval
  BY <1>2 DEF TypeOK, CommitRemoval, Idle, sessions, studies, tasks, results
<1>3. ASSUME NEW part \in Parts, Unlink(part)
      PROVE  TypeOK'
  BY <1>3 DEF TypeOK, Unlink, Idle, sessions, studies, tasks, results
<1>4. CASE UnlinkFails
  BY <1>4, RunsAssumption
     DEF TypeOK, RemovalFits, UnlinkFails, Torn, Locked, Idle, sessions, studies, tasks, results
<1>5. ASSUME NEW x \in Sessions, StartRemoval(x)
      PROVE  TypeOK'
  BY <1>5 DEF TypeOK, StartRemoval, Parts, Idle, sessions, studies, tasks, results
<1> QED BY <1>1, <1>2, <1>3, <1>4, <1>5 DEF RemovalStep

LEMMA TypeOfRun ==
    ASSUME TypeOK, RunsFit, SetsFit, NEW r \in Runs, RunStep(r)
    PROVE  TypeOK'
<1>1. CASE ReadSet(r)
  <2>1. CASE sets[target[r]] = "deleted"
    <3>1. Gives(r, "failed") /\ UNCHANGED <<status, results, lost, faults>>
      BY <1>1, <2>1 DEF ReadSet
    <3> QED BY <3>1 DEF TypeOK, Gives, Forgets, sessions, studies, tasks, results
  <2>2. CASE sets[target[r]] # "deleted"
    <3>1. definition[target[r]] \in Subjects \cup {NoDefinition}
      BY <1>1, SubjectFacts DEF TypeOK, SetsFit, ReadSet
    <3> QED BY <1>1, <2>2, <3>1 DEF TypeOK, ReadSet, Moves, sessions, studies, tasks, results
  <2> QED BY <2>1, <2>2
<1>2. CASE Validate(r)
  BY <1>2 DEF TypeOK, Validate, Gives, Forgets, Moves, sessions, studies, tasks, results
<1>3. CASE Create(r)
  BY <1>3 DEF TypeOK, Create, Moves, sessions, studies, tasks, results
<1>4. CASE Start(r)
  BY <1>4 DEF TypeOK, Start, Moves, sessions, studies, tasks, results
<1>5. CASE StopBeforeStart(r)
  BY <1>5 DEF TypeOK, StopBeforeStart, Ends, sessions, studies, tasks, results
<1>6. CASE Read(r)
  BY <1>6 DEF TypeOK, Read, Ends, Moves, sessions, studies, tasks, results
<1>7. CASE WriteTemporary(r)
  <2>1. CASE r \in cancelled
    <3>1. Ends(r, "CANCELLED") /\ UNCHANGED <<file, recorded, faults>>
      BY <1>7, <2>1 DEF WriteTemporary
    <3> QED BY <3>1 DEF TypeOK, Ends, sessions, studies, tasks, results
  <2>2. CASE r \notin cancelled
    BY <1>7, <2>2 DEF TypeOK, WriteTemporary, Ends, Moves, sessions, studies, tasks, results
  <2> QED BY <2>1, <2>2
<1>8. CASE Rename(r)
  <2>1. CASE r \in cancelled
    <3>1. /\ file' = [file EXCEPT ![r] = "none"] /\ Ends(r, "CANCELLED")
          /\ UNCHANGED <<recorded, faults>>
      BY <1>8, <2>1 DEF Rename
    <3> QED BY <3>1 DEF TypeOK, Ends, sessions, studies, tasks, results
  <2>2. CASE r \notin cancelled
    BY <1>8, <2>2 DEF TypeOK, Rename, Ends, Moves, sessions, studies, tasks, results
  <2> QED BY <2>1, <2>2
<1>9. CASE Record(r)
  <2>1. CASE used[r].members \subseteq rows
    BY <1>9, <2>1 DEF TypeOK, Record, Ends, Moves, sessions, studies, tasks, results
  <2>2. CASE ~(used[r].members \subseteq rows)
    <3>1. /\ file' = [file EXCEPT ![r] = "none"] /\ Ends(r, "FAILED")
          /\ UNCHANGED <<recorded, faults>>
      BY <1>9, <2>2 DEF Record
    <3> QED BY <3>1 DEF TypeOK, Ends, sessions, studies, tasks, results
  <2> QED BY <2>1, <2>2
<1>10. CASE Return(r)
  BY <1>10 DEF TypeOK, Return, Ends, sessions, studies, tasks, results
<1>11. CASE Finish(r)
  <2>1. SignalOf(outcome[r]) \in {"completed", "cancelled", "failed"}
    BY <1>11, SignalIsTyped DEF TypeOK, RunsFit, RowFits, Finish
  <2> QED BY <1>11, <2>1 DEF TypeOK, Finish, Gives, Forgets, sessions, studies, tasks, results
<1> QED BY <1>1, <1>2, <1>3, <1>4, <1>5, <1>6, <1>7, <1>8, <1>9, <1>10, <1>11 DEF RunStep

LEMMA TypeOfFault ==
    ASSUME TypeOK, RemovalFits, (\E r \in Runs : RunFault(r)) \/ Crash
    PROVE  TypeOK'
<1>1. ASSUME NEW r \in Runs, CreateFails(r) \/ StartFails(r) \/ FinishFails(r)
      PROVE  TypeOK'
  <2>1. CASE CreateFails(r)
    BY <2>1, RunsAssumption
       DEF TypeOK, CreateFails, Fault, Gives, Forgets, sessions, studies, tasks, results
  <2>2. CASE StartFails(r)
    BY <2>2, RunsAssumption
       DEF TypeOK, StartFails, Fault, Gives, Forgets, sessions, studies, tasks, results
  <2>3. CASE FinishFails(r)
    BY <2>3, RunsAssumption
       DEF TypeOK, FinishFails, Fault, Gives, Forgets, sessions, studies, tasks, results
  <2> QED BY <1>1, <2>1, <2>2, <2>3
<1>2. ASSUME NEW r \in Runs, WriteFails(r) \/ RecordFails(r)
      PROVE  TypeOK'
  BY <1>2, RunsAssumption
     DEF TypeOK, WriteFails, RecordFails, Fault, Ends, sessions, studies, tasks, results
<1>3. CASE Crash
  BY <1>3, RunsAssumption
     DEF TypeOK, RemovalFits, Crash, Fault, Torn, Locked, Idle, Waiting, Forgets, sessions,
         studies, tasks, results
<1> QED BY <1>1, <1>2, <1>3 DEF RunFault

LEMMA TypeOfAsk ==
    ASSUME TypeOK, NEW r \in Runs, AskStep(r)
    PROVE  TypeOK'
<1>1. ASSUME NEW x \in Sessions, AskSession(r, x)
      PROVE  TypeOK'
  BY <1>1, SubjectFacts DEF TypeOK, AskSession, Ask, sessions, studies, tasks, results
<1>2. ASSUME NEW s \in Sets, AskView(r, s)
      PROVE  TypeOK'
  BY <1>2, SubjectFacts DEF TypeOK, AskView, Ask, sessions, studies, tasks, results
<1>3. ASSUME NEW s \in Sets, AskService(r, s)
      PROVE  TypeOK'
  BY <1>3, SubjectFacts DEF TypeOK, AskService, Ask, sessions, studies, tasks, results
<1>4. CASE Cancel(r)
  BY <1>4 DEF TypeOK, Cancel, sessions, studies, tasks, results
<1> QED BY <1>1, <1>2, <1>3, <1>4 DEF AskStep

LEMMA TypeStep ==
    ASSUME TypeOK, RunsFit, RemovalFits, SetsFit, [Next]_vars
    PROVE  TypeOK'
<1>1. CASE UNCHANGED vars
  BY <1>1 DEF TypeOK, vars, sessions, studies, tasks, results
<1>2. CASE Next
  BY <1>2, TypeOfSetStep, TypeOfRemoval, TypeOfRun, TypeOfFault, TypeOfAsk DEF Next
<1> QED BY <1>1, <1>2

-----------------------------------------------------------------------------

(* What is true of the runs, step by step.                                  *)
LEMMA RunsFitOfRun ==
    ASSUME TypeOK, RunsFit, NEW r \in Runs, RunStep(r)
    PROVE  RunsFit'
<1> SUFFICES ASSUME NEW q \in Runs
             PROVE  (RowFits(q) /\ SignalFits(q) /\ ArtifactFits(q))'
  BY DEF RunsFit
<1> USE DEF TypeOK, RunsFit, RowFits, SignalFits, ArtifactFits, Early, Working, Unfinished,
            sessions, studies, tasks, results
<1>1. CASE ReadSet(r)
  <2>1. CASE sets[target[r]] = "deleted"
    <3>1. Gives(r, "failed") /\ UNCHANGED <<status, results, lost, faults>>
      BY <1>1, <2>1 DEF ReadSet
    <3> QED BY <1>1, <3>1 DEF ReadSet, Gives
  <2>2. CASE sets[target[r]] # "deleted"
    BY <1>1, <2>2 DEF ReadSet, Moves
  <2> QED BY <2>1, <2>2
<1>2. CASE Validate(r)
  <2>1. CASE Gives(r, "failed")
    BY <1>2, <2>1 DEF Validate, Gives
  <2>2. CASE Moves(r, "valid")
    BY <1>2, <2>2 DEF Validate, Gives, Moves
  <2> QED BY <1>2, <2>1, <2>2 DEF Validate
<1>3. CASE Create(r)
  BY <1>3 DEF Create, Moves
<1>4. CASE Start(r)
  BY <1>4 DEF Start, Moves
<1>5. CASE StopBeforeStart(r)
  BY <1>5 DEF StopBeforeStart, Ends
<1>6. CASE Read(r)
  <2>1. CASE Moves(r, "read") /\ UNCHANGED <<tasks, status, lost>>
    BY <1>6, <2>1 DEF Read, Moves
  <2>2. ASSUME NEW end \in {"CANCELLED", "FAILED"}, Ends(r, end)
        PROVE  (RowFits(q) /\ SignalFits(q) /\ ArtifactFits(q))'
    BY <1>6, <2>2 DEF Read, Ends
  <2> QED BY <1>6, <2>1, <2>2 DEF Read
<1>7. CASE WriteTemporary(r)
  <2>1. CASE r \in cancelled
    <3>1. Ends(r, "CANCELLED") /\ UNCHANGED <<file, recorded, faults>>
      BY <1>7, <2>1 DEF WriteTemporary
    <3> QED BY <1>7, <3>1 DEF WriteTemporary, Ends
  <2>2. CASE r \notin cancelled
    BY <1>7, <2>2 DEF WriteTemporary, Moves
  <2> QED BY <2>1, <2>2
<1>8. CASE Rename(r)
  <2>1. CASE r \in cancelled
    <3>1. /\ file' = [file EXCEPT ![r] = "none"] /\ Ends(r, "CANCELLED")
          /\ UNCHANGED <<recorded, faults>> /\ pc[r] = "written"
      BY <1>8, <2>1 DEF Rename
    <3> QED BY <3>1 DEF Ends
  <2>2. CASE r \notin cancelled
    BY <1>8, <2>2 DEF Rename, Moves
  <2> QED BY <2>1, <2>2
<1>9. CASE Record(r)
  <2>1. CASE used[r].members \subseteq rows
    BY <1>9, <2>1 DEF Record, Moves
  <2>2. CASE ~(used[r].members \subseteq rows)
    <3>1. /\ file' = [file EXCEPT ![r] = "none"] /\ Ends(r, "FAILED")
          /\ UNCHANGED <<recorded, faults>> /\ pc[r] = "named"
      BY <1>9, <2>2 DEF Record
    <3> QED BY <3>1 DEF Ends
  <2> QED BY <2>1, <2>2
<1>10. CASE Return(r)
  BY <1>10 DEF Return, Ends
<1>11. CASE Finish(r)
  <2>1. /\ pc[r] = "ending" /\ outcome[r] \in {"COMPLETED", "CANCELLED", "FAILED"}
        /\ status' = [status EXCEPT ![r] = outcome[r]]
        /\ told' = [told EXCEPT ![r] = SignalOf(outcome[r])]
        /\ pc' = [pc EXCEPT ![r] = "over"]
        /\ outcome' = [outcome EXCEPT ![r] = "none"]
        /\ UNCHANGED <<file, recorded, lost>>
    BY <1>11 DEF Finish, Gives
  <2> QED BY <2>1, SignalIsTyped
<1> QED BY <1>1, <1>2, <1>3, <1>4, <1>5, <1>6, <1>7, <1>8, <1>9, <1>10, <1>11 DEF RunStep

LEMMA RunsFitOfFault ==
    ASSUME TypeOK, RunsFit, (\E r \in Runs : RunFault(r)) \/ Crash
    PROVE  RunsFit'
<1> SUFFICES ASSUME NEW q \in Runs
             PROVE  (RowFits(q) /\ SignalFits(q) /\ ArtifactFits(q))'
  BY DEF RunsFit
<1> USE DEF TypeOK, RunsFit, RowFits, SignalFits, ArtifactFits, Early, Working, Unfinished,
            sessions, studies, tasks, results
<1>1. ASSUME NEW r \in Runs, CreateFails(r)
      PROVE  (RowFits(q) /\ SignalFits(q) /\ ArtifactFits(q))'
  BY <1>1 DEF CreateFails, Gives
<1>2. ASSUME NEW r \in Runs, StartFails(r)
      PROVE  (RowFits(q) /\ SignalFits(q) /\ ArtifactFits(q))'
  BY <1>2 DEF StartFails, Gives
<1>3. ASSUME NEW r \in Runs, FinishFails(r)
      PROVE  (RowFits(q) /\ SignalFits(q) /\ ArtifactFits(q))'
  BY <1>3 DEF FinishFails, Gives
<1>4. ASSUME NEW r \in Runs, WriteFails(r)
      PROVE  (RowFits(q) /\ SignalFits(q) /\ ArtifactFits(q))'
  BY <1>4 DEF WriteFails, Ends
<1>5. ASSUME NEW r \in Runs, RecordFails(r)
      PROVE  (RowFits(q) /\ SignalFits(q) /\ ArtifactFits(q))'
  BY <1>5 DEF RecordFails, Ends
<1>6. CASE Crash
  BY <1>6 DEF Crash, Waiting
<1> QED BY <1>1, <1>2, <1>3, <1>4, <1>5, <1>6 DEF RunFault

LEMMA RunsFitOfAsk ==
    ASSUME TypeOK, RunsFit, NEW r \in Runs, AskStep(r)
    PROVE  RunsFit'
<1> USE DEF TypeOK, RunsFit, RowFits, SignalFits, ArtifactFits, Early, Working, Unfinished,
            sessions, studies, tasks, results
<1>1. ASSUME NEW k, NEW s, NEW d, NEW at \in {"asked", "defined"}, Ask(r, k, s, d, at)
      PROVE  RunsFit'
  BY <1>1 DEF Ask
<1>2. CASE Cancel(r)
  BY <1>2 DEF Cancel
<1> QED BY <1>1, <1>2 DEF AskStep, AskSession, AskView, AskService

LEMMA RunsFitStep ==
    ASSUME TypeOK, RunsFit, [Next]_vars
    PROVE  RunsFit'
<1> USE DEF RunsFit, RowFits, SignalFits, ArtifactFits, sessions, studies, tasks, results
<1>1. CASE UNCHANGED vars
  BY <1>1 DEF vars
<1>2. CASE SetStep
  <2>1. UNCHANGED <<pc, status, outcome, told, file, recorded, lost>>
    BY <1>2 DEF SetStep, OpenWindow, CloseWindow, StartEdit, DeleteSet, UpdateSet, CreateSet,
                ForkSet, DismissEdit
  <2> QED BY <2>1
<1>3. CASE RemovalStep \/ UnlinkFails \/ \E x \in Sessions : StartRemoval(x)
  <2>1. UNCHANGED <<pc, status, outcome, told, file, recorded, lost>>
    BY <1>3 DEF RemovalStep, DeleteRow, CommitRemoval, Unlink, UnlinkFails, StartRemoval
  <2> QED BY <2>1
<1> QED BY <1>1, <1>2, <1>3, RunsFitOfRun, RunsFitOfFault, RunsFitOfAsk DEF Next

-----------------------------------------------------------------------------

(* The sessions and the removal: nothing that only runs and sets change     *)
(* can part an artifact from its sources.                                   *)
SourcesFit == SourcesStay /\ RemovalIsWhole /\ RemovalFits

LEMMA SourcesFitOfRun ==
    ASSUME TypeOK, RunsFit, SourcesFit, NEW r \in Runs, RunStep(r) \/ RunFault(r) \/ AskStep(r)
    PROVE  SourcesFit'
<1> USE DEF SourcesFit, SourcesStay, RemovalIsWhole, RemovalFits, sessions, studies, tasks,
            results
<1>1. ASSUME UNCHANGED <<sessions, gui, recorded>>, \A q \in recorded : used'[q] = used[q]
      PROVE  SourcesFit'
  BY <1>1
<1>2. ASSUME UNCHANGED <<sessions, gui, recorded>>, Gives(r, "failed") \/ Finish(r)
      PROVE  SourcesFit'
  <2>1. \A q \in recorded : used'[q] = used[q]
    BY <1>2 DEF TypeOK, Gives, Finish, Forgets
  <2> QED BY <1>1, <1>2, <2>1
<1>3. CASE ReadSet(r)
  <2>1. CASE sets[target[r]] = "deleted"
    BY <1>2, <1>3, <2>1 DEF ReadSet, Gives
  <2>2. CASE sets[target[r]] # "deleted"
    <3>1. r \notin recorded
      BY <1>3 DEF RunsFit, ArtifactFits, Early, ReadSet
    <3>2. \A q \in recorded : used'[q] = used[q]
      BY <1>3, <2>2, <3>1 DEF TypeOK, ReadSet
    <3> QED BY <1>1, <1>3, <2>2, <3>2 DEF ReadSet, Moves
  <2> QED BY <2>1, <2>2
<1>4. CASE Validate(r)
  BY <1>1, <1>2, <1>4 DEF Validate, Moves, Gives
<1>5. CASE Create(r) \/ Start(r) \/ StopBeforeStart(r) \/ Read(r) \/ Return(r)
  BY <1>1, <1>5 DEF Create, Start, StopBeforeStart, Read, Return, Moves, Ends
<1>6. CASE WriteTemporary(r) \/ Rename(r)
  BY <1>1, <1>6 DEF WriteTemporary, Rename, Moves, Ends
<1>7. CASE Record(r)
  <2>1. CASE used[r].members \subseteq rows
    <3>1. /\ UNCHANGED <<rows, files, torn, gui, used>> /\ recorded' = recorded \cup {r}
          /\ gui.op # "unlink"
      BY <1>7, <2>1 DEF Record, Moves, Locked
    <3> QED BY <2>1, <3>1
  <2>2. CASE ~(used[r].members \subseteq rows)
    BY <1>1, <1>7, <2>2 DEF Record, Ends
  <2> QED BY <2>1, <2>2
<1>8. CASE Finish(r)
  BY <1>2, <1>8 DEF Finish, Gives
<1>9. CASE CreateFails(r) \/ StartFails(r) \/ FinishFails(r)
  BY <1>2, <1>9 DEF CreateFails, StartFails, FinishFails, Gives
<1>10. CASE WriteFails(r) \/ RecordFails(r)
  BY <1>1, <1>10 DEF WriteFails, RecordFails, Ends
<1>11. ASSUME NEW k, NEW s, NEW d, NEW at, Ask(r, k, s, d, at)
       PROVE  SourcesFit'
  <2>1. r \notin recorded
    BY <1>11 DEF RunsFit, ArtifactFits, Early, Ask
  <2>2. \A q \in recorded : used'[q] = used[q]
    BY <1>11, <2>1 DEF TypeOK, Ask
  <2> QED BY <1>1, <1>11, <2>2 DEF Ask
<1>12. CASE Cancel(r)
  BY <1>1, <1>12 DEF Cancel
<1> QED
  BY <1>3, <1>4, <1>5, <1>6, <1>7, <1>8, <1>9, <1>10, <1>11, <1>12
     DEF RunStep, RunFault, AskStep, AskSession, AskView, AskService

LEMMA IdleFacts ==
    /\ Idle.op = "idle" /\ Idle.session = NoSession /\ NoSession \notin Sessions
BY RunsAssumption DEF Idle

LEMMA SourcesFitOfRemoval ==
    ASSUME TypeOK, SourcesFit,
           RemovalStep \/ UnlinkFails \/ (\E x \in Sessions : StartRemoval(x)) \/ Crash
    PROVE  SourcesFit'
<1> USE IdleFacts DEF TypeOK, sessions, studies, tasks, results
<1> DEFINE Was == SourcesStay /\ RemovalIsWhole /\ RemovalFits
<1>0. Was
  BY DEF SourcesFit
<1>1. CASE DeleteRow
  <2>1. CASE gui.session \in OfSets \cup OfArtifacts
    <3>1. /\ UNCHANGED <<rows, files, torn, used, recorded>> /\ gui' = Idle
          /\ gui.op = "remove"
      BY <1>1, <2>1 DEF DeleteRow
    <3>2. SourcesStay'
      BY <1>0, <3>1 DEF SourcesStay
    <3>3. RemovalIsWhole'
      BY <1>0, <3>1 DEF RemovalIsWhole, RemovalFits
    <3>4. RemovalFits'
      BY <3>1 DEF RemovalFits
    <3> QED BY <3>2, <3>3, <3>4 DEF SourcesFit
  <2>2. CASE gui.session \notin OfSets \cup OfArtifacts
    <3>1. \A r \in recorded : gui.session \notin used[r].members
      BY <2>2 DEF OfArtifacts
    <3>2. /\ UNCHANGED <<rows, files, torn, used, recorded>>
          /\ gui.op = "remove" /\ gui'.op = "unlink"
          /\ gui'.session = gui.session /\ gui'.left = gui.left
      BY <1>1, <2>2 DEF DeleteRow
    <3> QED BY <1>0, <3>1, <3>2 DEF SourcesFit, SourcesStay, RemovalIsWhole, RemovalFits
  <2> QED BY <2>1, <2>2
<1>2. CASE CommitRemoval
  <2>1. /\ UNCHANGED <<files, torn, used, recorded>> /\ gui' = Idle
        /\ gui.op = "unlink" /\ gui.left = {} /\ rows' = rows \ {gui.session}
    BY <1>2 DEF CommitRemoval
  <2>2. SourcesStay'
    BY <1>0, <2>1 DEF SourcesStay, RemovalFits
  <2>3. RemovalIsWhole'
    BY <1>0, <2>1 DEF RemovalIsWhole, RemovalFits
  <2>4. RemovalFits'
    BY <2>1 DEF RemovalFits
  <2> QED BY <2>2, <2>3, <2>4 DEF SourcesFit
<1>3. ASSUME NEW part \in Parts, Unlink(part)
      PROVE  SourcesFit'
  <2>1. /\ UNCHANGED <<rows, torn, used, recorded>> /\ gui.op = "unlink" /\ gui'.op = "unlink"
        /\ gui'.session = gui.session /\ gui'.left = gui.left \ {part}
        /\ files' = [files EXCEPT ![gui.session] = files[gui.session] \ {part}]
    BY <1>3 DEF Unlink
  <2>2. SourcesStay'
    BY <1>0, <2>1 DEF SourcesStay
  <2>3. RemovalIsWhole'
    BY <1>0, <2>1 DEF RemovalIsWhole
  <2>4. RemovalFits'
    BY <1>0, <2>1 DEF RemovalFits
  <2> QED BY <2>2, <2>3, <2>4 DEF SourcesFit
<1>4. CASE UnlinkFails
  <2>1. /\ UNCHANGED <<rows, files, used, recorded>> /\ gui' = Idle
        /\ gui.op = "unlink" /\ torn \subseteq torn'
        /\ files[gui.session] # Parts => gui.session \in torn'
    BY <1>4 DEF UnlinkFails, Torn, Locked
  <2>2. SourcesStay'
    BY <1>0, <2>1 DEF SourcesStay
  <2>3. RemovalIsWhole'
    BY <1>0, <2>1 DEF RemovalIsWhole, RemovalFits
  <2>4. RemovalFits'
    BY <2>1 DEF RemovalFits
  <2> QED BY <2>2, <2>3, <2>4 DEF SourcesFit
<1>5. ASSUME NEW x \in Sessions, StartRemoval(x)
      PROVE  SourcesFit'
  <2>1. /\ UNCHANGED <<rows, files, torn, used, recorded>> /\ gui.op = "idle" /\ x \in rows
        /\ gui'.op = "remove" /\ gui'.session = x
        /\ gui'.left = IF "stream" \in files[x] THEN Parts ELSE {"stream"}
    BY <1>5 DEF StartRemoval, Idle
  <2>2. SourcesStay'
    BY <1>0, <2>1 DEF SourcesStay
  <2>3. RemovalIsWhole'
    BY <1>0, <2>1 DEF RemovalIsWhole, RemovalFits
  <2>4. x \notin torn => files[x] = Parts
    BY <1>0, <2>1 DEF RemovalIsWhole, RemovalFits
  <2>5. RemovalFits'
    BY <2>1, <2>4 DEF RemovalFits, Parts
  <2> QED BY <2>2, <2>3, <2>5 DEF SourcesFit
<1>6. CASE Crash
  <2>1. \A r \in recorded : used'[r] = used[r]
    BY <1>6 DEF Crash, Forgets
  <2>2. /\ UNCHANGED <<rows, files, recorded>> /\ gui' = Idle /\ torn \subseteq torn'
        /\ gui.op = "unlink" /\ files[gui.session] # Parts => gui.session \in torn'
    BY <1>6 DEF Crash, Torn, Locked
  <2>3. SourcesStay'
    BY <1>0, <2>1, <2>2 DEF SourcesStay
  <2>4. RemovalIsWhole'
    BY <1>0, <2>2 DEF RemovalIsWhole, RemovalFits
  <2>5. RemovalFits'
    BY <2>2 DEF RemovalFits
  <2> QED BY <2>3, <2>4, <2>5 DEF SourcesFit
<1> QED BY <1>1, <1>2, <1>3, <1>4, <1>5, <1>6 DEF RemovalStep

LEMMA SourcesFitStep ==
    ASSUME TypeOK, RunsFit, SourcesFit, [Next]_vars
    PROVE  SourcesFit'
<1> USE DEF SourcesFit, SourcesStay, RemovalIsWhole, RemovalFits, sessions, studies, tasks,
            results
<1>1. CASE UNCHANGED vars
  BY <1>1 DEF vars
<1>2. CASE SetStep
  <2>1. /\ UNCHANGED <<rows, files, torn, used, recorded>>
        /\ \/ UNCHANGED gui
           \/ /\ gui.op \in {"idle", "edit"} /\ gui'.op \in {"idle", "edit"}
              /\ gui'.session = NoSession
    <3>1. CASE \E s \in Sets : StartEdit(s)
      <4> PICK s \in Sets : StartEdit(s)
        BY <3>1
      <4> QED BY DEF StartEdit, Idle
    <3>2. CASE \E d \in Definitions : UpdateSet(d) \/ \E s \in Sets : ForkSet(s, d)
      BY <3>2 DEF UpdateSet, ForkSet, Idle
    <3>3. CASE DismissEdit
      BY <3>3 DEF DismissEdit, Idle
    <3>4. CASE \E s \in Sets : \/ OpenWindow(s) \/ CloseWindow(s) \/ DeleteSet(s)
                              \/ \E d \in Definitions : CreateSet(s, d)
      BY <3>4 DEF OpenWindow, CloseWindow, DeleteSet, CreateSet
    <3> QED BY <1>2, <3>1, <3>2, <3>3, <3>4 DEF SetStep
  <2> QED BY <2>1
<1> QED BY <1>1, <1>2, SourcesFitOfRun, SourcesFitOfRemoval DEF Next

-----------------------------------------------------------------------------

(* The sets.                                                                *)
LEMMA DeleteSetFacts ==
    ASSUME TypeOK, NEW s \in Sets, DeleteSet(s)
    PROVE  /\ sets'[s] # "none"
           /\ \A t \in Sets \ {s} : sets'[t] = sets[t] /\ definition'[t] = definition[t]
           /\ RunsOf(s) # {} => sets'[s] = "archived" /\ UNCHANGED definition
<1>1. CASE RunsOf(s) # {}
  <2>1. sets' = [sets EXCEPT ![s] = "archived"] /\ UNCHANGED definition
    BY <1>1 DEF DeleteSet
  <2> QED BY <2>1 DEF TypeOK
<1>2. CASE RunsOf(s) = {}
  <2>1. /\ sets' = [sets EXCEPT ![s] = "deleted"]
        /\ definition' = [definition EXCEPT ![s] = NoDefinition]
    BY <1>2 DEF DeleteSet
  <2> QED BY <1>2, <2>1 DEF TypeOK
<1> QED BY <1>1, <1>2

LEMMA SetsFitStep ==
    ASSUME TypeOK, SetsFit, [Next]_vars
    PROVE  SetsFit'
<1> USE DEF TypeOK, SetsFit, sessions, studies, tasks, results
<1>1. CASE UNCHANGED vars
  BY <1>1 DEF vars
<1>2. ASSUME NEW s \in Sets, OpenWindow(s) \/ CloseWindow(s) \/ StartEdit(s) \/ DeleteSet(s)
      PROVE  SetsFit'
  <2>1. CASE OpenWindow(s)
    BY <2>1 DEF OpenWindow
  <2>2. CASE CloseWindow(s)
    BY ZenonT(40), <2>2 DEF CloseWindow
  <2>3. CASE StartEdit(s)
    <3>1. UNCHANGED <<sets, window, kind, target, pc>> /\ sets[s] = "active" /\ gui'.set = s
      BY <2>3 DEF StartEdit, Idle
    <3> QED BY <3>1
  <2>4. CASE DeleteSet(s)
    <3>1. \A t \in Sets : sets[t] # "none" => sets'[t] # "none"
      BY <2>4, DeleteSetFacts
    <3>2. UNCHANGED <<window, gui, kind, target, pc>>
      BY <2>4 DEF DeleteSet
    <3> QED BY <3>1, <3>2
  <2> QED BY <1>2, <2>1, <2>2, <2>3, <2>4
<1>3. ASSUME NEW d \in Definitions, UpdateSet(d)
      PROVE  SetsFit'
  BY <1>3 DEF UpdateSet, Idle
<1>4. ASSUME NEW d \in Definitions, NEW s \in Sets, CreateSet(s, d) \/ ForkSet(s, d)
      PROVE  SetsFit'
  <2>1. CASE CreateSet(s, d)
    BY <2>1 DEF CreateSet
  <2>2. CASE ForkSet(s, d)
    <3>1. UNCHANGED <<window, kind, target, pc>> /\ gui'.op = "idle"
      BY <2>2 DEF ForkSet, Idle
    <3>2. \A t \in Sets : sets[t] # "none" => sets'[t] # "none"
      BY <2>2 DEF ForkSet
    <3> QED BY <3>1, <3>2
  <2> QED BY <1>4, <2>1, <2>2
<1>5. CASE DismissEdit
  BY <1>5 DEF DismissEdit, Idle
<1>6. CASE RemovalStep \/ UnlinkFails \/ \E x \in Sessions : StartRemoval(x)
  <2>1. UNCHANGED <<sets, window, kind, target, pc>> /\ gui'.op # "edit"
    <3>1. CASE DeleteRow
      BY <3>1 DEF DeleteRow, Idle
    <3>2. CASE CommitRemoval \/ UnlinkFails
      BY <3>2 DEF CommitRemoval, UnlinkFails, Idle
    <3>3. ASSUME NEW part \in Parts, Unlink(part)
          PROVE  UNCHANGED <<sets, window, kind, target, pc>> /\ gui'.op # "edit"
      BY <3>3 DEF Unlink
    <3>4. ASSUME NEW x \in Sessions, StartRemoval(x)
          PROVE  UNCHANGED <<sets, window, kind, target, pc>> /\ gui'.op # "edit"
      BY <3>4 DEF StartRemoval, Idle
    <3> QED BY <1>6, <3>1, <3>2, <3>3, <3>4 DEF RemovalStep
  <2> QED BY <2>1
<1>7. CASE Crash
  BY <1>7 DEF Crash, Idle, Waiting
<1>8. ASSUME NEW r \in Runs, RunStep(r) \/ RunFault(r)
      PROVE  SetsFit'
  <2>1. /\ UNCHANGED <<sets, window, kind, target, gui>>
        /\ \A q \in Runs : pc'[q] = "asked" => pc[q] = "asked"
    BY <1>8 DEF RunStep, RunFault, ReadSet, Validate, Create, Start, StopBeforeStart, Read,
                WriteTemporary, Rename, Record, Return, Finish, CreateFails, StartFails,
                WriteFails, RecordFails, FinishFails, Gives, Moves, Ends
  <2> QED BY <2>1
<1>9. ASSUME NEW r \in Runs, NEW x \in Sessions, AskSession(r, x)
      PROVE  SetsFit'
  BY <1>9 DEF AskSession, Ask
<1>10. ASSUME NEW r \in Runs, NEW s \in Sets, AskView(r, s) \/ AskService(r, s)
       PROVE  SetsFit'
  <2>1. /\ UNCHANGED <<sets, window, gui>> /\ sets[s] # "none"
        /\ target' = [target EXCEPT ![r] = s]
        /\ \E k \in {"view", "service"}, at \in {"defined", "asked"} :
              kind' = [kind EXCEPT ![r] = k] /\ pc' = [pc EXCEPT ![r] = at]
    BY <1>10 DEF AskView, AskService, Ask
  <2> QED BY <2>1
<1>11. ASSUME NEW r \in Runs, Cancel(r)
       PROVE  SetsFit'
  BY <1>11 DEF Cancel
<1> QED
  BY <1>1, <1>2, <1>3, <1>4, <1>5, <1>6, <1>7, <1>8, <1>9, <1>10, <1>11
     DEF Next, SetStep, AskStep

-----------------------------------------------------------------------------

LEMMA IInvInit == Init => IInv
<1> SUFFICES ASSUME Init PROVE IInv
  OBVIOUS
<1>1. TypeOK
  BY RunsAssumption DEF Init, TypeOK, Idle, Parts, Subjects
<1>2. RunsFit
  BY DEF Init, RunsFit, RowFits, SignalFits, ArtifactFits, Early, Working, Unfinished
<1>3. SourcesFit
  BY RunsAssumption DEF Init, SourcesFit, SourcesStay, RemovalIsWhole, RemovalFits, Idle
<1>4. SetsFit
  BY DEF Init, SetsFit, Idle
<1> QED BY <1>1, <1>2, <1>3, <1>4 DEF IInv, SourcesFit

LEMMA IInvStep == IInv /\ [Next]_vars => IInv'
<1> SUFFICES ASSUME IInv, [Next]_vars PROVE IInv'
  OBVIOUS
<1>1. TypeOK /\ RunsFit /\ SourcesFit /\ SetsFit
  BY DEF IInv, SourcesFit
<1>2. TypeOK'
  BY <1>1, TypeStep DEF SourcesFit
<1>3. RunsFit' /\ SourcesFit' /\ SetsFit'
  BY <1>1, RunsFitStep, SourcesFitStep, SetsFitStep
<1> QED BY <1>2, <1>3 DEF IInv, SourcesFit

(* The inductive invariant holds in every reachable state, for every number *)
(* of sessions, sets, runs and failures.                                    *)
THEOREM AnalysesInvariant == Spec => []IInv
BY IInvInit, IInvStep, PTL DEF Spec

(* Whatever fails or dies, a listed artifact has its whole file and a run   *)
(* that is over leaves no file that is not listed (writers.py).             *)
THEOREM ArtifactsKept == Spec => []ArtifactsAreWhole
<1>1. IInv => ArtifactsAreWhole
  BY DEF IInv, RunsFit, ArtifactFits, ArtifactsAreWhole, TypeOK
<1> QED BY <1>1, AnalysesInvariant, PTL

(* No removal takes the sources of a result, however it interleaves with    *)
(* the runs, and none is half done unless a file could not be unlinked      *)
(* (session_management.py).                                                 *)
THEOREM SessionsKept == Spec => []SessionsAreWhole
<1>1. IInv => SessionsAreWhole
  BY DEF IInv, SessionsAreWhole
<1> QED BY <1>1, AnalysesInvariant, PTL

(* What a task has signalled is what the database says, and a completed run *)
(* has its artifact (runner.py).                                            *)
THEOREM OutcomesHold == Spec => []OutcomeIsTrue
<1>1. IInv => OutcomeIsTrue
  BY DEF IInv, RunsFit, SignalFits, OutcomeIsTrue, Unfinished
<1> QED BY <1>1, AnalysesInvariant, PTL

(* No step changes or deletes the set that a run was recorded for           *)
(* (comparison_sets.py).                                                    *)
THEOREM HistoryHolds == Spec => HistoryIsKept
<1> DEFINE Kept(r) == /\ definition'[target[r]] = definition[target[r]]
                      /\ sets'[target[r]] = "deleted" => sets[target[r]] = "deleted"
<1>1. ASSUME IInv, [Next]_vars, NEW r \in Runs, status[r] # "none", kind[r] # "session"
      PROVE  Kept(r)
  <2> USE DEF IInv, TypeOK, SetsFit, sessions, studies
  <2>1. target[r] \in Sets /\ sets[target[r]] # "none" /\ r \in RunsOf(target[r])
    BY <1>1 DEF RunsOf
  <2>2. CASE UNCHANGED <<sets, definition>>
    BY <2>2
  <2>3. ASSUME NEW s \in Sets, DeleteSet(s)
        PROVE  Kept(r)
    <3>1. target[r] = s => RunsOf(s) # {}
      BY <2>1
    <3>2. CASE target[r] = s
      BY <1>1, <2>3, <3>1, <3>2, DeleteSetFacts
    <3>3. CASE target[r] # s
      BY <1>1, <2>1, <2>3, <3>3, DeleteSetFacts
    <3> QED BY <3>2, <3>3
  <2>4. ASSUME NEW d \in Definitions, UpdateSet(d)
        PROVE  Kept(r)
    BY <1>1, <2>1, <2>4 DEF UpdateSet
  <2>5. ASSUME NEW d \in Definitions, NEW s \in Sets, CreateSet(s, d)
        PROVE  Kept(r)
    BY <1>1, <2>1, <2>5 DEF CreateSet
  <2>6. ASSUME NEW d \in Definitions, NEW s \in Sets, ForkSet(s, d)
        PROVE  Kept(r)
    BY <1>1, <2>1, <2>6 DEF ForkSet
  <2>7. CASE SetStep
    BY <2>2, <2>3, <2>4, <2>5, <2>6, <2>7
       DEF SetStep, OpenWindow, CloseWindow, StartEdit, DismissEdit
  <2>8. CASE \E q \in Runs : RunStep(q) \/ RunFault(q) \/ AskStep(q)
    <3>1. UNCHANGED <<sets, definition>>
      BY <2>8 DEF RunStep, RunFault, AskStep, ReadSet, Validate, Create, Start, StopBeforeStart,
                  Read, WriteTemporary, Rename, Record, Return, Finish, CreateFails, StartFails,
                  WriteFails, RecordFails, FinishFails, Gives, Moves, Ends, AskSession, AskView,
                  AskService, Ask, Cancel
    <3> QED BY <2>2, <3>1
  <2>9. CASE RemovalStep \/ UnlinkFails \/ (\E x \in Sessions : StartRemoval(x)) \/ Crash
    BY <2>2, <2>9 DEF RemovalStep, DeleteRow, CommitRemoval, Unlink, UnlinkFails, StartRemoval,
                      Crash
  <2>10. CASE UNCHANGED vars
    BY <2>2, <2>10 DEF vars
  <2> QED BY <1>1, <2>7, <2>8, <2>9, <2>10 DEF Next
<1>2. IInv /\ [Next]_vars =>
          [\A r \in Runs : status[r] # "none" /\ kind[r] # "session" =>
              LET s == target[r]
              IN definition'[s] = definition[s] /\ (sets'[s] = "deleted" => sets[s] = "deleted")]_vars
  BY <1>1
<1> QED BY <1>2, AnalysesInvariant, PTL DEF Spec, HistoryIsKept
=============================================================================
