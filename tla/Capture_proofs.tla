---------------------------- MODULE Capture_proofs ----------------------------
(***************************************************************************)
(* Proofs about CaptureService and CaptureWithKvaser, for every number of  *)
(* frames, markers, captures and faults.                                   *)
(*                                                                         *)
(* The first part is about CaptureService alone: IInv is inductive (one    *)
(* lemma per conjunct, one case per action under it), and every theorem at *)
(* its end follows from IInv.  The second is about the service with the    *)
(* real channel: the channel's own invariant is kept by every step of the  *)
(* owner and of the reader; with what links the worker to the object it    *)
(* makes every step of the whole a step of CaptureService, so that the     *)
(* invariant of the first part carries over.                               *)
(***************************************************************************)
EXTENDS CaptureWithKvaser, SequenceTheorems, TLAPS

-----------------------------------------------------------------------------
(* Facts about sequences of frames and of markers, and about the actions    *)
(* that several parts of the invariant are disturbed by.                    *)

(* Appending keeps the type, and is not empty.                              *)
LEMMA AppendTypes ==
  /\ \A s \in Seq(Nat) : \A n \in Nat : Append(s, n) \in Seq(Nat)
  /\ \A s \in Seq(Marker) : \A m \in Marker :
        Append(s, m) \in Seq(Marker) /\ Append(s, m) # <<>>
  BY AppendProperties, EmptySeq

(* The next frame the channel supplies is one ReadFrame accepts.            *)
LEMMA NextFrameInNat == ASSUME TypeOK PROVE nextFrame \in Nat
  BY DEF TypeOK, TypeOfCounts

(* What one step of a drain may do, whatever place it leads to.             *)
LEMMA DrainEffect ==
  ASSUME TypeOK, NEW next, NEW raise, Drain(next, raise)
  PROVE  /\ markerQueue' \in Seq(Marker) /\ markerRows' \in Seq(Marker)
         /\ drained' \in Nat /\ markerCount' \in Nat /\ faults' \in Nat
         /\ wpc' \in {wpc, next, raise} /\ faults <= faults'
         /\ markerQueue = <<>> => markerQueue' = <<>> /\ wpc' = next
         /\ wpc' = raise /\ raise \notin {wpc, next}
              => persist /\ (markerHandle # "open" \/ faults' > 0)
         /\ UNCHANGED <<shared, lastMarker, gpc, accepted, earlyStop,
                        nextMarker, config, frameCount, session, csv,
                        markerHandle, input, view>>
  <1> USE DEF TypeOK, TypeOfCounts, TypeOfMarkers, TypeOfFiles, Fault
  <1>1. CASE DrainOne
    <2>1. markerQueue' \in Seq(Marker) /\ Head(markerQueue) \in Marker
      BY <1>1, HeadTailProperties DEF DrainOne
    <2>2. markerRows' \in Seq(Marker)
      BY <1>1, <2>1, AppendTypes DEF DrainOne
    <2> QED
      BY <1>1, <2>1, <2>2 DEF DrainOne, counts
  <1>2. CASE DrainRaises(raise)
    <2>1. markerQueue' \in Seq(Marker) /\ Head(markerQueue) \in Marker
      BY <1>2, HeadTailProperties DEF DrainRaises
    <2>2. markerRows' \in Seq(Marker)
      BY <1>2, <2>1, AppendTypes DEF DrainRaises
    <2>3. drained' \in Nat /\ markerCount' \in Nat /\ faults' \in Nat
      BY <1>2 DEF DrainRaises
    <2> QED
      BY <1>2, <2>1, <2>2, <2>3 DEF DrainRaises
  <1>3. CASE DrainEmpty(next)
    BY <1>3 DEF DrainEmpty, gui, files, markers
  <1> QED
    BY <1>1, <1>2, <1>3 DEF Drain

(* start() leaves a value of its type in every variable.                    *)
LEMMA StartTypes ==
  ASSUME NEW onDisk \in BOOLEAN, NEW duration \in BOOLEAN, TypeOK,
         Start(onDisk, duration)
  PROVE  TypeOK'
  <1>1. TypeOfControl'
    BY DEF Start, ResetMarkers, TypeOK, TypeOfControl, CaptureState, WorkerPc
  <1>2. TypeOfCounts'
    BY DEF Start, ResetMarkers, TypeOK, TypeOfCounts
  <1>3. TypeOfFrames'
    BY DEF Start, ResetMarkers, TypeOfFrames
  <1>4. TypeOfMarkers'
    <2>1. NoMarker \in Marker
      BY DEF NoMarker, Marker
    <2> QED
      BY <2>1 DEF Start, ResetMarkers, TypeOfMarkers
  <1>5. TypeOfFiles'
    BY DEF Start, ResetMarkers, TypeOfFiles, Handle, FooterType
  <1> QED
    BY <1>1, <1>2, <1>3, <1>4, <1>5 DEF TypeOK


-----------------------------------------------------------------------------
(* TypeOK, part by part: control.                                           *)
LEMMA ControlStep ==
  ASSUME TypeOK, [Next]_vars
  PROVE  TypeOfControl'
  <1> USE DEF TypeOK, TypeOfControl, CaptureState, WorkerPc, shared, gui,
              config, counts, session, csv, markers, files, input, view
  <1>1. CASE UNCHANGED vars
    BY <1>1 DEF vars
  <1>2. CASE GuiStep
    BY ZenonT(40), <1>2
       DEF GuiStep, Start, ResetMarkers, Stop, AddMarkerAccept, AddMarkerPut,
           AddMarkerReturn
  <1>3. CASE OpeningStep
    <2>1. CASE Lookup
      BY <2>1 DEF Lookup
    <2>2. CASE OpenSession
      BY <2>2 DEF OpenSession
    <2>3. CASE OpenCsv
      BY <2>3 DEF OpenCsv
    <2>4. CASE OpenMarkers
      BY <2>4 DEF OpenMarkers
    <2>5. CASE SetRunning
      BY <2>5 DEF SetRunning
    <2> QED
      BY <1>3, <2>1, <2>2, <2>3, <2>4, <2>5 DEF OpeningStep
  <1>4. CASE LoopStep
    BY <1>4
       DEF LoopStep, TestStop, AppendSession, AppendCsv, DrainInLoop, Drain,
           DrainOne, DrainRaises, DrainEmpty, SkipPublish, PublishLive,
           PublishProgress
  <1>5. CASE ClosingStep
    <2>1. CASE LastDrain
      BY <2>1 DEF LastDrain, Drain, DrainOne, DrainRaises, DrainEmpty
    <2>2. CASE ShowRest
      BY <2>2 DEF ShowRest
    <2>3. CASE CloseSession
      BY <2>3 DEF CloseSession, CloseSessionWith, Footer
    <2>4. CASE CloseCsv
      BY <2>4 DEF CloseCsv, CloseCsvWith, Closed
    <2>5. CASE CloseMarkers
      BY <2>5 DEF CloseMarkers, CloseMarkersWith, Closed
    <2>6. CASE SetStopped
      BY <2>6 DEF SetStopped
    <2> QED
      BY <1>5, <2>1, <2>2, <2>3, <2>4, <2>5, <2>6 DEF ClosingStep
  <1>6. CASE HandlerStep
    <2>1. CASE ErrShow
      BY <2>1 DEF ErrShow
    <2>2. CASE ErrDrain
      BY <2>2 DEF ErrDrain, Drain, DrainOne, DrainRaises, DrainEmpty
    <2>3. CASE ErrEscape
      BY <2>3 DEF ErrEscape, CloseMarkersWith, Closed
    <2>4. CASE ErrMarkers
      BY <2>4 DEF ErrMarkers, CloseMarkersWith, Closed
    <2>5. CASE ErrSession
      BY <2>5 DEF ErrSession, CloseSessionWith, Footer
    <2>6. CASE ErrCsv
      BY <2>6 DEF ErrCsv, CloseCsvWith, Closed
    <2>7. CASE SetError
      BY <2>7 DEF SetError
    <2>8. CASE ThreadEnds
      BY <2>8 DEF ThreadEnds
    <2> QED
      BY <1>6, <2>1, <2>2, <2>3, <2>4, <2>5, <2>6, <2>7, <2>8 DEF HandlerStep
  <1>7. CASE ChannelStep
    BY <1>7
       DEF ChannelStep, EnterChannel, EnterRaises, ReadFrame, ReadNone,
           ReadRaises, LeaveChannel, LeaveRaises, LeaveAfterError
  <1> QED
    BY <1>1, <1>2, <1>3, <1>4, <1>5, <1>6, <1>7 DEF Next, WorkerStep

(* TypeOK, part by part: counts.                                            *)
LEMMA CountsStep ==
  ASSUME TypeOK, [Next]_vars
  PROVE  TypeOfCounts'
  <1> USE DEF TypeOK, TypeOfCounts, Fault, shared, gui, config, counts,
              session, csv, markers, files, input, view
  <1>1. CASE UNCHANGED vars
    BY <1>1 DEF vars
  <1>2. CASE GuiStep
    <2>1. CASE \E onDisk, duration \in BOOLEAN : Start(onDisk, duration)
      BY <2>1 DEF Start, ResetMarkers
    <2>2. CASE Stop
      BY <2>2 DEF Stop
    <2>3. CASE AddMarkerAccept
      BY <2>3 DEF AddMarkerAccept
    <2>4. CASE AddMarkerPut
      BY <2>4 DEF AddMarkerPut
    <2>5. CASE AddMarkerReturn
      BY <2>5 DEF AddMarkerReturn
    <2> QED
      BY <1>2, <2>1, <2>2, <2>3, <2>4, <2>5 DEF GuiStep
  <1>3. CASE OpeningStep
    BY <1>3
       DEF OpeningStep, Lookup, OpenSession, OpenCsv, OpenMarkers, SetRunning
  <1>4. CASE LoopStep
    <2>1. CASE TestStop
      BY <2>1 DEF TestStop
    <2>2. CASE AppendSession
      BY <2>2 DEF AppendSession
    <2>3. CASE AppendCsv
      BY <2>3 DEF AppendCsv
    <2>4. CASE DrainInLoop
      BY <2>4, DrainEffect DEF DrainInLoop
    <2>5. CASE SkipPublish
      BY <2>5 DEF SkipPublish
    <2>6. CASE PublishLive
      BY <2>6 DEF PublishLive
    <2>7. CASE PublishProgress
      BY <2>7 DEF PublishProgress
    <2> QED
      BY <1>4, <2>1, <2>2, <2>3, <2>4, <2>5, <2>6, <2>7 DEF LoopStep
  <1>5. CASE ClosingStep
    <2>1. CASE LastDrain
      BY <2>1, DrainEffect DEF LastDrain
    <2>2. CASE ShowRest
      BY <2>2 DEF ShowRest
    <2>3. CASE CloseSession
      BY <2>3 DEF CloseSession, CloseSessionWith, Footer
    <2>4. CASE CloseCsv
      BY <2>4 DEF CloseCsv, CloseCsvWith, Closed
    <2>5. CASE CloseMarkers
      BY <2>5 DEF CloseMarkers, CloseMarkersWith, Closed
    <2>6. CASE SetStopped
      BY <2>6 DEF SetStopped
    <2> QED
      BY <1>5, <2>1, <2>2, <2>3, <2>4, <2>5, <2>6 DEF ClosingStep
  <1>6. CASE HandlerStep
    <2>1. CASE ErrShow
      BY <2>1 DEF ErrShow
    <2>2. CASE ErrDrain
      BY <2>2, DrainEffect DEF ErrDrain
    <2>3. CASE ErrEscape
      BY <2>3 DEF ErrEscape, CloseMarkersWith, Closed
    <2>4. CASE ErrMarkers
      BY <2>4 DEF ErrMarkers, CloseMarkersWith, Closed
    <2>5. CASE ErrSession
      BY <2>5 DEF ErrSession, CloseSessionWith, Footer
    <2>6. CASE ErrCsv
      BY <2>6 DEF ErrCsv, CloseCsvWith, Closed
    <2>7. CASE SetError
      BY <2>7 DEF SetError
    <2>8. CASE ThreadEnds
      BY <2>8 DEF ThreadEnds
    <2> QED
      BY <1>6, <2>1, <2>2, <2>3, <2>4, <2>5, <2>6, <2>7, <2>8 DEF HandlerStep
  <1>7. CASE ChannelStep
    <2>1. CASE \E f \in Nat : ReadFrame(f)
      BY <2>1 DEF ReadFrame
    <2> QED
      BY <1>7, <2>1, NextFrameInNat
         DEF ChannelStep, EnterChannel, EnterRaises, ReadNone, ReadRaises,
             LeaveChannel, LeaveRaises, LeaveAfterError
  <1> QED
    BY <1>1, <1>2, <1>3, <1>4, <1>5, <1>6, <1>7 DEF Next, WorkerStep

(* TypeOK, part by part: the live buffer and what waits for it.             *)
LEMMA FramesStep ==
  ASSUME TypeOK, [Next]_vars
  PROVE  TypeOfFrames'
  <1> USE DEF TypeOK, TypeOfCounts, TypeOfFrames, shared, gui, config, counts,
              session, csv, markers, files, input, view
  <1>1. CASE UNCHANGED vars
    BY <1>1 DEF vars
  <1>2. CASE GuiStep
    <2>1. CASE \E onDisk, duration \in BOOLEAN : Start(onDisk, duration)
      BY <2>1, StartTypes
    <2> QED
      BY <1>2, <2>1
         DEF GuiStep, Stop, AddMarkerAccept, AddMarkerPut, AddMarkerReturn
  <1>3. CASE OpeningStep
    BY <1>3
       DEF OpeningStep, Lookup, OpenSession, OpenCsv, OpenMarkers, SetRunning
  <1>4. CASE LoopStep
    <2>1. CASE AppendCsv
      BY <2>1, AppendTypes DEF AppendCsv
    <2>2. CASE PublishLive
      BY <2>2, ConcatProperties, EmptySeq DEF PublishLive
    <2> QED
      BY <1>4, <2>1, <2>2
         DEF LoopStep, TestStop, AppendSession, DrainInLoop, SkipPublish,
             PublishProgress, Drain, DrainEmpty, DrainOne, DrainRaises
  <1>5. CASE ClosingStep
    <2>1. CASE ShowRest
      BY <2>1, ConcatProperties, EmptySeq DEF ShowRest
    <2> QED
      BY <1>5, <2>1
         DEF ClosingStep, LastDrain, CloseSession, CloseCsv, CloseMarkers,
             SetStopped, CloseCsvWith, CloseMarkersWith, CloseSessionWith,
             Closed, Drain, DrainEmpty, DrainOne, DrainRaises, Footer
  <1>6. CASE HandlerStep
    <2>1. CASE ErrShow
      BY <2>1, ConcatProperties, EmptySeq DEF ErrShow
    <2> QED
      BY <1>6, <2>1
         DEF HandlerStep, ErrDrain, ErrEscape, ErrMarkers, ErrSession, ErrCsv,
             SetError, ThreadEnds, CloseCsvWith, CloseMarkersWith,
             CloseSessionWith, Closed, Drain, DrainEmpty, DrainOne,
             DrainRaises, Footer
  <1>7. CASE ChannelStep
    <2>1. CASE \E f \in Nat : ReadFrame(f)
      BY <2>1, AppendTypes DEF ReadFrame
    <2> QED
      BY <1>7, <2>1, NextFrameInNat
         DEF ChannelStep, EnterChannel, EnterRaises, ReadNone, ReadRaises,
             LeaveChannel, LeaveRaises, LeaveAfterError
  <1> QED
    BY <1>1, <1>2, <1>3, <1>4, <1>5, <1>6, <1>7 DEF Next, WorkerStep

(* TypeOK, part by part: the marker queue.                                  *)
LEMMA MarkersStep ==
  ASSUME TypeOK, [Next]_vars
  PROVE  TypeOfMarkers'
  <1> USE DEF TypeOK, TypeOfMarkers, shared, gui, config, counts, session,
              csv, markers, files, input, view
  <1>1. CASE UNCHANGED vars
    BY <1>1 DEF vars
  <1>2. CASE GuiStep
    <2>1. CASE \E onDisk, duration \in BOOLEAN : Start(onDisk, duration)
      BY <2>1, StartTypes
    <2>2. CASE Stop
      BY <2>2 DEF Stop
    <2>3. CASE AddMarkerAccept
      <3>1. [capture |-> captures, number |-> nextMarker] \in Marker
        BY DEF TypeOfCounts, Marker
      <3>2. accepted' \in Seq(Marker) /\ accepted' # <<>>
        BY <2>3, <3>1, AppendTypes DEF AddMarkerAccept
      <3> QED
        BY <2>3, <3>2 DEF AddMarkerAccept
    <2>4. CASE AddMarkerPut
      BY <2>4 DEF AddMarkerPut
    <2>5. CASE AddMarkerReturn
      BY <2>5 DEF AddMarkerReturn
    <2> QED
      BY <1>2, <2>1, <2>2, <2>3, <2>4, <2>5 DEF GuiStep
  <1>3. CASE OpeningStep
    BY <1>3
       DEF OpeningStep, Lookup, OpenSession, OpenCsv, OpenMarkers, SetRunning
  <1>4. CASE LoopStep
    <2>1. CASE DrainInLoop
      BY <2>1, DrainEffect DEF DrainInLoop
    <2> QED
      BY <1>4, <2>1
         DEF LoopStep, TestStop, AppendSession, AppendCsv, SkipPublish,
             PublishLive, PublishProgress
  <1>5. CASE ClosingStep
    <2>1. CASE LastDrain
      BY <2>1, DrainEffect DEF LastDrain
    <2> QED
      BY <1>5, <2>1
         DEF ClosingStep, ShowRest, CloseSession, CloseCsv, CloseMarkers,
             SetStopped, CloseCsvWith, CloseMarkersWith, CloseSessionWith,
             Closed, Footer
  <1>6. CASE HandlerStep
    <2>1. CASE ErrDrain
      BY <2>1, DrainEffect DEF ErrDrain
    <2> QED
      BY <1>6, <2>1
         DEF HandlerStep, ErrShow, ErrEscape, ErrMarkers, ErrSession, ErrCsv,
             SetError, ThreadEnds, CloseCsvWith, CloseMarkersWith,
             CloseSessionWith, Closed, Footer
  <1>7. CASE ChannelStep
    BY <1>7
       DEF ChannelStep, EnterChannel, EnterRaises, ReadFrame, ReadNone,
           ReadRaises, LeaveChannel, LeaveRaises, LeaveAfterError
  <1> QED
    BY <1>1, <1>2, <1>3, <1>4, <1>5, <1>6, <1>7 DEF Next, WorkerStep

(* TypeOK, part by part: the files.                                         *)
LEMMA FilesStep ==
  ASSUME TypeOK, [Next]_vars
  PROVE  TypeOfFiles'
  <1> USE DEF TypeOK, TypeOfFiles, Handle, shared, gui, config, counts,
              session, csv, markers, files, input, view
  <1>1. CASE UNCHANGED vars
    BY <1>1 DEF vars
  <1>2. CASE GuiStep
    <2>1. CASE \E onDisk, duration \in BOOLEAN : Start(onDisk, duration)
      BY <2>1, StartTypes
    <2> QED
      BY <1>2, <2>1
         DEF GuiStep, Stop, AddMarkerAccept, AddMarkerPut, AddMarkerReturn
  <1>3. CASE OpeningStep
    BY <1>3
       DEF OpeningStep, Lookup, OpenSession, OpenCsv, OpenMarkers, SetRunning
  <1>4. CASE LoopStep
    <2>1. CASE AppendSession
      BY <2>1, AppendTypes DEF AppendSession, TypeOfCounts
    <2>2. CASE AppendCsv
      BY <2>2, AppendTypes DEF AppendCsv, TypeOfCounts
    <2>3. CASE DrainInLoop
      BY <2>3, DrainEffect DEF DrainInLoop
    <2> QED
      BY <1>4, <2>1, <2>2, <2>3
         DEF LoopStep, TestStop, SkipPublish, PublishLive, PublishProgress
  <1>5. CASE ClosingStep
    <2>1. CASE LastDrain
      BY <2>1, DrainEffect DEF LastDrain
    <2>2. CASE CloseSession
      <3>1. \A b \in BOOLEAN :
               Footer(Len(sessionRows), frameCount, markerCount, b)
                  \in FooterType
        BY LenProperties DEF Footer, FooterType, TypeOfCounts
      <3> QED
        BY <2>2, <3>1 DEF CloseSession, CloseSessionWith
    <2>3. CASE CloseCsv
      BY <2>3 DEF CloseCsv, CloseCsvWith, Closed
    <2>4. CASE CloseMarkers
      BY <2>4 DEF CloseMarkers, CloseMarkersWith, Closed
    <2> QED
      BY <1>5, <2>1, <2>2, <2>3, <2>4 DEF ClosingStep, ShowRest, SetStopped
  <1>6. CASE HandlerStep
    <2>1. CASE ErrDrain
      BY <2>1, DrainEffect DEF ErrDrain
    <2>2. CASE ErrEscape
      BY <2>2 DEF ErrEscape, CloseMarkersWith, Closed
    <2>3. CASE ErrMarkers
      BY <2>3 DEF ErrMarkers, CloseMarkersWith, Closed
    <2>4. CASE ErrSession
      <3>1. \A b \in BOOLEAN :
               Footer(Len(sessionRows), frameCount, markerCount, b)
                  \in FooterType
        BY LenProperties DEF Footer, FooterType, TypeOfCounts
      <3> QED
        BY <2>4, <3>1 DEF ErrSession, CloseSessionWith
    <2>5. CASE ErrCsv
      BY <2>5 DEF ErrCsv, CloseCsvWith, Closed
    <2> QED
      BY <1>6, <2>1, <2>2, <2>3, <2>4, <2>5
         DEF HandlerStep, ErrShow, SetError, ThreadEnds
  <1>7. CASE ChannelStep
    BY <1>7
       DEF ChannelStep, EnterChannel, EnterRaises, ReadFrame, ReadNone,
           ReadRaises, LeaveChannel, LeaveRaises, LeaveAfterError
  <1> QED
    BY <1>1, <1>2, <1>3, <1>4, <1>5, <1>6, <1>7 DEF Next, WorkerStep


-----------------------------------------------------------------------------
(* A terminal state is set in the last step of the worker only.             *)
LEMMA StateStep ==
  ASSUME TypeOK, StateInv, HandleInv, [Next]_vars
  PROVE  StateInv'
  <1> USE DEF TypeOK, TypeOfControl, TypeOfCounts, StateInv, HandleInv,
              Terminal, OnDiskOnly, Fault, shared, gui, config, counts,
              session, csv, markers, files, input, view
  <1>1. CASE UNCHANGED vars
    BY <1>1 DEF vars
  <1>2. CASE GuiStep
    BY <1>2
       DEF GuiStep, Start, ResetMarkers, Stop, AddMarkerAccept, AddMarkerPut,
           AddMarkerReturn
  <1>3. CASE OpeningStep
    BY <1>3
       DEF OpeningStep, Lookup, OpenSession, OpenCsv, OpenMarkers, SetRunning
  <1>4. CASE LoopStep
    BY <1>4
       DEF LoopStep, TestStop, AppendSession, AppendCsv, DrainInLoop, Drain,
           DrainOne, DrainRaises, DrainEmpty, SkipPublish, PublishLive,
           PublishProgress
  <1>5. CASE ClosingStep
    BY <1>5
       DEF ClosingStep, LastDrain, Drain, DrainOne, DrainRaises, DrainEmpty,
           ShowRest, CloseSession, CloseSessionWith, CloseCsv, CloseCsvWith,
           CloseMarkers, CloseMarkersWith, Closed, SetStopped
  <1>6. CASE HandlerStep
    <2>1. CASE ErrShow
      BY <2>1 DEF ErrShow
    <2>2. CASE ErrDrain
      <3>1. /\ wpc' \in {"errDrain", "errMarkers", "errEscape"}
            /\ faults \in Nat /\ faults' \in Nat /\ faults <= faults'
            /\ markerQueue = <<>> => markerQueue' = <<>> /\ wpc' = "errMarkers"
            /\ UNCHANGED <<state, originSet, accepted, persist, captures,
                           sessionHandle, sessionFooter, csvHandle,
                           markerHandle>>
        BY <2>2, DrainEffect DEF ErrDrain
      <3>2. wpc' = "errEscape" =>
               persist /\ (markerHandle # "open" \/ faults' > 0)
        BY <2>2, DrainEffect DEF ErrDrain
      <3>3. markerHandle \in {"unopened", "open", "closed"}
        BY DEF TypeOfFiles, Handle
      <3>4. wpc = "errDrain"
        BY <2>2 DEF ErrDrain
      <3>5. wpc' = "errEscape" => faults' > 0
        BY <3>1, <3>2, <3>3, <3>4
      <3> QED
        BY <3>1, <3>4, <3>5
    <2>3. CASE ErrEscape
      BY <2>3 DEF ErrEscape, CloseMarkersWith, Closed
    <2>4. CASE ErrMarkers
      BY <2>4 DEF ErrMarkers, CloseMarkersWith, Closed
    <2>5. CASE ErrSession
      BY <2>5 DEF ErrSession, CloseSessionWith, Footer
    <2>6. CASE ErrCsv
      BY <2>6 DEF ErrCsv, CloseCsvWith, Closed
    <2>7. CASE SetError
      BY <2>7 DEF SetError
    <2>8. CASE ThreadEnds
      BY <2>8 DEF ThreadEnds
    <2> QED
      BY <1>6, <2>1, <2>2, <2>3, <2>4, <2>5, <2>6, <2>7, <2>8 DEF HandlerStep
  <1>7. CASE ChannelStep
    BY <1>7
       DEF ChannelStep, EnterChannel, EnterRaises, ReadFrame, ReadNone,
           ReadRaises, LeaveChannel, LeaveRaises, LeaveAfterError
  <1> QED
    BY <1>1, <1>2, <1>3, <1>4, <1>5, <1>6, <1>7 DEF Next, WorkerStep

(* After the stop event at most one read is taken.                          *)
LEMMA StopStep ==
  ASSUME TypeOK, StateInv, StopInv, [Next]_vars
  PROVE  StopInv'
  <1> USE DEF TypeOK, TypeOfControl, StateInv, StopInv, Opening, shared, gui,
              config, counts, session, csv, markers, files, input, view
  <1>1. CASE UNCHANGED vars
    BY <1>1 DEF vars
  <1>2. CASE GuiStep
    BY <1>2
       DEF GuiStep, Start, ResetMarkers, Stop, AddMarkerAccept, AddMarkerPut,
           AddMarkerReturn
  <1>3. CASE OpeningStep
    BY <1>3
       DEF OpeningStep, Lookup, OpenSession, OpenCsv, OpenMarkers, SetRunning
  <1>4. CASE LoopStep
    BY <1>4
       DEF LoopStep, TestStop, AppendSession, AppendCsv, DrainInLoop, Drain,
           DrainOne, DrainRaises, DrainEmpty, SkipPublish, PublishLive,
           PublishProgress
  <1>5. CASE ClosingStep
    BY <1>5
       DEF ClosingStep, LastDrain, Drain, DrainOne, DrainRaises, DrainEmpty,
           ShowRest, CloseSession, CloseSessionWith, CloseCsv, CloseCsvWith,
           CloseMarkers, CloseMarkersWith, Closed, SetStopped
  <1>6. CASE HandlerStep
    BY <1>6
       DEF HandlerStep, ErrShow, ErrDrain, Drain, DrainOne, DrainRaises,
           DrainEmpty, ErrEscape, ErrMarkers, ErrSession, ErrCsv,
           CloseMarkersWith, CloseSessionWith, CloseCsvWith, Closed, SetError,
           ThreadEnds
  <1>7. CASE ChannelStep
    BY <1>7
       DEF ChannelStep, EnterChannel, EnterRaises, ReadFrame, ReadNone,
           ReadRaises, LeaveChannel, LeaveRaises, LeaveAfterError
  <1> QED
    BY <1>1, <1>2, <1>3, <1>4, <1>5, <1>6, <1>7 DEF Next, WorkerStep

(* Handles are open exactly from the opening to the closing.                *)
LEMMA HandleStep ==
  ASSUME TypeOK, StateInv, HandleInv, [Next]_vars
  PROVE  HandleInv'
  <1> USE DEF TypeOK, TypeOfControl, TypeOfMarkers, TypeOfCounts, StateInv,
              HandleInv, Opening, Closing, Looping, Handling, OnDiskOnly,
              Fault, shared, gui, config, counts, session, csv, markers,
              files, input, view
  <1>1. CASE UNCHANGED vars
    BY <1>1 DEF vars
  <1>2. CASE GuiStep
    BY SMTT(30), <1>2
       DEF GuiStep, Start, ResetMarkers, Stop, AddMarkerAccept, AddMarkerPut,
           AddMarkerReturn
  <1>3. CASE OpeningStep
    <2>1. CASE Lookup
      BY <2>1 DEF Lookup
    <2>2. CASE OpenSession
      BY <2>2 DEF OpenSession
    <2>3. CASE OpenCsv
      BY <2>3 DEF OpenCsv
    <2>4. CASE OpenMarkers
      BY <2>4 DEF OpenMarkers
    <2>5. CASE SetRunning
      BY <2>5 DEF SetRunning
    <2> QED
      BY <1>3, <2>1, <2>2, <2>3, <2>4, <2>5 DEF OpeningStep
  <1>4. CASE LoopStep
    <2>1. CASE TestStop
      BY <2>1 DEF TestStop
    <2>2. CASE AppendSession
      BY <2>2 DEF AppendSession
    <2>3. CASE AppendCsv
      BY <2>3 DEF AppendCsv
    <2>4. CASE DrainInLoop
      <3>1. /\ wpc = "drain" /\ wpc' \in {"drain", "publish", "leaveErr"}
            /\ faults \in Nat /\ faults' \in Nat /\ faults <= faults'
            /\ markerQueue = <<>> => markerQueue' = <<>>
            /\ UNCHANGED <<state, originSet, accepted, persist, captures,
                           sessionHandle, sessionFooter, csvHandle,
                           markerHandle>>
        BY <2>4, DrainEffect DEF DrainInLoop
      <3> QED
        BY <3>1
    <2>5. CASE SkipPublish
      BY <2>5 DEF SkipPublish
    <2>6. CASE PublishLive
      BY <2>6 DEF PublishLive
    <2>7. CASE PublishProgress
      BY <2>7 DEF PublishProgress
    <2> QED
      BY <1>4, <2>1, <2>2, <2>3, <2>4, <2>5, <2>6, <2>7 DEF LoopStep
  <1>5. CASE ClosingStep
    <2>1. CASE LastDrain
      <3>1. /\ wpc = "lastDrain" /\ wpc' \in {"lastDrain", "showRest", "errShow"}
            /\ faults \in Nat /\ faults' \in Nat /\ faults <= faults'
            /\ markerQueue = <<>> => markerQueue' = <<>>
            /\ UNCHANGED <<state, originSet, accepted, persist, captures,
                           sessionHandle, sessionFooter, csvHandle,
                           markerHandle>>
        BY <2>1, DrainEffect DEF LastDrain
      <3> QED
        BY <3>1
    <2>2. CASE ShowRest
      BY <2>2 DEF ShowRest
    <2>3. CASE CloseSession
      BY <2>3 DEF CloseSession, CloseSessionWith, Footer
    <2>4. CASE CloseCsv
      BY <2>4 DEF CloseCsv, CloseCsvWith, Closed
    <2>5. CASE CloseMarkers
      BY <2>5 DEF CloseMarkers, CloseMarkersWith, Closed
    <2>6. CASE SetStopped
      BY <2>6 DEF SetStopped
    <2> QED
      BY <1>5, <2>1, <2>2, <2>3, <2>4, <2>5, <2>6 DEF ClosingStep
  <1>6. CASE HandlerStep
    <2>1. CASE ErrShow
      BY <2>1 DEF ErrShow
    <2>2. CASE ErrDrain
      <3>1. /\ wpc' \in {"errDrain", "errMarkers", "errEscape"}
            /\ faults \in Nat /\ faults' \in Nat /\ faults <= faults'
            /\ markerQueue = <<>> => markerQueue' = <<>> /\ wpc' = "errMarkers"
            /\ UNCHANGED <<state, originSet, accepted, persist, captures,
                           sessionHandle, sessionFooter, csvHandle,
                           markerHandle>>
        BY <2>2, DrainEffect DEF ErrDrain
      <3>2. wpc' = "errEscape" =>
               persist /\ (markerHandle # "open" \/ faults' > 0)
        BY SMTT(30), <2>2, DrainEffect DEF ErrDrain
      <3>3. markerHandle \in {"unopened", "open", "closed"}
        BY DEF TypeOfFiles, Handle
      <3>4. wpc = "errDrain"
        BY <2>2 DEF ErrDrain
      <3>5. wpc' = "errEscape" => faults' > 0
        BY <3>1, <3>2, <3>3, <3>4
      <3> QED
        BY <3>1, <3>4, <3>5
    <2>3. CASE ErrEscape
      BY <2>3 DEF ErrEscape, CloseMarkersWith, Closed
    <2>4. CASE ErrMarkers
      BY <2>4 DEF ErrMarkers, CloseMarkersWith, Closed
    <2>5. CASE ErrSession
      BY <2>5 DEF ErrSession, CloseSessionWith, Footer
    <2>6. CASE ErrCsv
      BY <2>6 DEF ErrCsv, CloseCsvWith, Closed
    <2>7. CASE SetError
      BY <2>7 DEF SetError
    <2>8. CASE ThreadEnds
      BY <2>8 DEF ThreadEnds
    <2> QED
      BY <1>6, <2>1, <2>2, <2>3, <2>4, <2>5, <2>6, <2>7, <2>8 DEF HandlerStep
  <1>7. CASE ChannelStep
    BY SMTT(30), <1>7
       DEF ChannelStep, EnterChannel, EnterRaises, ReadFrame, ReadNone,
           ReadRaises, LeaveChannel, LeaveRaises, LeaveAfterError
  <1> QED
    BY <1>1, <1>2, <1>3, <1>4, <1>5, <1>6, <1>7 DEF Next, WorkerStep

(* Concatenation of frame sequences.                                        *)
LEMMA ConcatTypes ==
  \A s, t \in Seq(Nat) : s \o t \in Seq(Nat) /\ Len(s \o t) = Len(s) + Len(t)
  BY ConcatProperties

(* Nothing waits: what is counted is what is shown.                         *)
LEMMA EmptyConcat == <<>> \in Seq(Nat) /\ \A s \in Seq(Nat) : s \o <<>> = s
  BY ConcatEmptySeq, EmptySeq

(* A frame put after the waiting ones is put after all that is counted.     *)
LEMMA ConcatAppend ==
  \A s, t \in Seq(Nat) : \A n \in Nat :
      s \o Append(t, n) = Append(s \o t, n)
  <1> SUFFICES ASSUME NEW s \in Seq(Nat), NEW t \in Seq(Nat), NEW n \in Nat
               PROVE  s \o Append(t, n) = Append(s \o t, n)
    OBVIOUS
  <1>1. <<n>> \in Seq(Nat)
    OBVIOUS
  <1>2. Append(t, n) = t \o <<n>> /\ Append(s \o t, n) = (s \o t) \o <<n>>
    BY AppendIsConcat, ConcatProperties
  <1> QED
    BY <1>1, <1>2, ConcatAssociative

(* The frames counted, in the files and in the view agree.                  *)
LEMMA FrameStep ==
  ASSUME TypeOK, StateInv, HandleInv, FrameInv, [Next]_vars
  PROVE  FrameInv'
  <1> USE DEF TypeOK, TypeOfControl, TypeOfFrames, TypeOfFiles, StateInv,
              HandleInv, FrameInv, Opening, Looping, Closing, Handling, Ended,
              OnDiskOnly, shared, gui, config, counts, session, csv, markers,
              files, input, view
  <1>1. CASE UNCHANGED vars
    BY <1>1 DEF vars, Counted
  <1>2. CASE GuiStep
    <2>1. CASE \E onDisk, duration \in BOOLEAN : Start(onDisk, duration)
      <3>1. Counted' = <<>>
        BY <2>1, EmptyConcat DEF Start, ResetMarkers, Counted
      <3> QED
        BY <2>1, <3>1 DEF Start, ResetMarkers
    <2>2. CASE Stop
      <3>1. Counted' = Counted
        BY <2>2 DEF Stop, Counted
      <3> QED
        BY <2>2, <3>1 DEF Stop
    <2>3. CASE AddMarkerAccept
      <3>1. Counted' = Counted
        BY <2>3 DEF AddMarkerAccept, Counted
      <3> QED
        BY <2>3, <3>1 DEF AddMarkerAccept
    <2>4. CASE AddMarkerPut
      <3>1. Counted' = Counted
        BY <2>4 DEF AddMarkerPut, Counted
      <3> QED
        BY <2>4, <3>1 DEF AddMarkerPut
    <2>5. CASE AddMarkerReturn
      <3>1. Counted' = Counted
        BY <2>5 DEF AddMarkerReturn, Counted
      <3> QED
        BY <2>5, <3>1 DEF AddMarkerReturn
    <2> QED
      BY <1>2, <2>1, <2>2, <2>3, <2>4, <2>5 DEF GuiStep
  <1>3. CASE OpeningStep
    <2>1. CASE Lookup
      <3>1. Counted' = Counted
        BY <2>1 DEF Lookup, Counted
      <3> QED
        BY <2>1, <3>1 DEF Lookup
    <2>2. CASE OpenSession
      <3>1. Counted' = Counted
        BY <2>2 DEF OpenSession, Counted
      <3> QED
        BY <2>2, <3>1 DEF OpenSession
    <2>3. CASE OpenCsv
      <3>1. Counted' = Counted
        BY <2>3 DEF OpenCsv, Counted
      <3> QED
        BY <2>3, <3>1 DEF OpenCsv
    <2>4. CASE OpenMarkers
      <3>1. Counted' = Counted
        BY <2>4 DEF OpenMarkers, Counted
      <3> QED
        BY <2>4, <3>1 DEF OpenMarkers
    <2>5. CASE SetRunning
      <3>1. Counted' = Counted
        BY <2>5 DEF SetRunning, Counted
      <3> QED
        BY <2>5, <3>1 DEF SetRunning
    <2> QED
      BY <1>3, <2>1, <2>2, <2>3, <2>4, <2>5 DEF OpeningStep
  <1>4. CASE LoopStep
    <2>1. CASE TestStop
      <3>1. Counted' = Counted
        BY <2>1 DEF TestStop, Counted
      <3> QED
        BY <2>1, <3>1 DEF TestStop
    <2>2. CASE AppendSession
      <3>1. Counted' = Counted
        BY <2>2 DEF AppendSession, Counted
      <3> QED
        BY <2>2, <3>1 DEF AppendSession
    <2>3. CASE AppendCsv
      <3>1. wpc = "csv" /\ frame \in Nat
        BY <2>3 DEF AppendCsv, TypeOfCounts
      <3>2. /\ Counted \in Seq(Nat)
            /\ Len(Append(Counted, frame)) = Len(Counted) + 1
        BY <3>1, ConcatTypes, AppendProperties DEF Counted
      <3>3. CASE pendingLive' = Append(pendingLive, frame) /\ wpc' = "drain"
        <4>1. Counted' = Append(Counted, frame)
          BY <2>3, <3>1, <3>3, ConcatAppend DEF AppendCsv, Counted
        <4> QED
          BY <2>3, <3>1, <3>2, <3>3, <4>1 DEF AppendCsv
      <3>4. CASE pendingLive' = pendingLive /\ wpc' = "leaveErr"
        <4>1. Counted' = Counted
          BY <2>3, <3>1, <3>4 DEF AppendCsv, Counted
        <4> QED
          BY <2>3, <3>1, <3>4, <4>1 DEF AppendCsv
      <3> QED
        BY <2>3, <3>3, <3>4 DEF AppendCsv
    <2>4. CASE DrainInLoop
      <3>1. /\ wpc \in {"drain"}
            /\ wpc' \in {"drain", "publish", "leaveErr"}
            /\ UNCHANGED <<live, pendingLive, frameCount, frame, persist,
                           sessionRows, csvRows>>
        BY <2>4, DrainEffect DEF DrainInLoop
      <3>2. Counted' = Counted
        BY <3>1 DEF Counted
      <3> QED
        BY <3>1, <3>2
    <2>5. CASE SkipPublish
      <3>1. Counted' = Counted
        BY <2>5 DEF SkipPublish, Counted
      <3> QED
        BY <2>5, <3>1 DEF SkipPublish
    <2>6. CASE PublishLive
      <3>1. Counted' = Counted
        BY <2>6, ConcatTypes, EmptyConcat DEF PublishLive, Counted
      <3> QED
        BY <2>6, <3>1 DEF PublishLive
    <2>7. CASE PublishProgress
      <3>1. Counted' = Counted
        BY <2>7 DEF PublishProgress, Counted
      <3> QED
        BY <2>7, <3>1 DEF PublishProgress
    <2> QED
      BY <1>4, <2>1, <2>2, <2>3, <2>4, <2>5, <2>6, <2>7 DEF LoopStep
  <1>5. CASE ClosingStep
    <2>1. CASE LastDrain
      <3>1. /\ wpc \in {"lastDrain"}
            /\ wpc' \in {"lastDrain", "showRest", "errShow"}
            /\ UNCHANGED <<live, pendingLive, frameCount, frame, persist,
                           sessionRows, csvRows>>
        BY <2>1, DrainEffect DEF LastDrain
      <3>2. Counted' = Counted
        BY <3>1 DEF Counted
      <3> QED
        BY <3>1, <3>2
    <2>2. CASE ShowRest
      <3>1. Counted' = Counted
        BY <2>2, ConcatTypes, EmptyConcat DEF ShowRest, Counted
      <3> QED
        BY <2>2, <3>1 DEF ShowRest
    <2>3. CASE CloseSession
      <3>1. Counted' = Counted
        BY <2>3 DEF CloseSession, CloseSessionWith, Footer, Counted
      <3> QED
        BY <2>3, <3>1 DEF CloseSession, CloseSessionWith, Footer
    <2>4. CASE CloseCsv
      <3>1. Counted' = Counted
        BY <2>4 DEF CloseCsv, CloseCsvWith, Closed, Counted
      <3> QED
        BY <2>4, <3>1 DEF CloseCsv, CloseCsvWith, Closed
    <2>5. CASE CloseMarkers
      <3>1. Counted' = Counted
        BY <2>5 DEF CloseMarkers, CloseMarkersWith, Closed, Counted
      <3> QED
        BY <2>5, <3>1 DEF CloseMarkers, CloseMarkersWith, Closed
    <2>6. CASE SetStopped
      <3>1. Counted' = Counted
        BY <2>6, EmptyConcat DEF SetStopped, Counted
      <3> QED
        BY <2>6, <3>1 DEF SetStopped
    <2> QED
      BY <1>5, <2>1, <2>2, <2>3, <2>4, <2>5, <2>6 DEF ClosingStep
  <1>6. CASE HandlerStep
    <2>1. CASE ErrShow
      <3>1. Counted' = Counted
        BY <2>1 DEF ErrShow, Counted
      <3> QED
        BY <2>1, <3>1 DEF ErrShow
    <2>2. CASE ErrDrain
      <3>1. /\ wpc \in {"errDrain"}
            /\ wpc' \in {"errDrain", "errMarkers", "errEscape"}
            /\ UNCHANGED <<live, pendingLive, frameCount, frame, persist,
                           sessionRows, csvRows>>
        BY <2>2, DrainEffect DEF ErrDrain
      <3>2. Counted' = Counted
        BY <3>1 DEF Counted
      <3> QED
        BY <3>1, <3>2
    <2>3. CASE ErrEscape
      <3>1. Counted' = Counted
        BY <2>3 DEF ErrEscape, CloseMarkersWith, Closed, Counted
      <3> QED
        BY <2>3, <3>1 DEF ErrEscape, CloseMarkersWith, Closed
    <2>4. CASE ErrMarkers
      <3>1. Counted' = Counted
        BY <2>4 DEF ErrMarkers, CloseMarkersWith, Closed, Counted
      <3> QED
        BY <2>4, <3>1 DEF ErrMarkers, CloseMarkersWith, Closed
    <2>5. CASE ErrSession
      <3>1. Counted' = Counted
        BY <2>5 DEF ErrSession, CloseSessionWith, Footer, Counted
      <3> QED
        BY <2>5, <3>1 DEF ErrSession, CloseSessionWith, Footer
    <2>6. CASE ErrCsv
      <3>1. Counted' = Counted
        BY <2>6 DEF ErrCsv, CloseCsvWith, Closed, Counted
      <3> QED
        BY <2>6, <3>1 DEF ErrCsv, CloseCsvWith, Closed
    <2>7. CASE SetError
      <3>1. Counted' = Counted
        BY <2>7 DEF SetError, Counted
      <3> QED
        BY <2>7, <3>1 DEF SetError
    <2>8. CASE ThreadEnds
      <3>1. Counted' = Counted
        BY <2>8 DEF ThreadEnds, Counted
      <3> QED
        BY <2>8, <3>1 DEF ThreadEnds
    <2> QED
      BY <1>6, <2>1, <2>2, <2>3, <2>4, <2>5, <2>6, <2>7, <2>8 DEF HandlerStep
  <1>7. CASE ChannelStep
    <2>1. CASE EnterChannel
      <3>1. Counted' = Counted
        BY <2>1 DEF EnterChannel, Counted
      <3> QED
        BY <2>1, <3>1 DEF EnterChannel
    <2>2. CASE EnterRaises
      <3>1. Counted' = Counted
        BY <2>2 DEF EnterRaises, Counted
      <3> QED
        BY <2>2, <3>1 DEF EnterRaises
    <2>3. CASE \E f \in Nat : ReadFrame(f)
      <3> PICK f \in Nat : ReadFrame(f)
        BY <2>3
      <3>1. CASE persist
        <4>1. Counted' = Counted
          BY <3>1 DEF ReadFrame, Counted
        <4> QED
          BY <3>1, <4>1 DEF ReadFrame
      <3>2. CASE ~persist
        <4>0. /\ wpc = "read" /\ wpc' = "drain" /\ live' = live
              /\ pendingLive' = Append(pendingLive, f)
          BY <3>2 DEF ReadFrame
        <4>1. Counted' = Append(Counted, f)
          BY <4>0, ConcatAppend DEF Counted
        <4>2. /\ Counted \in Seq(Nat)
              /\ Len(Append(Counted, f)) = Len(Counted) + 1
          BY ConcatTypes, AppendProperties DEF ReadFrame, Counted
        <4> QED
          BY <3>2, <4>1, <4>2 DEF ReadFrame
      <3> QED
        BY <3>1, <3>2
    <2>4. CASE ReadNone
      <3>1. Counted' = Counted
        BY <2>4 DEF ReadNone, Counted
      <3> QED
        BY <2>4, <3>1 DEF ReadNone
    <2>5. CASE ReadRaises
      <3>1. Counted' = Counted
        BY <2>5 DEF ReadRaises, Counted
      <3> QED
        BY <2>5, <3>1 DEF ReadRaises
    <2>6. CASE LeaveChannel
      <3>1. Counted' = Counted
        BY <2>6 DEF LeaveChannel, Counted
      <3> QED
        BY <2>6, <3>1 DEF LeaveChannel
    <2>7. CASE LeaveRaises
      <3>1. Counted' = Counted
        BY <2>7 DEF LeaveRaises, Counted
      <3> QED
        BY <2>7, <3>1 DEF LeaveRaises
    <2>8. CASE LeaveAfterError
      <3>1. Counted' = Counted
        BY <2>8 DEF LeaveAfterError, Counted
      <3> QED
        BY <2>8, <3>1 DEF LeaveAfterError
    <2> QED
      BY <1>7, <2>1, <2>2, <2>3, <2>4, <2>5, <2>6, <2>7, <2>8, NextFrameInNat
         DEF ChannelStep
  <1> QED
    BY <1>1, <1>2, <1>3, <1>4, <1>5, <1>6, <1>7 DEF Next, WorkerStep

(* The channel has been left when the files are closed.                     *)
LEMMA ChannelStepInv ==
  ASSUME TypeOK, ChannelInv, [Next]_vars
  PROVE  ChannelInv'
  <1> USE DEF TypeOK, TypeOfControl, ChannelInv, Closing, shared, gui, config,
              counts, session, csv, markers, files, input, view
  <1>1. CASE UNCHANGED vars
    BY <1>1 DEF vars
  <1>2. CASE GuiStep
    BY <1>2
       DEF GuiStep, Start, ResetMarkers, Stop, AddMarkerAccept, AddMarkerPut,
           AddMarkerReturn
  <1>3. CASE OpeningStep
    BY <1>3
       DEF OpeningStep, Lookup, OpenSession, OpenCsv, OpenMarkers, SetRunning
  <1>4. CASE LoopStep
    <2>1. CASE TestStop
      BY <2>1 DEF TestStop
    <2>2. CASE AppendSession
      BY <2>2 DEF AppendSession
    <2>3. CASE AppendCsv
      BY <2>3 DEF AppendCsv
    <2>4. CASE DrainInLoop
      BY <2>4, DrainEffect DEF DrainInLoop
    <2>5. CASE SkipPublish
      BY <2>5 DEF SkipPublish
    <2>6. CASE PublishLive
      BY <2>6 DEF PublishLive
    <2>7. CASE PublishProgress
      BY <2>7 DEF PublishProgress
    <2> QED
      BY <1>4, <2>1, <2>2, <2>3, <2>4, <2>5, <2>6, <2>7 DEF LoopStep
  <1>5. CASE ClosingStep
    <2>1. CASE LastDrain
      BY <2>1, DrainEffect DEF LastDrain
    <2> QED
      BY <1>5, <2>1
         DEF ClosingStep, ShowRest, CloseSession, CloseCsv, CloseMarkers,
             SetStopped, CloseCsvWith, CloseMarkersWith, CloseSessionWith,
             Closed, Footer
  <1>6. CASE HandlerStep
    <2>1. CASE ErrShow
      BY <2>1 DEF ErrShow
    <2>2. CASE ErrDrain
      BY <2>2, DrainEffect DEF ErrDrain
    <2>3. CASE ErrEscape
      BY <2>3 DEF ErrEscape, CloseMarkersWith, Closed
    <2>4. CASE ErrMarkers
      BY <2>4 DEF ErrMarkers, CloseMarkersWith, Closed
    <2>5. CASE ErrSession
      BY <2>5 DEF ErrSession, CloseSessionWith, Footer
    <2>6. CASE ErrCsv
      BY <2>6 DEF ErrCsv, CloseCsvWith, Closed
    <2>7. CASE SetError
      BY <2>7 DEF SetError
    <2>8. CASE ThreadEnds
      BY <2>8 DEF ThreadEnds
    <2> QED
      BY <1>6, <2>1, <2>2, <2>3, <2>4, <2>5, <2>6, <2>7, <2>8 DEF HandlerStep
  <1>7. CASE ChannelStep
    BY <1>7
       DEF ChannelStep, EnterChannel, EnterRaises, ReadFrame, ReadNone,
           ReadRaises, LeaveChannel, LeaveRaises, LeaveAfterError
  <1> QED
    BY <1>1, <1>2, <1>3, <1>4, <1>5, <1>6, <1>7 DEF Next, WorkerStep

(* A marker more is a row more.                                             *)
LEMMA AppendLength ==
  \A s \in Seq(Marker) : \A m \in Marker : Len(Append(s, m)) = Len(s) + 1
  BY AppendProperties

(* A drain counts the rows it adds, unless it raises.                       *)
LEMMA DrainCounts ==
  ASSUME TypeOK, MarkerInv, NEW next, NEW raise, Drain(next, raise),
         wpc \notin {next, raise}, next # raise
  PROVE  /\ Len(markerRows) <= Len(markerRows')
         /\ persist => markerCount' + drained' <= Len(markerRows')
         /\ persist /\ wpc' # raise /\ markerCount + drained = Len(markerRows)
               => markerCount' + drained' = Len(markerRows')
         /\ wpc' # wpc => drained' = 0
  <1> USE DEF TypeOK, TypeOfCounts, Fault, gui, files, markers
  <1>1. /\ markerRows \in Seq(Marker) /\ Len(markerRows) \in Nat
        /\ markerQueue # <<>> =>
              Len(Append(markerRows, Head(markerQueue))) = Len(markerRows) + 1
    BY AppendLength, HeadTailProperties, LenProperties
       DEF TypeOfMarkers, TypeOfFiles
  <1>2. persist => markerCount + drained <= Len(markerRows)
    BY DEF MarkerInv
  <1>3. CASE DrainOne
    BY <1>1, <1>2, <1>3 DEF DrainOne
  <1>4. CASE DrainRaises(raise)
    BY <1>1, <1>2, <1>4 DEF DrainRaises
  <1>5. CASE DrainEmpty(next)
    BY <1>1, <1>2, <1>5 DEF DrainEmpty
  <1> QED
    BY <1>3, <1>4, <1>5 DEF Drain

(* The marker count never runs ahead of the marker file.                    *)
LEMMA MarkerStep ==
  ASSUME TypeOK, StateInv, MarkerInv, [Next]_vars
  PROVE  MarkerInv'
  <1> USE DEF TypeOK, TypeOfControl, TypeOfCounts, StateInv, MarkerInv,
              Opening, Closing, Looping, OnDiskOnly, shared, gui, config,
              counts, session, csv, markers, files, input, view
  <1>1. CASE UNCHANGED vars
    BY <1>1 DEF vars
  <1>2. CASE GuiStep
    <2>1. CASE \E onDisk, duration \in BOOLEAN : Start(onDisk, duration)
      BY <2>1, LenProperties DEF Start, ResetMarkers
    <2>2. CASE Stop
      BY <2>2 DEF Stop
    <2>3. CASE AddMarkerAccept
      BY <2>3 DEF AddMarkerAccept
    <2>4. CASE AddMarkerPut
      BY <2>4 DEF AddMarkerPut
    <2>5. CASE AddMarkerReturn
      BY <2>5 DEF AddMarkerReturn
    <2> QED
      BY <1>2, <2>1, <2>2, <2>3, <2>4, <2>5 DEF GuiStep
  <1>3. CASE OpeningStep
    BY SMTT(30), <1>3
       DEF OpeningStep, Lookup, OpenSession, OpenCsv, OpenMarkers, SetRunning
  <1>4. CASE LoopStep
    <2>1. CASE TestStop
      BY <2>1 DEF TestStop
    <2>2. CASE AppendSession
      BY <2>2 DEF AppendSession
    <2>3. CASE AppendCsv
      BY <2>3 DEF AppendCsv
    <2>4. CASE DrainInLoop
      <3>1. /\ wpc = "drain"
            /\ wpc' \in {"drain", "publish", "leaveErr"}
            /\ persist' = persist
        BY <2>4, DrainEffect DEF DrainInLoop
      <3>2. /\ persist => markerCount' + drained' <= Len(markerRows')
            /\ (persist /\ wpc' # "leaveErr"
                    /\ markerCount + drained = Len(markerRows))
                  => markerCount' + drained' = Len(markerRows')
            /\ wpc' # "drain" => drained' = 0
        BY <2>4, <3>1, DrainCounts DEF DrainInLoop
      <3> QED
        BY <3>1, <3>2
    <2>5. CASE SkipPublish
      BY <2>5 DEF SkipPublish
    <2>6. CASE PublishLive
      BY <2>6 DEF PublishLive
    <2>7. CASE PublishProgress
      BY <2>7 DEF PublishProgress
    <2> QED
      BY <1>4, <2>1, <2>2, <2>3, <2>4, <2>5, <2>6, <2>7 DEF LoopStep
  <1>5. CASE ClosingStep
    <2>1. CASE LastDrain
      <3>1. /\ wpc = "lastDrain"
            /\ wpc' \in {"lastDrain", "showRest", "errShow"}
            /\ persist' = persist
        BY <2>1, DrainEffect DEF LastDrain
      <3>2. /\ persist => markerCount' + drained' <= Len(markerRows')
            /\ (persist /\ wpc' # "errShow"
                    /\ markerCount + drained = Len(markerRows))
                  => markerCount' + drained' = Len(markerRows')
            /\ wpc' # "lastDrain" => drained' = 0
        BY <2>1, <3>1, DrainCounts DEF LastDrain
      <3> QED
        BY <3>1, <3>2
    <2>2. CASE ShowRest
      BY <2>2 DEF ShowRest
    <2>3. CASE CloseSession
      BY <2>3 DEF CloseSession, CloseSessionWith, Footer
    <2>4. CASE CloseCsv
      BY <2>4 DEF CloseCsv, CloseCsvWith, Closed
    <2>5. CASE CloseMarkers
      BY <2>5 DEF CloseMarkers, CloseMarkersWith, Closed
    <2>6. CASE SetStopped
      BY <2>6 DEF SetStopped
    <2> QED
      BY <1>5, <2>1, <2>2, <2>3, <2>4, <2>5, <2>6 DEF ClosingStep
  <1>6. CASE HandlerStep
    <2>1. CASE ErrShow
      BY <2>1 DEF ErrShow
    <2>2. CASE ErrDrain
      <3>1. /\ wpc = "errDrain"
            /\ wpc' \in {"errDrain", "errMarkers", "errEscape"}
            /\ persist' = persist
        BY <2>2, DrainEffect DEF ErrDrain
      <3>2. /\ persist => markerCount' + drained' <= Len(markerRows')
            /\ (persist /\ wpc' # "errEscape"
                    /\ markerCount + drained = Len(markerRows))
                  => markerCount' + drained' = Len(markerRows')
            /\ wpc' # "errDrain" => drained' = 0
        BY <2>2, <3>1, DrainCounts DEF ErrDrain
      <3> QED
        BY <3>1, <3>2
    <2>3. CASE ErrEscape
      BY <2>3 DEF ErrEscape, CloseMarkersWith, Closed
    <2>4. CASE ErrMarkers
      BY <2>4 DEF ErrMarkers, CloseMarkersWith, Closed
    <2>5. CASE ErrSession
      BY <2>5 DEF ErrSession, CloseSessionWith, Footer
    <2>6. CASE ErrCsv
      BY <2>6 DEF ErrCsv, CloseCsvWith, Closed
    <2>7. CASE SetError
      BY <2>7 DEF SetError
    <2>8. CASE ThreadEnds
      BY <2>8 DEF ThreadEnds
    <2> QED
      BY <1>6, <2>1, <2>2, <2>3, <2>4, <2>5, <2>6, <2>7, <2>8 DEF HandlerStep
  <1>7. CASE ChannelStep
    BY SMTT(30), <1>7
       DEF ChannelStep, EnterChannel, EnterRaises, ReadFrame, ReadNone,
           ReadRaises, LeaveChannel, LeaveRaises, LeaveAfterError
  <1> QED
    BY <1>1, <1>2, <1>3, <1>4, <1>5, <1>6, <1>7 DEF Next, WorkerStep

(* The footer says what the files hold.                                     *)
LEMMA FooterStep ==
  ASSUME TypeOK, StateInv, HandleInv, FrameInv, MarkerInv,
         FooterInv, [Next]_vars
  PROVE  FooterInv'
  <1> USE DEF TypeOK, TypeOfControl, TypeOfCounts, StateInv, HandleInv,
              FooterInv, FooterIsHonest, Opening, Closing, Looping,
              OnDiskOnly, shared, gui, config, counts, session, csv, markers,
              files, input, view
  <1>1. CASE UNCHANGED vars
    BY <1>1 DEF vars
  <1>2. CASE GuiStep
    <2>1. CASE \E onDisk, duration \in BOOLEAN : Start(onDisk, duration)
      BY <2>1 DEF Start, ResetMarkers
    <2>2. CASE Stop
      BY <2>2 DEF Stop
    <2>3. CASE AddMarkerAccept
      BY <2>3 DEF AddMarkerAccept
    <2>4. CASE AddMarkerPut
      BY <2>4 DEF AddMarkerPut
    <2>5. CASE AddMarkerReturn
      BY <2>5 DEF AddMarkerReturn
    <2> QED
      BY <1>2, <2>1, <2>2, <2>3, <2>4, <2>5 DEF GuiStep
  <1>3. CASE OpeningStep
    BY <1>3
       DEF OpeningStep, Lookup, OpenSession, OpenCsv, OpenMarkers, SetRunning
  <1>4. CASE LoopStep
    <2>1. CASE TestStop
      BY <2>1 DEF TestStop
    <2>2. CASE AppendSession
      BY <2>2 DEF AppendSession
    <2>3. CASE AppendCsv
      BY <2>3 DEF AppendCsv
    <2>4. CASE DrainInLoop
      <3>1. /\ wpc = "drain"
            /\ wpc' \in {"drain", "publish", "leaveErr"}
            /\ Len(markerRows) <= Len(markerRows')
            /\ Len(markerRows) \in Nat /\ Len(markerRows') \in Nat
            /\ UNCHANGED <<persist, sessionFooter, sessionRows>>
        BY <2>4, DrainEffect, DrainCounts, LenProperties
           DEF DrainInLoop, TypeOfFiles
      <3> QED
        BY <3>1
    <2>5. CASE SkipPublish
      BY <2>5 DEF SkipPublish
    <2>6. CASE PublishLive
      BY <2>6 DEF PublishLive
    <2>7. CASE PublishProgress
      BY <2>7 DEF PublishProgress
    <2> QED
      BY <1>4, <2>1, <2>2, <2>3, <2>4, <2>5, <2>6, <2>7 DEF LoopStep
  <1>5. CASE ClosingStep
    <2>1. CASE LastDrain
      <3>1. /\ wpc = "lastDrain"
            /\ wpc' \in {"lastDrain", "showRest", "errShow"}
            /\ Len(markerRows) <= Len(markerRows')
            /\ Len(markerRows) \in Nat /\ Len(markerRows') \in Nat
            /\ UNCHANGED <<persist, sessionFooter, sessionRows>>
        BY <2>1, DrainEffect, DrainCounts, LenProperties
           DEF LastDrain, TypeOfFiles
      <3> QED
        BY <3>1
    <2>2. CASE ShowRest
      BY <2>2 DEF ShowRest
    <2>3. CASE CloseSession
      <3>1. /\ wpc = "closeSession" /\ wpc' \in {"closeCsv", "errShow"}
            /\ sessionFooter' \in {sessionFooter,
                   Footer(Len(sessionRows), frameCount, markerCount, TRUE)}
            /\ sessionHandle = "open" /\ wpc' = "closeCsv" => sessionFooter' =
                   Footer(Len(sessionRows), frameCount, markerCount, TRUE)
            /\ UNCHANGED <<sessionRows, markerRows, persist, frameCount,
                           markerCount>>
        BY <2>3 DEF CloseSession, CloseSessionWith
      <3>2. /\ Len(sessionRows) \in Nat /\ Len(markerRows) \in Nat
            /\ sessionRows \in Seq(Nat)
        BY LenProperties DEF TypeOfFiles
      <3>3. CASE persist
        <4>1. frameCount = Len(sessionRows)
          <5>1. Counted \in Seq(Nat)
            BY ConcatTypes DEF Counted, TypeOfFrames
          <5>2. Len(Append(Counted, frame)) = Len(Counted) + 1
            BY <5>1, AppendProperties
          <5> QED
            BY <3>1, <3>2, <3>3, <5>1, <5>2 DEF FrameInv
        <4>2. markerCount <= Len(markerRows)
          BY <3>1, <3>2, <3>3 DEF MarkerInv
        <4>3. wpc = "closeSession" => sessionHandle = "open"
          BY <3>3
        <4> QED
          BY <3>1, <3>2, <3>3, <4>1, <4>2, <4>3 DEF Footer
      <3>4. CASE ~persist
        <4>1. sessionHandle = "unopened"
          BY <3>4
        <4> QED
          BY <2>3, <3>1, <3>4, <4>1 DEF CloseSession, CloseSessionWith
      <3> QED
        BY <3>3, <3>4
    <2>4. CASE CloseCsv
      BY <2>4 DEF CloseCsv, CloseCsvWith, Closed
    <2>5. CASE CloseMarkers
      BY <2>5 DEF CloseMarkers, CloseMarkersWith, Closed
    <2>6. CASE SetStopped
      BY <2>6 DEF SetStopped
    <2> QED
      BY <1>5, <2>1, <2>2, <2>3, <2>4, <2>5, <2>6 DEF ClosingStep
  <1>6. CASE HandlerStep
    <2>1. CASE ErrShow
      BY <2>1 DEF ErrShow
    <2>2. CASE ErrDrain
      <3>1. /\ wpc = "errDrain"
            /\ wpc' \in {"errDrain", "errMarkers", "errEscape"}
            /\ Len(markerRows) <= Len(markerRows')
            /\ Len(markerRows) \in Nat /\ Len(markerRows') \in Nat
            /\ UNCHANGED <<persist, sessionFooter, sessionRows>>
        BY <2>2, DrainEffect, DrainCounts, LenProperties
           DEF ErrDrain, TypeOfFiles
      <3>2. sessionFooter # NoFooter => sessionFooter.markers \in Nat
        BY DEF TypeOfFiles, FooterType
      <3>3. sessionFooter # NoFooter =>
              sessionFooter.markers <= Len(markerRows')
        BY <3>1, <3>2
      <3>4. FooterIsHonest'
        BY <3>1, <3>3
      <3> QED
        BY <3>1, <3>4
    <2>3. CASE ErrEscape
      BY <2>3 DEF ErrEscape, CloseMarkersWith, Closed
    <2>4. CASE ErrMarkers
      BY <2>4 DEF ErrMarkers, CloseMarkersWith, Closed
    <2>5. CASE ErrSession
      <3>1. /\ wpc = "errSession" /\ wpc' \in {"errCsv", "dying"}
            /\ sessionFooter' \in {sessionFooter,
                   Footer(Len(sessionRows), frameCount, markerCount, FALSE)}
            /\ sessionHandle = "open" /\ wpc' = "errCsv" => sessionFooter' =
                   Footer(Len(sessionRows), frameCount, markerCount, FALSE)
            /\ UNCHANGED <<sessionRows, markerRows, persist, frameCount,
                           markerCount>>
        BY <2>5 DEF ErrSession, CloseSessionWith
      <3>2. /\ Len(sessionRows) \in Nat /\ Len(markerRows) \in Nat
            /\ sessionRows \in Seq(Nat)
        BY LenProperties DEF TypeOfFiles
      <3>3. CASE persist
        <4>1. frameCount \in {Len(sessionRows), Len(sessionRows) - 1}
          <5>1. Counted \in Seq(Nat)
            BY ConcatTypes DEF Counted, TypeOfFrames
          <5>2. Len(Append(Counted, frame)) = Len(Counted) + 1
            BY <5>1, AppendProperties
          <5> QED
            BY <3>1, <3>2, <3>3, <5>1, <5>2 DEF FrameInv
        <4>2. markerCount <= Len(markerRows)
          BY <3>1, <3>2, <3>3 DEF MarkerInv
        <4>3. wpc = "closeSession" => sessionHandle = "open"
          BY <3>3
        <4> QED
          BY <3>1, <3>2, <3>3, <4>1, <4>2, <4>3 DEF Footer
      <3>4. CASE ~persist
        <4>1. sessionHandle = "unopened"
          BY <3>4
        <4> QED
          BY <2>5, <3>1, <3>4, <4>1 DEF ErrSession, CloseSessionWith
      <3> QED
        BY <3>3, <3>4
    <2>6. CASE ErrCsv
      BY <2>6 DEF ErrCsv, CloseCsvWith, Closed
    <2>7. CASE SetError
      BY <2>7 DEF SetError
    <2>8. CASE ThreadEnds
      BY <2>8 DEF ThreadEnds
    <2> QED
      BY <1>6, <2>1, <2>2, <2>3, <2>4, <2>5, <2>6, <2>7, <2>8 DEF HandlerStep
  <1>7. CASE ChannelStep
    BY <1>7
       DEF ChannelStep, EnterChannel, EnterRaises, ReadFrame, ReadNone,
           ReadRaises, LeaveChannel, LeaveRaises, LeaveAfterError
  <1> QED
    BY <1>1, <1>2, <1>3, <1>4, <1>5, <1>6, <1>7 DEF Next, WorkerStep

(* What STOPPED promises is true when it is set, and stays true.            *)
LEMMA StoppedStep ==
  ASSUME IInv, [Next]_vars
  PROVE  StoppedIsComplete'
  <1> USE DEF IInv, TypeOK, TypeOfControl, StateInv, StoppedIsComplete,
              Terminal, shared, gui, config, counts, session, csv, markers,
              files, input, view
  <1>1. CASE UNCHANGED vars
    BY <1>1 DEF vars
  <1>2. CASE GuiStep
    BY <1>2
       DEF GuiStep, Start, ResetMarkers, Stop, AddMarkerAccept, AddMarkerPut,
           AddMarkerReturn
  <1>3. CASE OpeningStep
    BY <1>3
       DEF OpeningStep, Lookup, OpenSession, OpenCsv, OpenMarkers, SetRunning
  <1>4. CASE LoopStep
    BY <1>4
       DEF LoopStep, TestStop, AppendSession, AppendCsv, DrainInLoop, Drain,
           DrainOne, DrainRaises, DrainEmpty, SkipPublish, PublishLive,
           PublishProgress
  <1>5. CASE ClosingStep
    <2>1. CASE SetStopped
      <3>1. /\ wpc = "setStopped" /\ state' = "stopped"
            /\ UNCHANGED <<shown, live, channel, sessionRows, csvRows,
                           markerRows, sessionFooter, sessionHandle,
                           csvHandle, markerHandle, persist>>
        BY <2>1 DEF SetStopped
      <3>2. Counted = live
        BY <3>1, EmptyConcat
           DEF FrameInv, Counted, Closing, Handling, Ended, TypeOfFrames
      <3>3. /\ shown.frames = Len(live) /\ shown.markers = markerCount
            /\ frameCount = Len(live) /\ channel = "closed"
        BY <3>1, <3>2 DEF FrameInv, FooterInv, ChannelInv, Closing
      <3>4. CASE persist
        <4>1. /\ sessionRows = live /\ csvRows = live
              /\ markerCount = Len(markerRows)
          BY <3>1, <3>2, <3>4 DEF FrameInv, MarkerInv, Closing, TypeOfCounts
        <4>2. /\ sessionFooter =
                    Footer(frameCount, frameCount, markerCount, TRUE)
              /\ "open" \notin {sessionHandle, csvHandle, markerHandle}
          BY <3>1, <3>4 DEF FooterInv, HandleInv, Closing
        <4>3. Footer(frameCount, frameCount, markerCount, TRUE)
                = Footer(Len(live), Len(live), Len(markerRows), TRUE)'
          BY <3>1, <3>3, <4>1 DEF Footer
        <4> QED
          BY <3>1, <3>3, <3>4, <4>1, <4>2, <4>3
      <3> QED
        BY <3>1, <3>3, <3>4
    <2> QED
      BY <1>5, <2>1
         DEF ClosingStep, LastDrain, ShowRest, CloseSession, CloseCsv,
             CloseMarkers, CloseCsvWith, CloseMarkersWith, CloseSessionWith,
             Closed, Drain, DrainEmpty, DrainOne, DrainRaises, Footer
  <1>6. CASE HandlerStep
    BY <1>6
       DEF HandlerStep, ErrShow, ErrDrain, Drain, DrainOne, DrainRaises,
           DrainEmpty, ErrEscape, ErrMarkers, ErrSession, ErrCsv,
           CloseMarkersWith, CloseSessionWith, CloseCsvWith, Closed, SetError,
           ThreadEnds
  <1>7. CASE ChannelStep
    BY <1>7
       DEF ChannelStep, EnterChannel, EnterRaises, ReadFrame, ReadNone,
           ReadRaises, LeaveChannel, LeaveRaises, LeaveAfterError
  <1> QED
    BY <1>1, <1>2, <1>3, <1>4, <1>5, <1>6, <1>7 DEF Next, WorkerStep


-----------------------------------------------------------------------------
(* A sequence of frames begins with each of the sequences it extends.       *)
LEMMA Prefixes ==
  /\ \A s \in Seq(Nat) : Len(s) \in Nat /\ SubSeq(s, 1, Len(s)) = s
  /\ \A s, t \in Seq(Nat) : SubSeq(s \o t, 1, Len(s)) = s
  /\ \A s \in Seq(Nat) : \A n \in Nat :
        /\ SubSeq(Append(s, n), 1, Len(s)) = s
        /\ Append(s, n) \in Seq(Nat) /\ Len(Append(s, n)) = Len(s) + 1
  <1>1. \A s \in Seq(Nat) : Len(s) \in Nat /\ SubSeq(s, 1, Len(s)) = s
    BY SubSeqFull, LenProperties
  <1>2. \A s, t \in Seq(Nat) : SubSeq(s \o t, 1, Len(s)) = s
    <2> SUFFICES ASSUME NEW s \in Seq(Nat), NEW t \in Seq(Nat)
                 PROVE  SubSeq(s \o t, 1, Len(s)) = s
      OBVIOUS
    <2>1. SubSeq(s \o t, 1, Len(s)) = SubSeq(s, 1, Len(s))
      BY SubSeqOfConcat1, LenProperties
    <2> QED
      BY <1>1, <2>1
  <1>3. \A s \in Seq(Nat) : \A n \in Nat :
           /\ SubSeq(Append(s, n), 1, Len(s)) = s
           /\ Append(s, n) \in Seq(Nat) /\ Len(Append(s, n)) = Len(s) + 1
    <2> SUFFICES ASSUME NEW s \in Seq(Nat), NEW n \in Nat
                 PROVE  /\ SubSeq(Append(s, n), 1, Len(s)) = s
                        /\ Append(s, n) \in Seq(Nat)
                        /\ Len(Append(s, n)) = Len(s) + 1
      OBVIOUS
    <2>1. Append(s, n) = s \o <<n>> /\ <<n>> \in Seq(Nat)
      BY AppendIsConcat
    <2> QED
      BY <1>2, <2>1, AppendProperties
  <1> QED
    BY <1>1, <1>2, <1>3

(* Initially no capture has run.                                            *)
LEMMA InitIInv == Init => IInv
  <1> SUFFICES ASSUME Init PROVE IInv
    OBVIOUS
  <1> USE DEF Init
  <1>1. TypeOfControl
    BY DEF TypeOfControl, CaptureState, WorkerPc
  <1>2. TypeOfCounts
    BY DEF TypeOfCounts
  <1>3. TypeOfFrames
    BY DEF TypeOfFrames
  <1>4. TypeOfMarkers
    <2>1. NoMarker \in Marker
      BY DEF NoMarker, Marker
    <2> QED
      BY <2>1 DEF TypeOfMarkers
  <1>5. TypeOfFiles
    BY DEF TypeOfFiles, Handle, FooterType
  <1>6. TypeOK
    BY <1>1, <1>2, <1>3, <1>4, <1>5 DEF TypeOK
  <1>7. StateInv /\ StopInv
    BY DEF StateInv, StopInv, Terminal, OnDiskOnly, Opening
  <1>8. FrameInv
    BY DEF FrameInv, Counted, Opening, Looping, Closing, Handling, Ended
  <1>9. HandleInv /\ ChannelInv /\ MarkerInv
    BY DEF HandleInv, ChannelInv, MarkerInv, Opening, Looping, Closing
  <1>10. FooterInv
    BY DEF FooterInv, FooterIsHonest, Closing
  <1>11. StoppedIsComplete
    BY DEF StoppedIsComplete
  <1> QED
    BY <1>6, <1>7, <1>8, <1>9, <1>10, <1>11 DEF IInv

(* Every step of the service, of either thread, keeps the invariant.        *)
LEMMA NextIInv == IInv /\ [Next]_vars => IInv'
  <1> SUFFICES ASSUME IInv, [Next]_vars PROVE IInv'
    OBVIOUS
  <1>1. /\ TypeOK /\ StateInv /\ StopInv /\ FrameInv /\ HandleInv /\ ChannelInv
        /\ MarkerInv /\ FooterInv
    BY DEF IInv
  <1>2. TypeOK'
    BY <1>1, ControlStep, CountsStep, FramesStep, MarkersStep, FilesStep
       DEF TypeOK
  <1>3. StateInv' /\ StopInv' /\ HandleInv' /\ ChannelInv'
    BY <1>1, StateStep, StopStep, HandleStep, ChannelStepInv
  <1>4. FrameInv' /\ MarkerInv' /\ FooterInv'
    BY <1>1, FrameStep, MarkerStep, FooterStep
  <1>5. StoppedIsComplete'
    BY StoppedStep
  <1> QED
    BY <1>2, <1>3, <1>4, <1>5 DEF IInv

(* IInv is an invariant of the service, for every number of frames,         *)
(* markers, captures and faults.                                            *)
THEOREM InductiveInvariant == Spec => []IInv
  BY InitIInv, NextIInv, PTL DEF Spec

(* Every variable of the service keeps its type.                            *)
THEOREM TypeCorrect == Spec => []TypeOK
  <1>1. IInv => TypeOK
    BY DEF IInv
  <1> QED
    BY <1>1, InductiveInvariant, PTL

(* A capture that reports STOPPED is complete: files, footer, counts.       *)
THEOREM StoppedComplete == Spec => []StoppedIsComplete
  <1>1. IInv => StoppedIsComplete
    BY DEF IInv
  <1> QED
    BY <1>1, InductiveInvariant, PTL

(* A footer never claims more than the session and the marker file hold.    *)
THEOREM HonestFooter == Spec => []FooterIsHonest
  <1>1. IInv => FooterIsHonest
    BY DEF IInv, FooterInv
  <1> QED
    BY <1>1, InductiveInvariant, PTL

(* A worker that dies without a storage fault leaves a terminal state.      *)
THEOREM DeathIsReported == Spec => []DeadIsTerminal
  <1>1. IInv => DeadIsTerminal
    BY DEF IInv, StateInv, DeadIsTerminal
  <1> QED
    BY <1>1, InductiveInvariant, PTL

(* The frames shown, the CSV file and the session file are prefixes of one  *)

(* another, in this order.                                                  *)
LEMMA PrefixOfSession == IInv => WrittenBeforeShown
  <1> SUFFICES ASSUME IInv, persist PROVE WrittenBeforeShown
    BY DEF WrittenBeforeShown
  <1>1. /\ live \in Seq(Nat) /\ pendingLive \in Seq(Nat)
        /\ frame \in Nat
    BY DEF IInv, TypeOK, TypeOfFrames, TypeOfCounts
  <1>2. /\ sessionRows \in {Counted, Append(Counted, frame)}
        /\ csvRows \in {Counted, sessionRows}
    BY DEF IInv, FrameInv
  <1>3. PICK rest \in Seq(Nat) : Counted = live \o rest
    BY <1>1, EmptyConcat DEF Counted
  <1>4. /\ Counted \in Seq(Nat) /\ Len(live) <= Len(Counted)
        /\ live = SubSeq(Counted, 1, Len(live))
    BY <1>1, <1>3, ConcatTypes, Prefixes
  <1>5. live = SubSeq(Append(Counted, frame), 1, Len(live))
    <2>1. Append(Counted, frame) = live \o Append(rest, frame)
      BY <1>1, <1>3, ConcatAppend
    <2>2. Append(rest, frame) \in Seq(Nat)
      BY <1>1, Prefixes
    <2> QED
      BY <1>1, <2>1, <2>2, Prefixes
  <1> DEFINE longer == Append(Counted, frame)
  <1>6. /\ Len(live) \in Nat /\ Len(Counted) \in Nat
        /\ Len(longer) = Len(Counted) + 1 /\ longer \in Seq(Nat)
        /\ SubSeq(longer, 1, Len(Counted)) = Counted
        /\ SubSeq(longer, 1, Len(longer)) = longer
        /\ SubSeq(Counted, 1, Len(Counted)) = Counted
    BY <1>1, <1>4, Prefixes
  <1>7. CASE sessionRows = Counted
    BY <1>2, <1>4, <1>6, <1>7 DEF WrittenBeforeShown
  <1>8. CASE sessionRows = longer
    <2> HIDE DEF longer
    <2>1. csvRows \in {Counted, longer}
      BY <1>2, <1>8
    <2>2. /\ Len(live) <= Len(csvRows) /\ Len(csvRows) <= Len(longer)
          /\ csvRows = SubSeq(longer, 1, Len(csvRows))
      BY <1>4, <1>6, <2>1
    <2>3. live = SubSeq(longer, 1, Len(live))
      BY <1>5 DEF longer
    <2> QED
      BY <1>8, <2>2, <2>3 DEF WrittenBeforeShown
  <1> QED
    BY <1>2, <1>7, <1>8

(* Every frame is written before it is shown.                               *)
THEOREM ShownIsWritten == Spec => []WrittenBeforeShown
  BY PrefixOfSession, InductiveInvariant, PTL

(* While the state is STOPPED or ERROR only the end of the worker thread    *)

(* and the GUI's own calls remain, and of these only start() moves a file.  *)
LEMMA TerminalStep ==
  ASSUME IInv, [Next]_vars, state \in Terminal, captures' = captures
  PROVE  UNCHANGED <<state, files, live, shown, originSet>>
  <1>1. wpc \in {"dying", "dead"} /\ captures \in Nat
    BY DEF IInv, StateInv, TypeOK, TypeOfCounts
  <1> USE DEF shared, gui, config, counts, session, csv, markers, files, view
  <1>2. CASE UNCHANGED vars
    BY <1>2 DEF vars
  <1>3. CASE GuiStep
    BY <1>1, <1>3
       DEF GuiStep, Start, ResetMarkers, Stop, AddMarkerAccept, AddMarkerPut,
           AddMarkerReturn, Terminal
  <1>4. CASE WorkerStep
    <2>1. ThreadEnds
      BY <1>1, <1>4
         DEF WorkerStep, OpeningStep, Lookup, OpenSession, OpenCsv,
             OpenMarkers, SetRunning, LoopStep, TestStop, AppendSession,
             AppendCsv, DrainInLoop, SkipPublish, PublishLive,
             PublishProgress, ClosingStep, LastDrain, ShowRest, CloseSession,
             CloseCsv, CloseMarkers, SetStopped, HandlerStep, ErrShow,
             ErrDrain, ErrEscape, ErrMarkers, ErrSession, ErrCsv, SetError
    <2> QED
      BY <2>1 DEF ThreadEnds
  <1>5. CASE ChannelStep
    BY <1>1, <1>5
       DEF ChannelStep, EnterChannel, EnterRaises, ReadFrame, ReadNone,
           ReadRaises, LeaveChannel, LeaveRaises, LeaveAfterError
  <1> QED
    BY <1>2, <1>3, <1>4, <1>5 DEF Next

(* A terminal state is final: nothing of the capture changes after it.      *)
THEOREM TerminalStaysFinal == Spec => TerminalIsFinal
  <1>1. IInv /\ [Next]_vars =>
          [(state \in Terminal /\ captures' = captures)
              => UNCHANGED <<state, files, live, shown, originSet>>]_vars
    BY TerminalStep
  <1> QED
    BY <1>1, InductiveInvariant, PTL DEF Spec, TerminalIsFinal

-----------------------------------------------------------------------------
(* The markers.                                                             *)

(* What a step may do to the markers: the GUI accepts one or puts it into   *)
(* the queue, the worker takes one out, start() forgets them all.           *)
LEMMA MarkersMove ==
  ASSUME [Next]_vars
  PROVE  \/ UNCHANGED <<markerQueue, markerRows, accepted, gpc, captures,
                        nextMarker>>
         \/ \E onDisk, duration \in BOOLEAN : Start(onDisk, duration)
         \/ AddMarkerAccept \/ AddMarkerPut \/ AddMarkerReturn
         \/ DrainOne
         \/ \E raise \in WorkerPc : DrainRaises(raise)
  <1> USE DEF gui, config, session, csv, markers, files
  <1>1. CASE UNCHANGED vars
    BY <1>1 DEF vars
  <1>2. CASE GuiStep
    BY <1>2 DEF GuiStep, Stop
  <1>3. CASE OpeningStep
    BY <1>3
       DEF OpeningStep, Lookup, OpenSession, OpenCsv, OpenMarkers, SetRunning
  <1>4. CASE LoopStep
    BY <1>4
       DEF LoopStep, TestStop, AppendSession, AppendCsv, DrainInLoop, Drain,
           DrainEmpty, SkipPublish, PublishLive, PublishProgress, WorkerPc
  <1>5. CASE ClosingStep
    BY <1>5
       DEF ClosingStep, LastDrain, Drain, DrainEmpty, ShowRest, CloseSession,
           CloseSessionWith, CloseCsv, CloseCsvWith, CloseMarkers,
           CloseMarkersWith, SetStopped, WorkerPc
  <1>6. CASE HandlerStep
    BY <1>6
       DEF HandlerStep, ErrShow, ErrDrain, Drain, DrainEmpty, ErrEscape,
           ErrMarkers, ErrSession, ErrCsv, CloseMarkersWith, CloseSessionWith,
           CloseCsvWith, SetError, ThreadEnds, WorkerPc
  <1>7. CASE ChannelStep
    BY <1>7
       DEF ChannelStep, EnterChannel, EnterRaises, ReadFrame, ReadNone,
           ReadRaises, LeaveChannel, LeaveRaises, LeaveAfterError
  <1> QED
    BY <1>1, <1>2, <1>3, <1>4, <1>5, <1>6, <1>7 DEF Next, WorkerStep

(* What is in the sequence after an append, and after the head was taken.   *)
LEMMA MarkerElements ==
  /\ \A s \in Seq(Marker) : \A m \in Marker :
        /\ DOMAIN Append(s, m) = 1 .. Len(s) + 1 /\ Len(s) \in Nat
        /\ DOMAIN s = 1 .. Len(s)
        /\ \A i \in 1 .. Len(s) : Append(s, m)[i] = s[i]
        /\ Append(s, m)[Len(s) + 1] = m
        /\ Len(Append(s, m)) = Len(s) + 1
  /\ \A s \in Seq(Marker) : s # <<>> =>
        /\ Head(s) = s[1] /\ 1 \in DOMAIN s /\ Len(s) \in Nat
        /\ DOMAIN s = 1 .. Len(s)
        /\ DOMAIN Tail(s) = 1 .. Len(s) - 1
        /\ \A i \in 1 .. Len(s) - 1 : Tail(s)[i] = s[i + 1]
  <1>1. \A s \in Seq(Marker) : \A m \in Marker :
           /\ DOMAIN Append(s, m) = 1 .. Len(s) + 1 /\ Len(s) \in Nat
           /\ DOMAIN s = 1 .. Len(s)
           /\ \A i \in 1 .. Len(s) : Append(s, m)[i] = s[i]
           /\ Append(s, m)[Len(s) + 1] = m
           /\ Len(Append(s, m)) = Len(s) + 1
    BY AppendProperties, LenProperties
  <1>2. \A s \in Seq(Marker) : s # <<>> =>
           /\ Head(s) = s[1] /\ 1 \in DOMAIN s /\ Len(s) \in Nat
           /\ DOMAIN s = 1 .. Len(s)
           /\ DOMAIN Tail(s) = 1 .. Len(s) - 1
           /\ \A i \in 1 .. Len(s) - 1 : Tail(s)[i] = s[i + 1]
    BY HeadTailProperties, LenProperties, EmptySeq
  <1> QED
    BY <1>1, <1>2

(* The order of the markers survives every step.                            *)
LEMMA OrderStep ==
  ASSUME TypeOK, OrderInv, [Next]_vars
  PROVE  OrderInv'
  <1> USE DEF OrderInv, MarkersOnce
  <1>0. /\ markerQueue \in Seq(Marker) /\ markerRows \in Seq(Marker)
        /\ accepted \in Seq(Marker) /\ captures \in Nat /\ nextMarker \in Nat
        /\ gpc # "idle" => accepted # <<>>
    BY DEF TypeOK, TypeOfMarkers, TypeOfFiles, TypeOfCounts
  <1>1. CASE UNCHANGED <<markerQueue, markerRows, accepted, gpc, captures,
                         nextMarker>>
    BY <1>1
  <1>2. ASSUME NEW onDisk \in BOOLEAN, NEW duration \in BOOLEAN,
               Start(onDisk, duration)
        PROVE  OrderInv'
    BY <1>2 DEF Start, ResetMarkers
  <1>3. CASE AddMarkerAccept
    <2> DEFINE m == [capture |-> captures, number |-> nextMarker]
    <2>1. /\ accepted' = Append(accepted, m) /\ nextMarker' = nextMarker + 1
          /\ UNCHANGED <<markerQueue, markerRows, captures>>
      BY <1>3 DEF AddMarkerAccept, config, files, markers
    <2>2. m \in Marker
      BY <1>0 DEF Marker
    <2>3. accepted'[Len(accepted')] = m
      BY <1>0, <2>1, <2>2, MarkerElements
    <2>4. /\ \A i \in DOMAIN markerRows : markerRows[i].number \in Nat
          /\ \A i \in DOMAIN markerQueue : markerQueue[i].number \in Nat
      <3>1. /\ \A i \in DOMAIN markerRows : markerRows[i] \in Marker
            /\ \A i \in DOMAIN markerQueue : markerQueue[i] \in Marker
        BY <1>0, LenProperties
      <3> QED
        BY <3>1 DEF Marker
    <2> QED
      BY <1>0, <2>1, <2>3, <2>4
  <1>4. CASE AddMarkerPut
    <2> DEFINE m == accepted[Len(accepted)]
    <2>1. /\ gpc = "put" /\ gpc' = "last"
          /\ markerQueue' = Append(markerQueue, m)
          /\ UNCHANGED <<markerRows, accepted, captures, nextMarker>>
      BY <1>4 DEF AddMarkerPut, config, files, markers
    <2>2. m \in Marker
      BY <1>0, <2>1, LenProperties, EmptySeq
    <2>3. /\ DOMAIN markerQueue' = 1 .. Len(markerQueue) + 1
          /\ Len(markerQueue) \in Nat /\ DOMAIN markerQueue = 1 .. Len(markerQueue)
          /\ \A i \in 1 .. Len(markerQueue) : markerQueue'[i] = markerQueue[i]
          /\ markerQueue'[Len(markerQueue) + 1] = m
      BY <1>0, <2>1, <2>2, MarkerElements
    <2> HIDE DEF m
    <2>4. /\ m.capture = captures /\ m.number < nextMarker
          /\ \A i \in DOMAIN markerRows : markerRows[i].number < m.number
          /\ \A j \in DOMAIN markerQueue : markerQueue[j].number < m.number
      BY <2>1 DEF m
    <2> QED
      BY <1>0, <2>1, <2>3, <2>4
  <1>5. CASE AddMarkerReturn
    BY <1>5 DEF AddMarkerReturn, config, files, markers
  <1>6. CASE DrainOne \/ \E raise \in WorkerPc : DrainRaises(raise)
    <2> DEFINE m == Head(markerQueue)
    <2>1. /\ markerQueue # <<>> /\ markerQueue' = Tail(markerQueue)
          /\ markerRows' \in {markerRows, Append(markerRows, m)}
          /\ UNCHANGED <<accepted, gpc, captures, nextMarker>>
      BY <1>6 DEF DrainOne, DrainRaises, config
    <2>2. /\ m \in Marker /\ m = markerQueue[1] /\ 1 \in DOMAIN markerQueue
          /\ DOMAIN markerQueue = 1 .. Len(markerQueue)
          /\ DOMAIN markerQueue' = 1 .. Len(markerQueue) - 1
          /\ Len(markerQueue) \in Nat
          /\ \A i \in 1 .. Len(markerQueue) - 1 :
                markerQueue'[i] = markerQueue[i + 1]
      BY <1>0, <2>1, MarkerElements, HeadTailProperties
    <2> HIDE DEF m
    <2>3. CASE markerRows' = markerRows
      BY <1>0, <2>1, <2>2, <2>3
    <2>4. CASE markerRows' = Append(markerRows, m)
      <3>1. /\ DOMAIN markerRows' = 1 .. Len(markerRows) + 1
            /\ Len(markerRows) \in Nat /\ DOMAIN markerRows = 1 .. Len(markerRows)
            /\ \A i \in 1 .. Len(markerRows) : markerRows'[i] = markerRows[i]
            /\ markerRows'[Len(markerRows) + 1] = m
        BY <1>0, <2>2, <2>4, MarkerElements
      <3>2. /\ m.capture = captures /\ m.number < nextMarker
            /\ \A i \in DOMAIN markerRows : markerRows[i].number < m.number
            /\ \A j \in DOMAIN markerQueue' : m.number < markerQueue'[j].number
        <4>1. m.capture = captures /\ m.number < nextMarker
          BY <2>2
        <4>2. \A i \in DOMAIN markerRows : markerRows[i].number < m.number
          BY <2>2
        <4>3. ASSUME NEW j \in DOMAIN markerQueue'
              PROVE  m.number < markerQueue'[j].number
          <5>1. /\ j + 1 \in DOMAIN markerQueue /\ 1 < j + 1
                /\ markerQueue'[j] = markerQueue[j + 1]
            BY <2>2, <4>3
          <5> QED
            BY <2>2, <5>1
        <4> QED
          BY <4>1, <4>2, <4>3
      <3>3. MarkersOnce'
        <4>1. ASSUME NEW i \in DOMAIN markerRows', NEW j \in DOMAIN markerRows',
                     i < j
              PROVE  markerRows'[i].number < markerRows'[j].number
          <5>1. i \in DOMAIN markerRows /\ markerRows'[i] = markerRows[i]
            BY <3>1, <4>1
          <5>2. CASE j = Len(markerRows) + 1
            BY <3>1, <3>2, <5>1, <5>2
          <5>3. CASE j # Len(markerRows) + 1
            <6>1. j \in DOMAIN markerRows /\ markerRows'[j] = markerRows[j]
              BY <3>1, <4>1, <5>3
            <6> QED
              BY <4>1, <5>1, <6>1
          <5> QED
            BY <5>2, <5>3
        <4>2. ASSUME NEW i \in DOMAIN markerRows'
              PROVE  markerRows'[i].capture = captures
          BY <3>1, <3>2
        <4> QED
          BY <2>1, <4>1, <4>2
      <3>4. \A i \in DOMAIN markerRows' :
               /\ markerRows'[i].number < nextMarker'
               /\ \A j \in DOMAIN markerQueue' :
                     markerRows'[i].number < markerQueue'[j].number
        BY <1>0, <2>1, <2>2, <3>1, <3>2
      <3>5. \A j \in DOMAIN markerQueue' :
               /\ markerQueue'[j].capture = captures'
               /\ markerQueue'[j].number < nextMarker'
               /\ \A k \in DOMAIN markerQueue' :
                     j < k => markerQueue'[j].number < markerQueue'[k].number
        BY <1>0, <2>1, <2>2
      <3>6. gpc' = "put" =>
               /\ accepted'[Len(accepted')].capture = captures'
               /\ accepted'[Len(accepted')].number < nextMarker'
               /\ \A i \in DOMAIN markerRows' :
                     markerRows'[i].number < accepted'[Len(accepted')].number
               /\ \A j \in DOMAIN markerQueue' :
                     markerQueue'[j].number < accepted'[Len(accepted')].number
        <4>1. SUFFICES ASSUME gpc = "put"
                       PROVE  /\ \A i \in DOMAIN markerRows' :
                                    markerRows'[i].number
                                      < accepted[Len(accepted)].number
                              /\ \A j \in DOMAIN markerQueue' :
                                    markerQueue'[j].number
                                      < accepted[Len(accepted)].number
          BY <2>1
        <4>2. m.number < accepted[Len(accepted)].number
          BY <2>2, <4>1
        <4>3. \A i \in DOMAIN markerRows' :
                 markerRows'[i].number < accepted[Len(accepted)].number
          BY <3>1, <4>1, <4>2
        <4> QED
          BY <2>2, <4>1, <4>3
      <3> QED
        BY <3>3, <3>4, <3>5, <3>6
    <2> QED
      BY <2>1, <2>3, <2>4
  <1> QED
    BY <1>1, <1>2, <1>3, <1>4, <1>5, <1>6, MarkersMove

(* After the stop request no marker is on its way, whoever moves.           *)
LEMMA AskedStep ==
  ASSUME TypeOK, StateInv, AskedInv, [Next]_vars
  PROVE  AskedInv'
  <1> USE DEF AskedInv, Opening, Looping, Closing, StateInv, Terminal, shared,
              gui, config, TypeOK, TypeOfControl
  <1>1. CASE UNCHANGED vars
    BY <1>1 DEF vars
  <1>2. CASE GuiStep
    <2>1. CASE \E onDisk, duration \in BOOLEAN : Start(onDisk, duration)
      BY <2>1 DEF Start
    <2>2. CASE Stop
      BY <2>2 DEF Stop
    <2>3. CASE AddMarkerAccept \/ AddMarkerPut \/ AddMarkerReturn
      BY <2>3 DEF AddMarkerAccept, AddMarkerPut, AddMarkerReturn
    <2> QED
      BY <1>2, <2>1, <2>2, <2>3 DEF GuiStep
  <1>3. CASE OpeningStep
    BY <1>3
       DEF OpeningStep, Lookup, OpenSession, OpenCsv, OpenMarkers, SetRunning
  <1>4. CASE LoopStep
    BY <1>4
       DEF LoopStep, TestStop, AppendSession, AppendCsv, DrainInLoop, Drain,
           DrainOne, DrainRaises, DrainEmpty, SkipPublish, PublishLive,
           PublishProgress
  <1>5. CASE ClosingStep
    <2>1. CASE LastDrain \/ ShowRest
      BY <2>1
         DEF LastDrain, Drain, DrainOne, DrainRaises, DrainEmpty, ShowRest
    <2>2. CASE CloseSession
      BY <2>2 DEF CloseSession, CloseSessionWith
    <2>3. CASE CloseCsv \/ CloseMarkers
      BY <2>3 DEF CloseCsv, CloseCsvWith, CloseMarkers, CloseMarkersWith
    <2>4. CASE SetStopped
      BY <2>4 DEF SetStopped
    <2> QED
      BY <1>5, <2>1, <2>2, <2>3, <2>4 DEF ClosingStep
  <1>6. CASE HandlerStep
    <2>1. CASE ErrShow \/ ErrDrain
      BY <2>1
         DEF ErrShow, ErrDrain, Drain, DrainOne, DrainRaises, DrainEmpty
    <2>2. CASE ErrEscape \/ ErrMarkers \/ ErrCsv
      BY <2>2
         DEF ErrEscape, ErrMarkers, ErrCsv, CloseMarkersWith, CloseCsvWith
    <2>3. CASE ErrSession
      BY <2>3 DEF ErrSession, CloseSessionWith
    <2>4. CASE SetError \/ ThreadEnds
      BY <2>4 DEF SetError, ThreadEnds
    <2> QED
      BY <1>6, <2>1, <2>2, <2>3, <2>4 DEF HandlerStep
  <1>7. CASE ChannelStep
    BY <1>7
       DEF ChannelStep, EnterChannel, EnterRaises, ReadFrame, ReadNone,
           ReadRaises, LeaveChannel, LeaveRaises, LeaveAfterError
  <1> QED
    BY <1>1, <1>2, <1>3, <1>4, <1>5, <1>6, <1>7 DEF Next, WorkerStep

(* A marker that moves from the queue to the file, or into the queue,       *)
(* leaves the line of the markers as it is.                                 *)
LEMMA LineOfMarkers ==
  \A r, q \in Seq(Marker) :
      /\ q # <<>> => /\ Append(r, Head(q)) \o Tail(q) = r \o q
                     /\ Len(Tail(q)) = Len(q) - 1 /\ Len(q) \in Nat
      /\ r \o <<>> = r /\ r \o q \in Seq(Marker)
      /\ \A m \in Marker : /\ r \o Append(q, m) = Append(r \o q, m)
                           /\ Len(Append(q, m)) = Len(q) + 1
                           /\ Append(r, m) # <<>>
  <1> SUFFICES ASSUME NEW r \in Seq(Marker), NEW q \in Seq(Marker)
               PROVE  /\ q # <<>> => /\ Append(r, Head(q)) \o Tail(q) = r \o q
                                     /\ Len(Tail(q)) = Len(q) - 1
                                     /\ Len(q) \in Nat
                      /\ r \o <<>> = r /\ r \o q \in Seq(Marker)
                      /\ \A m \in Marker :
                            /\ r \o Append(q, m) = Append(r \o q, m)
                            /\ Len(Append(q, m)) = Len(q) + 1
                            /\ Append(r, m) # <<>>
    OBVIOUS
  <1>1. ASSUME q # <<>>
        PROVE  /\ Append(r, Head(q)) \o Tail(q) = r \o q
               /\ Len(Tail(q)) = Len(q) - 1 /\ Len(q) \in Nat
    <2>1. Head(q) \in Marker /\ Tail(q) \in Seq(Marker)
          /\ Len(Tail(q)) = Len(q) - 1 /\ Len(q) \in Nat
      BY <1>1, HeadTailProperties, LenProperties
    <2>2. <<Head(q)>> \in Seq(Marker)
      BY <2>1
    <2>3. /\ Append(r, Head(q)) = r \o <<Head(q)>>
          /\ Append(r, Head(q)) \o Tail(q) = r \o (<<Head(q)>> \o Tail(q))
      BY <2>1, <2>2, AppendIsConcat, ConcatAssociative
    <2>4. <<Head(q)>> \o Tail(q) = q
      BY <1>1, <2>1
    <2> QED
      BY <2>1, <2>3, <2>4
  <1>2. r \o <<>> = r /\ r \o q \in Seq(Marker)
    BY ConcatEmptySeq, ConcatProperties
  <1>3. ASSUME NEW m \in Marker
        PROVE  /\ r \o Append(q, m) = Append(r \o q, m)
               /\ Len(Append(q, m)) = Len(q) + 1
               /\ Append(r, m) # <<>>
    <2>1. <<m>> \in Seq(Marker)
      OBVIOUS
    <2>2. Append(q, m) = q \o <<m>> /\ Append(r \o q, m) = (r \o q) \o <<m>>
      BY <1>2, AppendIsConcat
    <2> QED
      BY <2>1, <2>2, ConcatAssociative, AppendProperties, AppendTypes
  <1> QED
    BY <1>1, <1>2, <1>3

(* While nothing has raised: every place but the handler's and the end.     *)
Sound == Opening \cup Looping \cup Closing \cup {"leave", "lastDrain", "showRest"}

(* The line of the markers, from the file to the hand of add_marker.        *)
Line ==
    /\ markerCount + drained + Len(markerQueue) + Unput = Len(accepted)
    /\ persist => /\ gpc # "put" => markerRows \o markerQueue = accepted
                  /\ gpc = "put" => Append(markerRows \o markerQueue,
                                           accepted[Len(accepted)]) = accepted

(* The steps of a drain that raise nothing move the line as a whole.        *)
LEMMA LineOfDrain ==
  ASSUME TypeOK, Line, NEW next, DrainOne \/ DrainEmpty(next)
  PROVE  Line'
  <1> USE DEF Line, Unput, TypeOK, TypeOfCounts, TypeOfMarkers, TypeOfFiles
  <1>1. CASE DrainOne
    <2>1. /\ markerQueue # <<>> /\ markerQueue' = Tail(markerQueue)
          /\ markerRows' = IF persist THEN Append(markerRows, Head(markerQueue))
                                      ELSE markerRows
          /\ drained' = drained + 1
          /\ UNCHANGED <<markerCount, accepted, gpc, persist>>
      BY <1>1 DEF DrainOne, config
    <2>2. /\ Append(markerRows, Head(markerQueue)) \o Tail(markerQueue)
               = markerRows \o markerQueue
          /\ Len(Tail(markerQueue)) = Len(markerQueue) - 1
          /\ Len(markerQueue) \in Nat
      BY <2>1, LineOfMarkers
    <2>3. persist => markerRows' \o markerQueue' = markerRows \o markerQueue
      BY <2>1, <2>2
    <2>4. drained' + Len(markerQueue') = drained + Len(markerQueue)
      BY <2>1, <2>2
    <2>5. markerCount' + drained' + Len(markerQueue') + Unput' = Len(accepted')
      BY <2>1, <2>2, <2>4
    <2>6. persist' => /\ gpc' # "put" => markerRows' \o markerQueue' = accepted'
                      /\ gpc' = "put" => Append(markerRows' \o markerQueue',
                                               accepted'[Len(accepted')]) = accepted'
      BY <2>1, <2>3
    <2> QED
      BY <2>5, <2>6
  <1>2. CASE DrainEmpty(next)
    <2>1. /\ markerCount' = markerCount + drained /\ drained' = 0
          /\ UNCHANGED <<markerQueue, markerRows, accepted, gpc, persist>>
      BY <1>2 DEF DrainEmpty, gui, config, files, markers
    <2>2. Len(markerQueue) \in Nat
      BY LenProperties
    <2> QED
      BY <2>1, <2>2
  <1> QED
    BY <1>1, <1>2

(* Without a fault no marker is lost on its way.                            *)
LEMMA KeptStep ==
  ASSUME TypeOK, StateInv, MarkerInv, FooterInv, AskedInv, KeptInv, [Next]_vars
  PROVE  KeptInv'
  <1>0. /\ KeptInv <=> /\ wpc \in Sound => Line
                       /\ wpc \in Closing \cup {"showRest"} /\ ~timed /\ ~earlyStop
                            => markerQueue = <<>>
                       /\ OrdinaryStopKeepsMarkers
        /\ KeptInv' <=> /\ wpc' \in Sound => Line'
                        /\ wpc' \in Closing \cup {"showRest"} /\ ~timed' /\ ~earlyStop'
                             => markerQueue' = <<>>
                        /\ OrdinaryStopKeepsMarkers'
    BY DEF KeptInv, Sound, Line
  <1> DEFINE Same == UNCHANGED <<markerQueue, markerRows, accepted, gpc,
                                 markerCount, drained, persist, timed>>
  <1>1. ASSUME Same, wpc' \in Sound => wpc \in Sound,
               wpc' \in Closing \cup {"showRest"}
                 => wpc \in Closing \cup {"showRest"},
               state' = "stopped" => state = "stopped",
               earlyStop => earlyStop',
               state # "stopped" \/ shown' = shown
        PROVE  KeptInv'
    <2>1. Line' <=> Line
      BY <1>1 DEF Line, Unput
    <2>2. OrdinaryStopKeepsMarkers'
      BY <1>0, <1>1 DEF OrdinaryStopKeepsMarkers
    <2> QED
      BY <1>0, <1>1, <2>1, <2>2
  <1> USE DEF shared, gui, config, counts, session, csv, markers, files, input,
              view, Sound, Opening, Looping, Closing, StateInv, Terminal
  <1>2. CASE UNCHANGED vars
    BY <1>1, <1>2 DEF vars
  <1>3. CASE GuiStep
    <2>1. CASE \E onDisk, duration \in BOOLEAN : Start(onDisk, duration)
      <3>1. /\ markerQueue' = <<>> /\ accepted' = <<>> /\ markerRows' = <<>>
            /\ markerCount' = 0 /\ drained' = 0 /\ gpc' = "idle"
            /\ state' = "starting"
        BY <2>1 DEF Start, ResetMarkers
      <3>2. <<>> \o <<>> = <<>> /\ Len(<<>>) = 0
        OBVIOUS
      <3> QED
        BY <1>0, <3>1, <3>2 DEF Line, Unput, OrdinaryStopKeepsMarkers
    <2>2. CASE Stop
      BY <1>1, <2>2 DEF Stop
    <2>3. CASE AddMarkerAccept
      <3> DEFINE m == [capture |-> captures, number |-> nextMarker]
      <3>1. /\ gpc = "idle" /\ gpc' = "put" /\ state = "running"
            /\ accepted' = Append(accepted, m)
            /\ UNCHANGED <<state, markerQueue, markerRows, markerCount, drained,
                           persist, timed, earlyStop, wpc>>
        BY <2>3 DEF AddMarkerAccept
      <3>2. m \in Marker /\ accepted \in Seq(Marker)
        BY DEF Marker, TypeOK, TypeOfCounts, TypeOfMarkers
      <3>3. /\ accepted'[Len(accepted')] = m
            /\ Len(accepted') = Len(accepted) + 1 /\ Len(accepted) \in Nat
        BY <3>1, <3>2, MarkerElements
      <3>4. Line => Line'
        <4>1. /\ markerCount \in Nat /\ drained \in Nat
              /\ Len(markerQueue) \in Nat
          BY LenProperties DEF TypeOK, TypeOfCounts, TypeOfMarkers
        <4>2. Line => markerCount' + drained' + Len(markerQueue') + Unput'
                        = Len(accepted')
          BY <3>1, <3>3, <4>1 DEF Line, Unput
        <4>3. Line /\ persist =>
                Append(markerRows \o markerQueue, m) = accepted'
          BY <3>1 DEF Line
        <4> HIDE DEF m
        <4>4. Line /\ persist' =>
                 Append(markerRows' \o markerQueue', accepted'[Len(accepted')])
                   = accepted'
          BY <3>1, <3>3, <4>3
        <4> QED
          BY <3>1, <4>2, <4>4 DEF Line
      <3> QED
        BY <1>0, <3>1, <3>4 DEF OrdinaryStopKeepsMarkers
    <2>4. CASE AddMarkerPut
      <3> DEFINE m == accepted[Len(accepted)]
      <3>1. /\ gpc = "put" /\ gpc' = "last"
            /\ markerQueue' = Append(markerQueue, m)
            /\ UNCHANGED <<state, markerRows, accepted, markerCount, drained,
                           persist, timed, earlyStop, wpc>>
        BY <2>4 DEF AddMarkerPut
      <3>2. /\ m \in Marker /\ markerQueue \in Seq(Marker)
            /\ markerRows \in Seq(Marker)
        BY <3>1, LenProperties, EmptySeq DEF TypeOK, TypeOfMarkers, TypeOfFiles
      <3>3. Line => Line'
        <4>1. /\ markerCount \in Nat /\ drained \in Nat
              /\ Len(markerQueue) \in Nat
          BY LenProperties DEF TypeOK, TypeOfCounts, TypeOfMarkers
        <4>2. /\ Len(markerQueue') = Len(markerQueue) + 1
              /\ markerRows' \o markerQueue' = Append(markerRows \o markerQueue, m)
          BY <3>1, <3>2, LineOfMarkers
        <4> HIDE DEF m
        <4>3. Line => /\ markerCount + drained + Len(markerQueue) + 1 = Len(accepted)
                      /\ persist => Append(markerRows \o markerQueue, m) = accepted
          BY <3>1 DEF Line, Unput, m
        <4> QED
          BY <3>1, <4>1, <4>2, <4>3 DEF Line, Unput
      <3>4. wpc \in Closing \cup {"showRest"} => timed \/ earlyStop
        BY <3>1 DEF AskedInv
      <3>5. OrdinaryStopKeepsMarkers'
        BY <1>0, <3>1 DEF OrdinaryStopKeepsMarkers
      <3> QED
        BY <1>0, <3>1, <3>3, <3>4, <3>5
    <2>5. CASE AddMarkerReturn
      <3>1. /\ gpc = "last" /\ gpc' = "idle"
            /\ UNCHANGED <<state, markerQueue, markerRows, accepted, markerCount,
                           drained, persist, timed, earlyStop, wpc, shown>>
        BY <2>5 DEF AddMarkerReturn
      <3>2. Line => Line'
        BY <3>1 DEF Line, Unput
      <3> QED
        BY <1>0, <3>1, <3>2 DEF OrdinaryStopKeepsMarkers
    <2> QED
      BY <1>3, <2>1, <2>2, <2>3, <2>4, <2>5 DEF GuiStep
  <1>4. CASE OpeningStep
    BY <1>1, <1>4
       DEF OpeningStep, Lookup, OpenSession, OpenCsv, OpenMarkers, SetRunning
  <1>5. ASSUME NEW next, NEW raise, wpc \in {"drain", "lastDrain", "errDrain"},
               Drain(next, raise), raise \notin Sound,
               next \in Closing \cup {"showRest"} => wpc = "lastDrain"
                                                       /\ next = "showRest",
               next \in Sound => wpc \in Sound
        PROVE  KeptInv'
    <2>1. state # "stopped" /\ UNCHANGED <<state, timed, earlyStop>>
      BY <1>5 DEF Drain, DrainOne, DrainRaises, DrainEmpty
    <2>2. OrdinaryStopKeepsMarkers'
      BY <2>1 DEF OrdinaryStopKeepsMarkers
    <2>3. CASE DrainOne
      <3>1. wpc' = wpc
        BY <2>3 DEF DrainOne
      <3> QED
        BY <1>0, <1>5, <2>2, <2>3, <3>1, LineOfDrain
    <2>4. CASE DrainRaises(raise)
      <3>1. wpc' \notin Sound
        BY <1>5, <2>4 DEF DrainRaises
      <3> QED
        BY <1>0, <2>2, <3>1
    <2>5. CASE DrainEmpty(next)
      <3>1. wpc' = next /\ markerQueue' = <<>>
        BY <2>5 DEF DrainEmpty
      <3>2. wpc \in Sound => Line'
        BY <1>0, <2>5, LineOfDrain
      <3> QED
        BY <1>0, <1>5, <2>2, <3>1, <3>2
    <2> QED
      BY <1>5, <2>3, <2>4, <2>5 DEF Drain
  <1>6. CASE LoopStep
    <2>1. CASE DrainInLoop
      BY <1>5, <2>1 DEF DrainInLoop
    <2>2. CASE AppendSession
      BY <1>1, <2>2 DEF AppendSession
    <2>3. CASE AppendCsv
      BY <1>1, <2>3 DEF AppendCsv
    <2>4. CASE PublishProgress
      BY <1>1, <2>4 DEF PublishProgress
    <2>5. CASE TestStop \/ SkipPublish \/ PublishLive
      BY <1>1, <2>5 DEF TestStop, SkipPublish, PublishLive
    <2> QED
      BY <1>6, <2>1, <2>2, <2>3, <2>4, <2>5 DEF LoopStep
  <1>7. CASE ClosingStep
    <2>1. CASE LastDrain
      BY <1>5, <2>1 DEF LastDrain
    <2>2. CASE ShowRest
      BY <1>1, <2>2 DEF ShowRest
    <2>3. CASE CloseSession
      BY <1>1, <2>3 DEF CloseSession, CloseSessionWith
    <2>4. CASE CloseCsv
      BY <1>1, <2>4 DEF CloseCsv, CloseCsvWith
    <2>5. CASE CloseMarkers
      BY <1>1, <2>5 DEF CloseMarkers, CloseMarkersWith
    <2>6. CASE SetStopped
      <3>1. /\ wpc = "setStopped" /\ wpc' = "dying" /\ state' = "stopped"
            /\ Same /\ UNCHANGED <<shown, earlyStop>>
        BY <2>6 DEF SetStopped
      <3>2. shown = [frames |-> frameCount, markers |-> markerCount]
        BY <3>1 DEF FooterInv
      <3>3. Line /\ drained \in Nat /\ markerCount \in Nat
        BY <1>0, <3>1 DEF TypeOK, TypeOfCounts
      <3>4. ASSUME ~timed, ~earlyStop
            PROVE  /\ gpc = "idle" /\ markerQueue = <<>>
                   /\ markerCount + drained = Len(accepted)
                   /\ persist => markerRows = accepted
        <4>1. gpc = "idle" /\ markerQueue = <<>>
          BY <1>0, <3>1, <3>4 DEF AskedInv
        <4>2. Len(markerQueue) = 0 /\ markerRows \o markerQueue = markerRows
          BY <4>1, LineOfMarkers DEF TypeOK, TypeOfFiles
        <4> QED
          BY <3>3, <4>1, <4>2 DEF Line, Unput
      <3>5. drained = 0
        BY <3>1 DEF MarkerInv
      <3>6. OrdinaryStopKeepsMarkers'
        BY <3>1, <3>2, <3>3, <3>4, <3>5 DEF OrdinaryStopKeepsMarkers
      <3> QED
        BY <1>0, <3>1, <3>6
    <2> QED
      BY <1>7, <2>1, <2>2, <2>3, <2>4, <2>5, <2>6 DEF ClosingStep
  <1>8. CASE HandlerStep
    <2>1. CASE ErrDrain
      BY <1>5, <2>1 DEF ErrDrain
    <2>2. CASE ErrShow \/ SetError \/ ThreadEnds
      BY <1>1, <2>2 DEF ErrShow, SetError, ThreadEnds
    <2>3. CASE ErrSession
      BY <1>1, <2>3 DEF ErrSession, CloseSessionWith
    <2>4. CASE ErrCsv
      BY <1>1, <2>4 DEF ErrCsv, CloseCsvWith
    <2>5. CASE ErrEscape \/ ErrMarkers
      BY <1>1, <2>5 DEF ErrEscape, ErrMarkers, CloseMarkersWith
    <2> QED
      BY <1>8, <2>1, <2>2, <2>3, <2>4, <2>5 DEF HandlerStep
  <1>9. CASE ChannelStep
    BY <1>1, <1>9
       DEF ChannelStep, EnterChannel, EnterRaises, ReadFrame, ReadNone,
           ReadRaises, LeaveChannel, LeaveRaises, LeaveAfterError
  <1> QED
    BY <1>2, <1>3, <1>4, <1>6, <1>7, <1>8, <1>9 DEF Next, WorkerStep

-----------------------------------------------------------------------------
(* The service implements the recorder.                                     *)

(* What RecordingInv says is true after every step.                         *)
LEMMA RecordingStep ==
  ASSUME TypeOK, RecordingInv, [Next]_vars
  PROVE  RecordingInv'
  <1> USE DEF RecordingInv, TypeOK, TypeOfCounts, shared, gui, config, counts,
              session, csv, markers, files, input, view
  <1>1. CASE UNCHANGED vars
    BY <1>1 DEF vars
  <1>2. CASE GuiStep
    BY <1>2, BoundsAssumption
       DEF GuiStep, Start, Stop, AddMarkerAccept, AddMarkerPut,
           AddMarkerReturn
  <1>3. CASE OpeningStep
    BY <1>3
       DEF OpeningStep, Lookup, OpenSession, OpenCsv, OpenMarkers, SetRunning
  <1>4. CASE LoopStep
    BY <1>4
       DEF LoopStep, TestStop, AppendSession, AppendCsv, DrainInLoop, Drain,
           DrainOne, DrainRaises, DrainEmpty, SkipPublish, PublishLive,
           PublishProgress
  <1>5. CASE ClosingStep
    BY <1>5
       DEF ClosingStep, LastDrain, Drain, DrainOne, DrainRaises, DrainEmpty,
           ShowRest, CloseSession, CloseSessionWith, CloseCsv, CloseCsvWith,
           CloseMarkers, CloseMarkersWith, SetStopped
  <1>6. CASE HandlerStep
    BY <1>6
       DEF HandlerStep, ErrShow, ErrDrain, Drain, DrainOne, DrainRaises,
           DrainEmpty, ErrEscape, ErrMarkers, ErrSession, ErrCsv,
           CloseMarkersWith, CloseSessionWith, CloseCsvWith, SetError,
           ThreadEnds
  <1>7. CASE ChannelStep
    BY <1>7, BoundsAssumption
       DEF ChannelStep, EnterChannel, EnterRaises, ReadFrame, ReadNone,
           ReadRaises, LeaveChannel, LeaveRaises, LeaveAfterError
  <1> QED
    BY <1>1, <1>2, <1>3, <1>4, <1>5, <1>6, <1>7 DEF Next, WorkerStep

(* A worker in its routine runs an active capture.                          *)
LEMMA ActivePhase ==
  ASSUME IInv, RecordingInv, wpc \notin {"none", "dying", "dead"}
  PROVE  Phase = "active" /\ state \in Active
  BY DEF IInv, RecordingInv, StateInv, TypeOK, TypeOfControl, CaptureState,
         Terminal, Active, Phase

(* The recorder's log is what the view and the worker hold, in persist mode *)
(* with at most the one frame that is on its way through the files.         *)
LEMMA RecordedFacts ==
  ASSUME IInv
  PROVE  /\ live \in Seq(Nat) /\ pendingLive \in Seq(Nat)
         /\ Counted \in Seq(Nat) /\ Recorded \in Seq(Nat)
         /\ Recorded \in {Counted, Append(Counted, frame)}
         /\ Len(live) \in Nat
         /\ wpc \notin Handling \cup Ended
              => Counted = live \o pendingLive
  <1>1. /\ live \in Seq(Nat) /\ pendingLive \in Seq(Nat) /\ frame \in Nat
        /\ sessionRows \in Seq(Nat)
    BY DEF IInv, TypeOK, TypeOfFrames, TypeOfCounts, TypeOfFiles
  <1>2. Counted \in Seq(Nat) /\ Len(live) \in Nat
    BY <1>1, ConcatTypes, LenProperties DEF Counted
  <1>3. Recorded \in {Counted, Append(Counted, frame)}
    BY DEF IInv, FrameInv, Recorded
  <1> QED
    BY <1>1, <1>2, <1>3 DEF Recorded, Counted

(* Showing the waiting frames presents more of the log.                     *)
LEMMA ShownIsPresent ==
  ASSUME IInv, wpc \notin Handling \cup Ended
  PROVE  \E n \in Len(live) .. Len(Recorded) :
            live \o pendingLive = SubSeq(Recorded, 1, n)
  <1> DEFINE s == live \o pendingLive
  <1>1. /\ s \in Seq(Nat) /\ Len(live) \in Nat /\ Len(s) \in Nat
        /\ Len(live) <= Len(s) /\ Recorded \in {s, Append(s, frame)}
    <2>1. /\ live \in Seq(Nat) /\ pendingLive \in Seq(Nat) /\ s = Counted
          /\ Recorded \in {Counted, Append(Counted, frame)}
      BY RecordedFacts
    <2>2. /\ s \in Seq(Nat) /\ Len(live) \in Nat /\ Len(pendingLive) \in Nat
          /\ Len(s) = Len(live) + Len(pendingLive)
      BY <2>1, ConcatTypes, LenProperties
    <2> QED
      BY <2>1, <2>2
  <1>2. frame \in Nat
    BY DEF IInv, TypeOK, TypeOfCounts
  <1> HIDE DEF s
  <1>3. CASE Recorded = s
    <2>1. SubSeq(Recorded, 1, Len(s)) = s /\ Len(s) \in Len(live) .. Len(Recorded)
      BY <1>1, <1>3, Prefixes
    <2> QED
      BY <2>1 DEF s
  <1>4. CASE Recorded = Append(s, frame)
    <2>1. SubSeq(Recorded, 1, Len(s)) = s /\ Len(s) \in Len(live) .. Len(Recorded)
      BY <1>1, <1>2, <1>4, Prefixes
    <2> QED
      BY <2>1 DEF s
  <1> QED
    BY <1>1, <1>3, <1>4

(* Every step of the service is a step of the recorder or none of its.      *)
LEMMA RecorderStep ==
  ASSUME IInv, RecordingInv, [Next]_vars
  PROVE  [Recorder!Next]_(Recorder!vars)
  <1> DEFINE Quiet == UNCHANGED <<Phase, Recorded, live>>
  <1>1. ASSUME Quiet PROVE [Recorder!Next]_(Recorder!vars)
    BY <1>1 DEF Recorder!vars
  <1>2. ASSUME Phase = "active", UNCHANGED <<Phase, live>>,
               Recorded' = Append(Recorded, frame'), frame' \in 0 .. MaxFrames
        PROVE  [Recorder!Next]_(Recorder!vars)
    BY <1>2 DEF Recorder!Next, Recorder!Record
  <1>3. ASSUME Phase = "active", UNCHANGED <<Phase, Recorded>>,
               live' = live \o pendingLive, wpc \notin Handling \cup Ended
        PROVE  [Recorder!Next]_(Recorder!vars)
    <2>1. Recorder!Present
      BY <1>3, ShownIsPresent DEF Recorder!Present
    <2> QED
      BY <2>1 DEF Recorder!Next
  <1>4. /\ TypeOK /\ StateInv /\ FrameInv /\ HandleInv
        /\ frame \in 0 .. MaxFrames
    BY BoundsAssumption DEF IInv, RecordingInv, TypeOK, TypeOfCounts
  (* Steps inside the routine that move neither the files nor the view.     *)
  <1>5. ASSUME UNCHANGED <<live, sessionRows, persist, pendingLive>>,
               wpc \notin {"none", "dying", "dead"}, wpc' # "dead",
               state' \in Active,
               wpc' \in Handling \cup Ended <=> wpc \in Handling \cup Ended
        PROVE  [Recorder!Next]_(Recorder!vars)
    <2>1. Phase = "active" /\ Phase' = "active"
      BY <1>5, ActivePhase DEF Active, Phase
    <2>2. Recorded' = Recorded
      BY <1>5 DEF Recorded, Counted
    <2> QED
      BY <1>1, <1>5, <2>1, <2>2
  <1> USE DEF shared, gui, config, counts, session, csv, markers, files, input,
              view, Handling, Ended
  <1>6. CASE UNCHANGED vars
    BY <1>1, <1>6 DEF vars, Phase, Recorded, Counted
  <1>7. CASE GuiStep
    <2>1. CASE \E onDisk, duration \in BOOLEAN : Start(onDisk, duration)
      <3>1. /\ wpc \in {"none", "dead"} /\ wpc' = "lookup"
            /\ state' = "starting" /\ live' = <<>> /\ pendingLive' = <<>>
            /\ sessionRows' = <<>>
        BY <2>1 DEF Start, Alive
      <3>2. Phase # "active" /\ Phase' = "active"
        BY <1>4, <3>1 DEF StateInv, Phase, Active
      <3>3. Recorded' = <<>>
        BY <3>1, EmptyConcat DEF Recorded, Counted
      <3> QED
        BY <3>1, <3>2, <3>3 DEF Recorder!Next, Recorder!Begin
    <2>2. CASE Stop
      <3>1. UNCHANGED <<live, sessionRows, persist, pendingLive, wpc>>
        BY <2>2 DEF Stop
      <3>2. Phase' = Phase
        BY <2>2, <3>1 DEF Stop, Phase, Active
      <3>3. Recorded' = Recorded
        BY <3>1 DEF Recorded, Counted
      <3> QED
        BY <1>1, <3>1, <3>2, <3>3
    <2>3. CASE AddMarkerAccept \/ AddMarkerPut \/ AddMarkerReturn
      <3>1. UNCHANGED <<live, sessionRows, persist, pendingLive, wpc, state>>
        BY <2>3 DEF AddMarkerAccept, AddMarkerPut, AddMarkerReturn
      <3> QED
        BY <1>1, <3>1 DEF Phase, Recorded, Counted
    <2> QED
      BY <1>7, <2>1, <2>2, <2>3 DEF GuiStep
  <1>8. CASE OpeningStep
    <2>1. wpc \in Opening
      BY <1>8
         DEF OpeningStep, Lookup, OpenSession, OpenCsv, OpenMarkers,
             SetRunning, Opening
    <2>2. state \in Active
      BY <2>1, ActivePhase DEF Opening
    <2>3. /\ UNCHANGED <<live, sessionRows, persist, pendingLive>>
          /\ wpc' \notin Handling \cup Ended /\ state' \in Active
      BY <1>8, <2>2
         DEF OpeningStep, Lookup, OpenSession, OpenCsv, OpenMarkers,
             SetRunning, Active
    <2> QED
      BY <1>5, <2>1, <2>3 DEF Opening
  <1>9. ASSUME NEW next, NEW raise, Drain(next, raise),
               wpc \in {"drain", "lastDrain", "errDrain"},
               wpc = "errDrain" => next \in Handling /\ raise \in Handling,
               wpc # "errDrain" => next \notin Handling \cup Ended
                                     /\ raise \notin Handling \cup Ended
        PROVE  [Recorder!Next]_(Recorder!vars)
    <2>1. /\ UNCHANGED <<live, sessionRows, persist, pendingLive, state>>
          /\ wpc' \in {wpc, next, raise}
      BY <1>9 DEF Drain, DrainOne, DrainRaises, DrainEmpty
    <2>2. state' \in Active
      BY <1>9, <2>1, ActivePhase
    <2> QED
      BY <1>5, <1>9, <2>1, <2>2
  <1>10. CASE LoopStep
    <2>1. CASE DrainInLoop
      BY <1>9, <2>1 DEF DrainInLoop
    <2>2. CASE TestStop \/ SkipPublish
      <3>1. /\ wpc \in Looping /\ wpc' \in Looping \cup {"leave"}
            /\ UNCHANGED <<live, sessionRows, persist, pendingLive, state>>
        BY <2>2 DEF TestStop, SkipPublish, Looping
      <3> QED
        BY <1>5, <3>1, ActivePhase DEF Looping
    <2>3. CASE PublishProgress
      <3>1. /\ wpc \in {"progress", "lastProgress", "errProgress"}
            /\ wpc = "progress" => wpc' = "test"
            /\ wpc = "lastProgress" => wpc' = "setStopped"
            /\ wpc = "errProgress" => wpc' = "setError"
            /\ UNCHANGED <<live, sessionRows, persist, pendingLive, state>>
        BY <2>3 DEF PublishProgress
      <3>2. state' \in Active
        BY <3>1, ActivePhase
      <3> QED
        BY <1>5, <3>1, <3>2
    <2>4. CASE AppendSession
      <3>1. /\ wpc = "session" /\ wpc' \in {"csv", "leaveErr"}
            /\ sessionRows' \in {sessionRows, Append(sessionRows, frame)}
            /\ UNCHANGED <<live, persist, pendingLive, state, frame>>
        BY <2>4 DEF AppendSession
      <3>2. persist /\ Phase = "active" /\ Phase' = "active"
        BY <1>4, <3>1, ActivePhase DEF StateInv, OnDiskOnly, Phase, Active
      <3>3. CASE sessionRows' = sessionRows
        BY <1>5, <3>1, <3>3, ActivePhase
      <3>4. CASE sessionRows' = Append(sessionRows, frame)
        BY <1>2, <1>4, <3>1, <3>2, <3>4 DEF Recorded
      <3> QED
        BY <3>1, <3>3, <3>4
    <2>5. CASE AppendCsv
      <3>1. /\ wpc = "csv" /\ wpc' \in {"drain", "leaveErr"}
            /\ UNCHANGED <<live, sessionRows, persist, state>>
        BY <2>5 DEF AppendCsv
      <3>2. persist /\ Phase = "active" /\ Phase' = "active"
        BY <1>4, <3>1, ActivePhase DEF StateInv, OnDiskOnly, Phase, Active
      <3> QED
        BY <1>1, <3>1, <3>2 DEF Recorded
    <2>6. CASE PublishLive
      <3>1. /\ wpc = "publish" /\ wpc' = "progress"
            /\ live' = live \o pendingLive /\ pendingLive' = <<>>
            /\ UNCHANGED <<sessionRows, persist, state>>
        BY <2>6 DEF PublishLive
      <3>2. Phase = "active" /\ Phase' = "active"
        BY <3>1, ActivePhase DEF Phase, Active
      <3>3. Recorded' = Recorded
        <4>1. live' \o pendingLive' = live \o pendingLive
          BY <3>1, RecordedFacts, ConcatTypes, EmptyConcat
        <4> QED
          BY <3>1, <4>1 DEF Recorded, Counted
      <3> QED
        BY <1>3, <3>1, <3>2, <3>3
    <2> QED
      BY <1>10, <2>1, <2>2, <2>3, <2>4, <2>5, <2>6 DEF LoopStep
  <1>11. CASE ClosingStep
    <2>1. CASE LastDrain
      BY <1>9, <2>1 DEF LastDrain
    <2>2. CASE ShowRest
      <3>1. /\ wpc = "showRest" /\ wpc' \in {"closeSession", "lastProgress"}
            /\ live' = live \o pendingLive /\ pendingLive' = <<>>
            /\ UNCHANGED <<sessionRows, persist, state>>
        BY <2>2 DEF ShowRest
      <3>2. Phase = "active" /\ Phase' = "active"
        BY <3>1, ActivePhase DEF Phase, Active
      <3>3. Recorded' = Recorded
        <4>1. live' \o pendingLive' = live \o pendingLive
          BY <3>1, RecordedFacts, ConcatTypes, EmptyConcat
        <4> QED
          BY <3>1, <4>1 DEF Recorded, Counted
      <3> QED
        BY <1>3, <3>1, <3>2, <3>3
    <2>3. CASE CloseSession \/ CloseCsv \/ CloseMarkers
      <3>1. /\ wpc \in Closing
            /\ wpc' \in {"closeCsv", "closeMarkers", "lastProgress", "errShow"}
            /\ UNCHANGED <<live, sessionRows, persist, pendingLive, state>>
        BY <2>3
           DEF CloseSession, CloseSessionWith, CloseCsv, CloseCsvWith,
               CloseMarkers, CloseMarkersWith, Closing
      <3>2. state' \in Active
        BY <3>1, ActivePhase DEF Closing
      <3> QED
        BY <1>5, <3>1, <3>2 DEF Closing
    <2>4. CASE SetStopped
      <3>1. /\ wpc = "setStopped" /\ wpc' = "dying" /\ state' = "stopped"
            /\ UNCHANGED <<live, sessionRows, persist, pendingLive>>
        BY <2>4 DEF SetStopped
      <3>2. pendingLive = <<>> /\ Counted = live \o pendingLive
        BY <1>4, <3>1 DEF FrameInv, Closing, Counted
      <3>3. Counted = live /\ Counted' = live
        BY <3>1, <3>2, RecordedFacts, EmptyConcat DEF Counted
      <3>4. Recorded = live /\ Recorded' = live
        BY <1>4, <3>1, <3>3 DEF FrameInv, Closing, Recorded
      <3>5. Phase = "active" /\ Phase' = "done"
        BY <3>1, ActivePhase DEF Phase, Active
      <3>6. Recorder!Finish
        BY <3>1, <3>4, <3>5 DEF Recorder!Finish
      <3> QED
        BY <3>6 DEF Recorder!Next
    <2> QED
      BY <1>11, <2>1, <2>2, <2>3, <2>4 DEF ClosingStep
  <1>12. CASE HandlerStep
    <2>1. CASE ErrShow
      <3>1. /\ wpc = "errShow" /\ wpc' = "errDrain"
            /\ live' = live \o pendingLive
            /\ UNCHANGED <<sessionRows, persist, state, pendingLive>>
        BY <2>1 DEF ErrShow
      <3>2. Phase = "active" /\ Phase' = "active"
        BY <3>1, ActivePhase DEF Phase, Active
      <3>3. Recorded' = Recorded
        BY <3>1 DEF Recorded, Counted
      <3> QED
        BY <1>3, <3>1, <3>2, <3>3
    <2>2. CASE ErrDrain
      BY <1>9, <2>2 DEF ErrDrain
    <2>3. CASE ErrEscape \/ ErrMarkers \/ ErrSession \/ ErrCsv
      <3>1. /\ wpc \in Handling
            /\ wpc' \in {"dying", "errSession", "errCsv", "errProgress"}
            /\ UNCHANGED <<live, sessionRows, persist, pendingLive, state>>
        BY <2>3
           DEF ErrEscape, ErrMarkers, ErrSession, ErrCsv, CloseSessionWith,
               CloseCsvWith, CloseMarkersWith
      <3>2. state' \in Active
        BY <3>1, ActivePhase
      <3> QED
        BY <1>5, <3>1, <3>2
    <2>4. CASE SetError
      <3>1. /\ wpc = "setError" /\ wpc' = "dying" /\ state' = "error"
            /\ UNCHANGED <<live, sessionRows, persist, pendingLive>>
        BY <2>4 DEF SetError
      <3>2. Phase = "active" /\ Phase' = "failed"
        BY <3>1, ActivePhase DEF Phase, Active
      <3>3. Recorded' = Recorded
        BY <3>1 DEF Recorded, Counted
      <3>4. Recorder!Fail
        BY <3>1, <3>2, <3>3 DEF Recorder!Fail
      <3> QED
        BY <3>4 DEF Recorder!Next
    <2>5. CASE ThreadEnds
      <3>1. /\ wpc = "dying" /\ wpc' = "dead"
            /\ UNCHANGED <<live, sessionRows, persist, pendingLive, state>>
        BY <2>5 DEF ThreadEnds
      <3>2. Recorded' = Recorded
        BY <3>1 DEF Recorded, Counted
      <3>3. CASE state \in Active
        <4>1. Phase = "active" /\ Phase' = "abandoned"
          BY <3>1, <3>3 DEF Phase, Active
        <4>2. Recorder!Fail
          BY <3>1, <3>2, <4>1 DEF Recorder!Fail
        <4> QED
          BY <4>2 DEF Recorder!Next
      <3>4. CASE state \notin Active
        <4>1. Phase' = Phase
          BY <1>4, <3>1, <3>4
             DEF Phase, Active, TypeOK, TypeOfControl, CaptureState
        <4> QED
          BY <1>1, <3>1, <3>2, <4>1
      <3> QED
        BY <3>3, <3>4
    <2> QED
      BY <1>12, <2>1, <2>2, <2>3, <2>4, <2>5 DEF HandlerStep
  <1>13. CASE ChannelStep
    <2>1. CASE nextFrame < MaxFrames /\ ReadFrame(nextFrame)
      <3>1. /\ wpc = "read" /\ wpc' \in {"session", "drain"}
            /\ frame' = nextFrame
            /\ IF persist THEN pendingLive' = pendingLive
                 ELSE pendingLive' = Append(pendingLive, nextFrame)
            /\ UNCHANGED <<live, sessionRows, persist, state>>
        BY <2>1 DEF ReadFrame
      <3>2. Phase = "active" /\ Phase' = "active"
        BY <3>1, ActivePhase DEF Phase, Active
      <3>3. nextFrame \in Nat /\ nextFrame \in 0 .. MaxFrames
        BY <1>4, <2>1, BoundsAssumption DEF TypeOK, TypeOfCounts
      <3>4. CASE persist
        BY <1>1, <3>1, <3>2, <3>4 DEF Recorded
      <3>5. CASE ~persist
        <4>1. /\ Recorded = live \o pendingLive
              /\ Recorded' = live \o Append(pendingLive, nextFrame)
          BY <3>1, <3>5 DEF Recorded, Counted
        <4>2. Recorded' = Append(Recorded, frame')
          BY <3>1, <3>3, <4>1, RecordedFacts, ConcatAppend
        <4> QED
          BY <1>2, <3>1, <3>2, <3>3, <4>2
      <3> QED
        BY <3>4, <3>5
    <2>2. CASE EnterChannel \/ EnterRaises \/ ReadNone \/ ReadRaises
               \/ LeaveChannel \/ LeaveRaises \/ LeaveAfterError
      <3>1. /\ wpc \in {"enter", "read", "leave", "leaveErr"}
            /\ wpc' \in {"running", "errShow", "drain", "leaveErr", "lastDrain"}
            /\ UNCHANGED <<live, sessionRows, persist, pendingLive, state>>
        BY <2>2
           DEF EnterChannel, EnterRaises, ReadNone, ReadRaises, LeaveChannel,
               LeaveRaises, LeaveAfterError
      <3>2. state' \in Active
        BY <3>1, ActivePhase
      <3> QED
        BY <1>5, <3>1, <3>2
    <2> QED
      BY <1>13, <2>1, <2>2 DEF ChannelStep
  <1> QED
    BY <1>6, <1>7, <1>8, <1>10, <1>11, <1>12, <1>13 DEF Next, WorkerStep

(* Initially nothing was accepted, and the recorder is idle.                *)
LEMMA InitMarkers == Init => MarkersInv /\ RecordingInv
  <1> SUFFICES ASSUME Init PROVE MarkersInv /\ RecordingInv
    OBVIOUS
  <1> USE DEF Init
  <1>1. OrderInv
    BY DEF OrderInv, MarkersOnce
  <1>2. AskedInv
    BY DEF AskedInv, Opening, Closing
  <1>3. KeptInv
    BY DEF KeptInv, OrdinaryStopKeepsMarkers, Opening, Looping, Closing
  <1>4. RecordingInv
    BY BoundsAssumption DEF RecordingInv
  <1> QED
    BY <1>1, <1>2, <1>3, <1>4 DEF MarkersInv

LEMMA InitRecorder == Init => Recorder!Init
  <1> SUFFICES ASSUME Init PROVE Recorder!Init
    OBVIOUS
  <1>1. Phase = "idle"
    BY DEF Init, Phase, Active
  <1>2. Recorded = <<>> /\ live = <<>>
    BY DEF Init, Recorded, Counted, Ended
  <1> QED
    BY <1>1, <1>2 DEF Recorder!Init

(* The invariant of the markers holds beside that of the service.           *)
THEOREM MarkersInvariant == Spec => [](MarkersInv /\ RecordingInv)
  <1>1. IInv /\ MarkersInv /\ RecordingInv /\ [Next]_vars
          => (MarkersInv /\ RecordingInv)'
    BY OrderStep, AskedStep, KeptStep, RecordingStep DEF IInv, MarkersInv
  <1> QED
    BY <1>1, InitMarkers, InductiveInvariant, PTL DEF Spec

(* No marker is doubled or put out of order, and a capture that ends by an  *)
(* ordinary stop has all the markers the operator set.                      *)
THEOREM NoMarkerLost == Spec => []MarkersKept
  <1>1. MarkersInv => MarkersKept
    BY DEF MarkersInv, OrderInv, KeptInv, MarkersKept
  <1> QED
    BY <1>1, MarkersInvariant, PTL

(* The service implements the recorder: it records frames one by one, shows *)
(* a prefix of what it has recorded, and ends done when all of it is shown. *)
THEOREM RecorderImplemented == Spec => ImplementsRecorder
  <1>1. IInv /\ RecordingInv /\ [Next]_vars => [Recorder!Next]_(Recorder!vars)
    BY RecorderStep
  <1> QED
    BY <1>1, InitRecorder, InductiveInvariant, MarkersInvariant, PTL
       DEF Spec, ImplementsRecorder, Recorder!Spec

-----------------------------------------------------------------------------
(* The channel.                                                             *)

(* What appending a frame and taking the oldest one do to a sequence.       *)
LEMMA FrameElements ==
  /\ \A s \in Seq(Nat) : \A n \in Nat :
        /\ Append(s, n) \in Seq(Nat) /\ Len(Append(s, n)) = Len(s) + 1
        /\ Len(s) \in Nat /\ DOMAIN s = 1 .. Len(s)
        /\ DOMAIN Append(s, n) = 1 .. Len(s) + 1
        /\ \A i \in 1 .. Len(s) : Append(s, n)[i] = s[i]
        /\ Append(s, n)[Len(s) + 1] = n
  /\ \A s, t \in Seq(Nat) : t # <<>> =>
        /\ Append(s, Head(t)) \o Tail(t) = s \o t
        /\ Head(t) \in Nat /\ Tail(t) \in Seq(Nat)
        /\ Head(t) = (s \o t)[Len(s) + 1]
        /\ Len(s) + 1 \in DOMAIN (s \o t) /\ Len(s) < Len(s \o t)
  <1>1. \A s \in Seq(Nat) : \A n \in Nat :
           /\ Append(s, n) \in Seq(Nat) /\ Len(Append(s, n)) = Len(s) + 1
           /\ Len(s) \in Nat /\ DOMAIN s = 1 .. Len(s)
           /\ DOMAIN Append(s, n) = 1 .. Len(s) + 1
           /\ \A i \in 1 .. Len(s) : Append(s, n)[i] = s[i]
           /\ Append(s, n)[Len(s) + 1] = n
    BY AppendProperties, LenProperties
  <1>2. ASSUME NEW s \in Seq(Nat), NEW t \in Seq(Nat), t # <<>>
        PROVE  /\ Append(s, Head(t)) \o Tail(t) = s \o t
               /\ Head(t) \in Nat /\ Tail(t) \in Seq(Nat)
               /\ Head(t) = (s \o t)[Len(s) + 1]
               /\ Len(s) + 1 \in DOMAIN (s \o t) /\ Len(s) < Len(s \o t)
    <2>1. Head(t) \in Nat /\ Tail(t) \in Seq(Nat) /\ <<Head(t)>> \in Seq(Nat)
      BY <1>2, HeadTailProperties
    <2>2. /\ Append(s, Head(t)) = s \o <<Head(t)>>
          /\ Append(s, Head(t)) \o Tail(t) = s \o (<<Head(t)>> \o Tail(t))
      BY SMTT(30), <2>1, AppendIsConcat, ConcatAssociative
    <2>3. <<Head(t)>> \o Tail(t) = t
      BY <1>2, <2>1
    <2>4. /\ Len(s) \in Nat /\ Len(t) \in Nat /\ Len(t) # 0
          /\ Len(s \o t) = Len(s) + Len(t) /\ s \o t \in Seq(Nat)
          /\ \A i \in 1 .. Len(s) + Len(t) :
                (s \o t)[i] = IF i <= Len(s) THEN s[i] ELSE t[i - Len(s)]
      BY <1>2, ConcatProperties, LenProperties, EmptySeq
    <2>5. Head(t) = t[1] /\ (s \o t)[Len(s) + 1] = t[(Len(s) + 1) - Len(s)]
      BY <1>2, <2>4
    <2>6. DOMAIN (s \o t) = 1 .. Len(s \o t)
      BY <2>4, LenProperties
    <2> QED
      BY <2>1, <2>2, <2>3, <2>4, <2>5, <2>6
  <1> QED
    BY <1>1, <1>2

(* Every variable of the channel keeps its type.                            *)
LEMMA ChannelTypes ==
  ASSUME Kvaser!TypeOK, [Kvaser!Next]_(Kvaser!kvars)
  PROVE  Kvaser!TypeOK'
  <1> USE DEF Kvaser!TypeOK, Kvaser!OwnerCall, Kvaser!ReaderPlace,
              Kvaser!owner, Kvaser!events
  <1>1. CASE UNCHANGED Kvaser!kvars
    BY <1>1 DEF Kvaser!kvars
  <1>2. CASE Kvaser!Take
    <2>1. buffer' \in Seq(Nat) /\ delivered' \in Seq(Nat)
      BY <1>2, FrameElements DEF Kvaser!Take
    <2> QED
      BY <1>2, <2>1 DEF Kvaser!Take
  <1>3. CASE Kvaser!DriverRead
    <2>1. buffer' \in Seq(Nat) /\ received' \in Seq(Nat)
      BY <1>3, FrameElements DEF Kvaser!DriverRead
    <2> QED
      BY <1>3, <2>1 DEF Kvaser!DriverRead
  <1>4. CASE Kvaser!Open
    <2>1. <<>> \in Seq(Nat)
      OBVIOUS
    <2> QED
      BY <1>4, <2>1 DEF Kvaser!Open
  <1>5. CASE Kvaser!CloseReturns
    <2>1. <<>> \in Seq(Nat)
      OBVIOUS
    <2> QED
      BY <1>5, <2>1 DEF Kvaser!CloseReturns
  <1>7. CASE \/ Kvaser!OpenTimesOut \/ Kvaser!OpenReady \/ Kvaser!OpenFails
             \/ Kvaser!OpenReturns \/ Kvaser!OpenDied \/ Kvaser!TakeTimesOut
             \/ Kvaser!TakeNothing \/ Kvaser!TakeRaises \/ Kvaser!Close
             \/ Kvaser!CloseTimesOut
    BY ZenonT(40), <1>7
       DEF Kvaser!OpenTimesOut, Kvaser!OpenReady, Kvaser!OpenFails,
           Kvaser!OpenReturns, Kvaser!OpenDied, Kvaser!TakeTimesOut,
           Kvaser!TakeNothing, Kvaser!TakeRaises, Kvaser!Close,
           Kvaser!CloseTimesOut
  <1>6. CASE Kvaser!ReaderStep /\ ~Kvaser!DriverRead
    BY ZenonT(40), <1>6
       DEF Kvaser!ReaderStep, Kvaser!OpenHandle, Kvaser!GoOnBus,
           Kvaser!SetReady, Kvaser!TestStop, Kvaser!DriverNoMessage,
           Kvaser!DriverFails, Kvaser!KeepError, Kvaser!FailReady,
           Kvaser!Deactivate, Kvaser!Release, Kvaser!ReaderEnds
  <1> QED
    BY <1>1, <1>2, <1>3, <1>4, <1>5, <1>6, <1>7
       DEF Kvaser!Next, Kvaser!OwnerStep, Kvaser!OpenRefused

(* The handle, the flags and the events: what the owner and the reader know *)
(* of each other after every step of either.                                *)
LEMMA HandlesStep ==
  ASSUME Kvaser!TypeOK, Kvaser!OwnerInv, Kvaser!ReaderInv,
         Kvaser!HandlesAreOwned, [Kvaser!Next]_(Kvaser!kvars)
  PROVE  Kvaser!OwnerInv' /\ Kvaser!ReaderInv' /\ Kvaser!HandlesAreOwned'
  <1> USE DEF Kvaser!TypeOK, Kvaser!OwnerCall, Kvaser!ReaderPlace,
              Kvaser!owner, Kvaser!events, Kvaser!OwnerInv, Kvaser!ReaderInv,
              Kvaser!WayOut, Kvaser!HandlesAreOwned, Kvaser!OrphanHasLeft,
              Kvaser!ActiveHasHandle, Kvaser!Running
  <1>1. CASE UNCHANGED Kvaser!kvars
    BY <1>1 DEF Kvaser!kvars
  <1>2. CASE Kvaser!OwnerStep
    <2>1. CASE Kvaser!Open
      BY <2>1 DEF Kvaser!Open
    <2>2. CASE Kvaser!OpenTimesOut
      BY <2>2 DEF Kvaser!OpenTimesOut
    <2>3. CASE Kvaser!OpenReady
      BY <2>3 DEF Kvaser!OpenReady
    <2>4. CASE Kvaser!OpenFails
      BY <2>4 DEF Kvaser!OpenFails
    <2>5. CASE Kvaser!OpenReturns
      BY <2>5 DEF Kvaser!OpenReturns
    <2>6. CASE Kvaser!OpenDied
      BY <2>6 DEF Kvaser!OpenDied
    <2>7. CASE Kvaser!Take
      BY <2>7 DEF Kvaser!Take
    <2>8. CASE Kvaser!TakeTimesOut \/ Kvaser!TakeNothing \/ Kvaser!TakeRaises
      BY <2>8 DEF Kvaser!TakeTimesOut, Kvaser!TakeNothing, Kvaser!TakeRaises
    <2>9. CASE Kvaser!Close
      BY <2>9 DEF Kvaser!Close
    <2>10. CASE Kvaser!CloseReturns
      BY <2>10 DEF Kvaser!CloseReturns
    <2>11. CASE Kvaser!CloseTimesOut
      BY <2>11 DEF Kvaser!CloseTimesOut
    <2> QED
      BY <1>1, <1>2, <2>1, <2>2, <2>3, <2>4, <2>5, <2>6, <2>7, <2>8, <2>9, <2>10,
         <2>11 DEF Kvaser!OwnerStep, Kvaser!OpenRefused
  <1>3. CASE Kvaser!ReaderStep
    <2>1. CASE Kvaser!OpenHandle
      BY <2>1 DEF Kvaser!OpenHandle
    <2>2. CASE Kvaser!GoOnBus
      BY <2>2 DEF Kvaser!GoOnBus
    <2>3. CASE Kvaser!SetReady \/ Kvaser!TestStop
      BY <2>3 DEF Kvaser!SetReady, Kvaser!TestStop
    <2>4. CASE Kvaser!DriverRead \/ Kvaser!DriverNoMessage \/ Kvaser!DriverFails
      BY <2>4 DEF Kvaser!DriverRead, Kvaser!DriverNoMessage, Kvaser!DriverFails
    <2>5. CASE Kvaser!KeepError \/ Kvaser!FailReady
      BY <2>5 DEF Kvaser!KeepError, Kvaser!FailReady
    <2>6. CASE Kvaser!Deactivate \/ Kvaser!Release \/ Kvaser!ReaderEnds
      BY <2>6 DEF Kvaser!Deactivate, Kvaser!Release, Kvaser!ReaderEnds
    <2> QED
      BY <1>3, <2>1, <2>2, <2>3, <2>4, <2>5, <2>6 DEF Kvaser!ReaderStep
  <1> QED
    BY <1>1, <1>2, <1>3 DEF Kvaser!Next

(* The oldest buffered frame is the next one by number.                     *)
LEMMA HeadIsNext ==
  ASSUME Kvaser!TypeOK, Kvaser!OwnerInv, Kvaser!FramesInv, entered,
         buffer # <<>>
  PROVE  Head(buffer) = Len(delivered) /\ Len(delivered) < Len(received)
  <1>1. delivered \o buffer = received
    BY DEF Kvaser!OwnerInv, Kvaser!FramesInv, Kvaser!NothingLost
  <1>2. /\ Head(buffer) = received[Len(delivered) + 1]
        /\ Len(delivered) + 1 \in DOMAIN received
        /\ Len(delivered) < Len(received)
        /\ Head(buffer) \in Nat /\ Len(delivered) \in Nat
    BY <1>1, FrameElements DEF Kvaser!TypeOK
  <1> QED
    BY <1>2 DEF Kvaser!FramesInv, Kvaser!Serial

(* A frame appended under its number leaves a sequence numbered.            *)
LEMMA SerialAppend ==
  ASSUME NEW s \in Seq(Nat), Kvaser!Serial(s)
  PROVE  Kvaser!Serial(Append(s, Len(s)))
  <1>1. /\ Len(s) \in Nat /\ DOMAIN s = 1 .. Len(s)
        /\ DOMAIN Append(s, Len(s)) = 1 .. Len(s) + 1
        /\ \A i \in 1 .. Len(s) : Append(s, Len(s))[i] = s[i]
        /\ Append(s, Len(s))[Len(s) + 1] = Len(s)
    BY FrameElements
  <1> QED
    BY <1>1 DEF Kvaser!Serial

(* The frames stay numbered, and none is lost before the channel is closed. *)
LEMMA FramesInvStep ==
  ASSUME Kvaser!TypeOK, Kvaser!OwnerInv, Kvaser!ReaderInv,
         Kvaser!HandlesAreOwned, Kvaser!FramesInv, MaxFrames \in Nat,
         [Kvaser!Next]_(Kvaser!kvars)
  PROVE  Kvaser!FramesInv'
  <1> USE DEF Kvaser!owner, Kvaser!events, Kvaser!NothingLost
  <1>0. /\ Len(received) \in Nat /\ Len(delivered) \in Nat
        /\ received \in Seq(Nat) /\ delivered \in Seq(Nat)
        /\ buffer \in Seq(Nat)
    BY LenProperties DEF Kvaser!TypeOK
  <1>1. ASSUME UNCHANGED <<received, delivered>>,
               threadKept' => threadKept /\ buffer' = buffer,
               call' \in {"opening", "openFailed", "openCheck"}
                 => call \in {"opening", "openFailed", "openCheck"}
        PROVE  Kvaser!FramesInv'
    <2>1. Kvaser!NothingLost'
      BY <1>1 DEF Kvaser!FramesInv
    <2>2. Kvaser!Serial(received)' /\ Kvaser!Serial(delivered)'
      BY <1>1 DEF Kvaser!FramesInv, Kvaser!Serial
    <2> QED
      BY <1>1, <2>1, <2>2 DEF Kvaser!FramesInv
  <1>2. CASE UNCHANGED Kvaser!kvars
    BY <1>1, <1>2 DEF Kvaser!kvars
  <1>3. CASE Kvaser!Open
    <2>1. received' = <<>> /\ delivered' = <<>> /\ buffer' = <<>>
      BY <1>3 DEF Kvaser!Open
    <2>2. Len(<<>>) = 0 /\ <<>> \o <<>> = <<>> /\ DOMAIN <<>> = {}
      OBVIOUS
    <2> QED
      BY <2>1, <2>2 DEF Kvaser!FramesInv, Kvaser!Serial
  <1>4. CASE Kvaser!Take
    <2>1. /\ call = "idle" /\ call' = "idle" /\ entered /\ buffer # <<>>
          /\ delivered' = Append(delivered, Head(buffer))
          /\ buffer' = Tail(buffer)
          /\ UNCHANGED <<received, threadKept>>
      BY <1>4 DEF Kvaser!Take
    <2>2. Head(buffer) = Len(delivered) /\ Len(delivered) < Len(received)
      BY <2>1, HeadIsNext
    <2>3. Kvaser!Serial(delivered')
      BY <1>0, <2>1, <2>2, SerialAppend DEF Kvaser!FramesInv
    <2>4. Len(delivered') = Len(delivered) + 1
      BY <1>0, <2>1, <2>2, FrameElements
    <2>5. delivered' \o buffer' = delivered \o buffer
      BY <1>0, <2>1, FrameElements
    <2>6. Kvaser!Serial(received)' /\ Kvaser!Serial(delivered)'
      BY <2>1, <2>3 DEF Kvaser!FramesInv, Kvaser!Serial
    <2>7. Kvaser!NothingLost'
      BY <2>1, <2>5 DEF Kvaser!FramesInv
    <2>8. Len(delivered') <= Len(received') /\ Len(received') <= MaxFrames
      BY <1>0, <2>1, <2>2, <2>4 DEF Kvaser!FramesInv
    <2> QED
      BY <2>1, <2>6, <2>7, <2>8 DEF Kvaser!FramesInv
  <1>5. CASE Kvaser!DriverRead
    <2>1. /\ Len(received) < MaxFrames
          /\ received' = Append(received, Len(received))
          /\ buffer' = Append(buffer, Len(received))
          /\ UNCHANGED <<call, threadKept, delivered>>
      BY <1>5 DEF Kvaser!DriverRead
    <2>2. Kvaser!Serial(received')
      BY <1>0, <2>1, SerialAppend DEF Kvaser!FramesInv
    <2>3. Len(received') = Len(received) + 1
      BY <1>0, <2>1, FrameElements
    <2>4. delivered' \o buffer' = Append(delivered \o buffer, Len(received))
      BY <1>0, <2>1, ConcatAppend
    <2>5. Kvaser!Serial(received)' /\ Kvaser!Serial(delivered)'
      BY <2>1, <2>2 DEF Kvaser!FramesInv, Kvaser!Serial
    <2>6. Kvaser!NothingLost'
      BY <2>1, <2>4 DEF Kvaser!FramesInv
    <2>7. Len(delivered') <= Len(received') /\ Len(received') <= MaxFrames
      BY <1>0, <2>1, <2>3 DEF Kvaser!FramesInv
    <2> QED
      BY <2>1, <2>5, <2>6, <2>7 DEF Kvaser!FramesInv
  <1>6. CASE \/ Kvaser!OpenTimesOut \/ Kvaser!OpenReady
             \/ Kvaser!OpenFails \/ Kvaser!OpenReturns \/ Kvaser!OpenDied
             \/ Kvaser!TakeTimesOut \/ Kvaser!TakeNothing \/ Kvaser!TakeRaises
             \/ Kvaser!Close \/ Kvaser!CloseReturns \/ Kvaser!CloseTimesOut
    BY <1>1, <1>6
       DEF Kvaser!OpenTimesOut, Kvaser!OpenReady,
           Kvaser!OpenFails, Kvaser!OpenReturns, Kvaser!OpenDied,
           Kvaser!TakeTimesOut, Kvaser!TakeNothing, Kvaser!TakeRaises,
           Kvaser!Close, Kvaser!CloseReturns, Kvaser!CloseTimesOut
  <1>7. CASE Kvaser!ReaderStep /\ ~Kvaser!DriverRead
    BY <1>1, <1>7
       DEF Kvaser!ReaderStep, Kvaser!OpenHandle, Kvaser!GoOnBus,
           Kvaser!SetReady, Kvaser!TestStop, Kvaser!DriverNoMessage,
           Kvaser!DriverFails, Kvaser!KeepError, Kvaser!FailReady,
           Kvaser!Deactivate, Kvaser!Release, Kvaser!ReaderEnds
  <1> QED
    BY <1>2, <1>3, <1>4, <1>5, <1>6, <1>7
       DEF Kvaser!Next, Kvaser!OwnerStep, Kvaser!OpenRefused

-----------------------------------------------------------------------------
(* The service: the session file holds the frames by number.                *)

LEMMA SerialStep ==
  ASSUME TypeOK, StateInv, SerialInv, [Next]_vars
  PROVE  SerialInv'
  <1> DEFINE Written == Opening \cup (Looping \ {"session"}) \cup Closing
                          \cup {"leave", "lastDrain", "showRest"}
  <1>0. /\ sessionRows \in Seq(Nat) /\ Len(sessionRows) \in Nat
        /\ nextFrame \in Nat /\ frame \in Nat
    BY LenProperties DEF TypeOK, TypeOfFiles, TypeOfCounts
  <1>1. ASSUME UNCHANGED <<sessionRows, persist, nextFrame>>,
               wpc' \in Opening => wpc \in Opening,
               wpc' = "session" => wpc = "session" /\ frame' = frame,
               wpc' \in Written => wpc \in Written,
               state' = "stopped" => state = "stopped" \/ wpc \in Written
        PROVE  SerialInv'
    BY <1>1 DEF SerialInv
  <1> USE DEF shared, gui, config, counts, session, csv, markers, files, input,
              view, Opening, Looping, Closing
  <1>2. CASE UNCHANGED vars
    BY <1>1, <1>2 DEF vars
  <1>3. CASE GuiStep
    <2>1. CASE \E onDisk, duration \in BOOLEAN : Start(onDisk, duration)
      <3>1. /\ sessionRows' = <<>> /\ nextFrame' = 0 /\ wpc' = "lookup"
            /\ Len(<<>>) = 0 /\ DOMAIN <<>> = {}
        BY <2>1 DEF Start
      <3> QED
        BY <3>1 DEF SerialInv
    <2>2. CASE Stop \/ AddMarkerAccept \/ AddMarkerPut \/ AddMarkerReturn
      BY <1>1, <2>2
         DEF Stop, AddMarkerAccept, AddMarkerPut, AddMarkerReturn
    <2> QED
      BY <1>3, <2>1, <2>2 DEF GuiStep
  <1>4. CASE OpeningStep
    <2>1. /\ UNCHANGED <<sessionRows, persist, nextFrame>>
          /\ wpc \in Opening /\ wpc' \in Opening \cup {"errShow", "test"}
          /\ state' = "stopped" => state = "stopped"
      BY <1>4
         DEF OpeningStep, Lookup, OpenSession, OpenCsv, OpenMarkers, SetRunning
    <2> QED
      BY <1>1, <2>1
  <1>5. CASE LoopStep
    <2>1. CASE AppendSession
      <3>1. /\ wpc = "session" /\ wpc' \in {"csv", "leaveErr"}
            /\ UNCHANGED <<persist, nextFrame, state>>
            /\ \/ sessionRows' = Append(sessionRows, frame)
               \/ sessionRows' = sessionRows /\ wpc' = "leaveErr"
        BY <2>1 DEF AppendSession
      <3>2. state # "stopped"
        BY <3>1 DEF StateInv, Terminal
      <3>3. CASE ~persist
        BY <3>1, <3>3 DEF SerialInv
      <3>4. CASE persist /\ sessionRows' = Append(sessionRows, frame)
        <4>1. Len(sessionRows) + 1 = nextFrame /\ frame = Len(sessionRows)
          BY <3>1, <3>4 DEF SerialInv
        <4>2. /\ DOMAIN sessionRows = 1 .. Len(sessionRows)
              /\ Len(sessionRows') = Len(sessionRows) + 1
              /\ DOMAIN sessionRows' = 1 .. Len(sessionRows) + 1
              /\ \A i \in 1 .. Len(sessionRows) : sessionRows'[i] = sessionRows[i]
              /\ sessionRows'[Len(sessionRows) + 1] = frame
          BY <1>0, <3>4, FrameElements
        <4>3. \A i \in DOMAIN sessionRows' : sessionRows'[i] + 1 = i
          BY <1>0, <3>4, <4>1, <4>2 DEF SerialInv
        <4> QED
          BY <1>0, <3>1, <4>1, <4>2, <4>3 DEF SerialInv
      <3>5. CASE persist /\ sessionRows' = sessionRows /\ wpc' = "leaveErr"
        BY <3>1, <3>2, <3>5 DEF SerialInv
      <3> QED
        BY <3>1, <3>3, <3>4, <3>5
    <2>2. CASE DrainInLoop
      BY <1>1, <2>2
         DEF DrainInLoop, Drain, DrainOne, DrainRaises, DrainEmpty
    <2>3. CASE AppendCsv
      BY <1>1, <2>3 DEF AppendCsv
    <2>4. CASE TestStop \/ SkipPublish \/ PublishLive
      BY <1>1, <2>4 DEF TestStop, SkipPublish, PublishLive
    <2>5. CASE PublishProgress
      BY <1>1, <2>5 DEF PublishProgress
    <2> QED
      BY <1>5, <2>1, <2>2, <2>3, <2>4, <2>5 DEF LoopStep
  <1>6. CASE ClosingStep
    <2>1. CASE LastDrain
      BY <1>1, <2>1 DEF LastDrain, Drain, DrainOne, DrainRaises, DrainEmpty
    <2>2. CASE ShowRest \/ SetStopped
      BY <1>1, <2>2 DEF ShowRest, SetStopped
    <2>3. CASE CloseSession
      BY <1>1, <2>3 DEF CloseSession, CloseSessionWith
    <2>4. CASE CloseCsv
      BY <1>1, <2>4 DEF CloseCsv, CloseCsvWith
    <2>5. CASE CloseMarkers
      BY <1>1, <2>5 DEF CloseMarkers, CloseMarkersWith
    <2> QED
      BY <1>6, <2>1, <2>2, <2>3, <2>4, <2>5 DEF ClosingStep
  <1>7. CASE HandlerStep
    <2>1. CASE ErrDrain
      BY <1>1, <2>1 DEF ErrDrain, Drain, DrainOne, DrainRaises, DrainEmpty
    <2>2. CASE ErrShow \/ SetError \/ ThreadEnds
      BY <1>1, <2>2 DEF ErrShow, SetError, ThreadEnds
    <2>3. CASE ErrSession
      BY <1>1, <2>3 DEF ErrSession, CloseSessionWith
    <2>4. CASE ErrCsv
      BY <1>1, <2>4 DEF ErrCsv, CloseCsvWith
    <2>5. CASE ErrEscape \/ ErrMarkers
      BY <1>1, <2>5 DEF ErrEscape, ErrMarkers, CloseMarkersWith
    <2> QED
      BY <1>7, <2>1, <2>2, <2>3, <2>4, <2>5 DEF HandlerStep
  <1>8. CASE ChannelStep
    <2>1. CASE nextFrame < MaxFrames /\ ReadFrame(nextFrame)
      <3>1. /\ wpc = "read" /\ wpc' = IF persist THEN "session" ELSE "drain"
            /\ frame' = nextFrame /\ nextFrame' = nextFrame + 1
            /\ UNCHANGED <<persist, sessionRows, state>>
        BY <2>1 DEF ReadFrame
      <3>2. state # "stopped"
        BY <3>1 DEF StateInv, Terminal
      <3> QED
        BY <1>0, <3>1, <3>2 DEF SerialInv
    <2>2. CASE EnterChannel \/ EnterRaises \/ ReadNone \/ ReadRaises
               \/ LeaveChannel \/ LeaveRaises \/ LeaveAfterError
      BY <1>1, <2>2
         DEF EnterChannel, EnterRaises, ReadNone, ReadRaises, LeaveChannel,
             LeaveRaises, LeaveAfterError
    <2> QED
      BY <1>8, <2>1, <2>2 DEF ChannelStep
  <1> QED
    BY <1>2, <1>3, <1>4, <1>5, <1>6, <1>7, <1>8 DEF Next, WorkerStep

-----------------------------------------------------------------------------
(* The service on the channel.                                              *)

(* Every step of the whole is a step of the channel or none of its.         *)
LEMMA StepOfChannel ==
  ASSUME [SystemNext]_cvars
  PROVE  [Kvaser!Next]_(Kvaser!kvars)
  <1> USE DEF kvars, Kvaser!kvars, Kvaser!owner, Kvaser!events, Kvaser!Next
  <1>1. CASE UNCHANGED cvars
    BY <1>1 DEF cvars
  <1>2. CASE SystemNext
    BY <1>2
       DEF SystemNext, SystemGui, EnterBegins, EnterWaits, Enters, EnterFails,
           Reads, ReadWaits, ReadsNone, ReadPassesOn, LeaveBegins, Leaves,
           LeaveFails, Kvaser!OwnerStep
  <1> QED
    BY <1>1, <1>2

(* Every step of the whole is a step of the capture service: the frame that *)
(* read() returns is the next one by number.                                *)
LEMMA StepOfService ==
  ASSUME Kvaser!ChannelIInv, LinkInv, [SystemNext]_cvars
  PROVE  [Next]_vars
  <1>1. CASE Reads
    <2>1. /\ wpc = "read" /\ entered /\ buffer # <<>> /\ ReadFrame(Head(buffer))
      BY <1>1 DEF Reads, Kvaser!Take
    <2>2. Head(buffer) = Len(delivered) /\ Len(delivered) < Len(received)
      BY <2>1, HeadIsNext DEF Kvaser!ChannelIInv
    <2>3. nextFrame = Len(delivered)
      BY <2>1 DEF LinkInv, Looping
    <2>4. nextFrame < MaxFrames
      <3>1. Len(received) <= MaxFrames
        BY DEF Kvaser!ChannelIInv, Kvaser!FramesInv
      <3>2. Len(received) \in Nat /\ Len(delivered) \in Nat
        BY LenProperties DEF Kvaser!ChannelIInv, Kvaser!TypeOK
      <3> QED
        BY <2>2, <2>3, <3>1, <3>2, BoundsAssumption
    <2> QED
      BY <2>1, <2>2, <2>3, <2>4 DEF Next, ChannelStep
  <1>2. CASE SystemNext /\ ~Reads
    BY <1>2
       DEF SystemNext, SystemGui, EnterBegins, EnterWaits, Enters, EnterFails,
           ReadWaits, ReadsNone, ReadPassesOn, LeaveBegins, Leaves, LeaveFails,
           Next, ChannelStep
  <1> QED
    BY <1>1, <1>2 DEF cvars

(* The worker and the object stay together.                                 *)
LEMMA LinkStep ==
  ASSUME IInv, SerialInv, Kvaser!ChannelIInv, LinkInv, [SystemNext]_cvars
  PROVE  LinkInv'
  <1> DEFINE Inside == {"running", "leave", "leaveErr", "lastDrain", "showRest"}
                         \cup Looping \cup Closing
  <1>0. /\ TypeOK /\ StateInv /\ Kvaser!TypeOK /\ Kvaser!OwnerInv
        /\ nextFrame \in Nat /\ Len(delivered) \in Nat
    BY LenProperties
       DEF IInv, Kvaser!ChannelIInv, Kvaser!TypeOK, TypeOK, TypeOfCounts
  <1> USE DEF shared, gui, config, counts, session, csv, markers, files, input,
              view, Looping, Closing, kvars
  <1>1. CASE UNCHANGED cvars
    BY <1>1 DEF cvars, vars, LinkInv
  (* The worker moves, the object does not.                                 *)
  <1>2. ASSUME UNCHANGED <<call, delivered, nextFrame>>,
               wpc \notin {"enter", "read", "leave", "leaveErr"} \/ wpc' = wpc,
               wpc' \in Inside => wpc \in Inside,
               state' = "stopped" => state = "stopped" \/ wpc \in Inside
        PROVE  LinkInv'
    BY <1>2 DEF LinkInv
  <1>3. CASE SystemGui
    <2>1. UNCHANGED <<call, delivered>>
      BY <1>3 DEF SystemGui
    <2>2. CASE \E onDisk, duration \in BOOLEAN : Start(onDisk, duration)
      <3>1. /\ wpc \in {"none", "dead"} /\ wpc' = "lookup" /\ nextFrame' = 0
            /\ state' = "starting"
        BY <2>2 DEF Start, Alive
      <3> QED
        BY <1>0, <2>1, <3>1 DEF LinkInv
    <2>3. CASE Stop \/ AddMarkerAccept \/ AddMarkerPut \/ AddMarkerReturn
      <3>1. /\ UNCHANGED <<wpc, nextFrame>>
            /\ state' = "stopped" => state = "stopped"
        BY <2>3 DEF Stop, AddMarkerAccept, AddMarkerPut, AddMarkerReturn
      <3> QED
        BY <1>2, <2>1, <3>1
    <2> QED
      BY <1>3, <2>2, <2>3 DEF SystemGui, GuiStep
  <1>4. CASE WorkerStep /\ UNCHANGED kvars
    <2>1. CASE OpeningStep
      BY <1>2, <1>4, <2>1
         DEF OpeningStep, Lookup, OpenSession, OpenCsv, OpenMarkers, SetRunning
    <2>2. CASE LoopStep
      <3>1. CASE DrainInLoop
        BY <1>2, <1>4, <3>1
           DEF DrainInLoop, Drain, DrainOne, DrainRaises, DrainEmpty
      <3>2. CASE AppendSession \/ AppendCsv
        BY <1>2, <1>4, <3>2 DEF AppendSession, AppendCsv
      <3>3. CASE TestStop \/ SkipPublish \/ PublishLive
        BY <1>2, <1>4, <3>3 DEF TestStop, SkipPublish, PublishLive
      <3>4. CASE PublishProgress
        BY <1>2, <1>4, <3>4 DEF PublishProgress
      <3> QED
        BY <2>2, <3>1, <3>2, <3>3, <3>4 DEF LoopStep
    <2>3. CASE ClosingStep
      <3>1. CASE LastDrain
        BY <1>2, <1>4, <3>1
           DEF LastDrain, Drain, DrainOne, DrainRaises, DrainEmpty
      <3>2. CASE ShowRest \/ SetStopped
        BY <1>2, <1>4, <3>2 DEF ShowRest, SetStopped
      <3>3. CASE CloseSession
        BY <1>2, <1>4, <3>3 DEF CloseSession, CloseSessionWith
      <3>4. CASE CloseCsv \/ CloseMarkers
        BY <1>2, <1>4, <3>4
           DEF CloseCsv, CloseCsvWith, CloseMarkers, CloseMarkersWith
      <3> QED
        BY <2>3, <3>1, <3>2, <3>3, <3>4 DEF ClosingStep
    <2>4. CASE HandlerStep
      <3>1. CASE ErrDrain
        BY <1>2, <1>4, <3>1
           DEF ErrDrain, Drain, DrainOne, DrainRaises, DrainEmpty
      <3>2. CASE ErrShow \/ SetError \/ ThreadEnds
        BY <1>2, <1>4, <3>2 DEF ErrShow, SetError, ThreadEnds
      <3>3. CASE ErrSession
        BY <1>2, <1>4, <3>3 DEF ErrSession, CloseSessionWith
      <3>4. CASE ErrCsv \/ ErrEscape \/ ErrMarkers
        BY <1>2, <1>4, <3>4
           DEF ErrCsv, ErrEscape, ErrMarkers, CloseCsvWith, CloseMarkersWith
      <3> QED
        BY <2>4, <3>1, <3>2, <3>3, <3>4 DEF HandlerStep
    <2> QED
      BY <1>4, <2>1, <2>2, <2>3, <2>4 DEF WorkerStep
  <1>5. CASE Kvaser!ReaderStep /\ UNCHANGED vars
    <2>1. UNCHANGED <<call, delivered>>
      BY <1>5
         DEF Kvaser!ReaderStep, Kvaser!OpenHandle, Kvaser!GoOnBus,
             Kvaser!SetReady, Kvaser!TestStop, Kvaser!DriverRead,
             Kvaser!DriverNoMessage, Kvaser!DriverFails, Kvaser!KeepError,
             Kvaser!FailReady, Kvaser!Deactivate, Kvaser!Release,
             Kvaser!ReaderEnds, Kvaser!owner
    <2> QED
      BY <1>2, <1>5, <2>1 DEF vars
  <1>6. CASE EnterBegins
    <2>1. /\ wpc = "enter" /\ call' = "opening" /\ delivered' = <<>>
          /\ UNCHANGED <<wpc, nextFrame, state>>
      BY <1>6 DEF EnterBegins, Kvaser!Open, vars
    <2>2. nextFrame = 0 /\ Len(<<>>) = 0
      BY <2>1 DEF SerialInv, Opening
    <2>3. state # "stopped"
      BY <1>0, <2>1 DEF StateInv, Terminal
    <2> QED
      BY <2>1, <2>2, <2>3 DEF LinkInv
  <1>7. CASE EnterWaits
    <2>1. /\ call = "opening" /\ call' \in {"openFailed", "openCheck"}
          /\ UNCHANGED <<wpc, nextFrame, state, delivered>>
      BY <1>7 DEF EnterWaits, Kvaser!OpenReady, vars
    <2> QED
      BY <2>1 DEF LinkInv
  <1>8. CASE Enters
    <2>1. /\ call = "openCheck" /\ call' = "idle" /\ wpc = "enter"
          /\ wpc' = "running" /\ UNCHANGED <<delivered, nextFrame, state>>
      BY <1>8 DEF Enters, Kvaser!OpenReturns, EnterChannel
    <2>2. delivered = <<>> /\ nextFrame = 0 /\ Len(<<>>) = 0
      BY <2>1
         DEF Kvaser!ChannelIInv, Kvaser!FramesInv, SerialInv, Opening
    <2> QED
      BY <2>1, <2>2 DEF LinkInv
  <1>9. CASE EnterFails
    <2>1. /\ call' = "idle" /\ wpc = "enter" /\ wpc' = "errShow"
          /\ UNCHANGED <<delivered, nextFrame, state>>
      BY <1>9
         DEF EnterFails, Kvaser!OpenTimesOut, Kvaser!OpenFails, Kvaser!OpenDied,
             Kvaser!OpenRefused, Kvaser!kvars, Kvaser!owner, EnterRaises
    <2> QED
      BY <2>1 DEF LinkInv
  <1>10. CASE Reads
    <2>1. /\ wpc = "read" /\ entered /\ buffer # <<>> /\ call = "idle"
          /\ call' = "idle" /\ wpc' \in {"session", "drain"}
          /\ delivered' = Append(delivered, Head(buffer))
          /\ nextFrame' = Head(buffer) + 1 /\ state' = state
      BY <1>10 DEF Reads, Kvaser!Take, ReadFrame
    <2>2. Head(buffer) = Len(delivered)
      BY <1>0, <2>1, HeadIsNext DEF Kvaser!ChannelIInv
    <2>3. Len(delivered') = Len(delivered) + 1
      BY <1>0, <2>1, <2>2, FrameElements DEF Kvaser!TypeOK
    <2> QED
      BY <1>0, <2>1, <2>2, <2>3 DEF LinkInv
  <1>11. CASE ReadWaits \/ ReadsNone \/ ReadPassesOn
    <2>1. /\ wpc = "read" /\ call' \in {"idle", "empty"}
          /\ UNCHANGED <<delivered, nextFrame, state>>
          /\ call' = "empty" => wpc' = "read"
          /\ wpc' \in {"read", "drain", "leaveErr"}
      BY <1>11
         DEF ReadWaits, ReadsNone, ReadPassesOn, Kvaser!TakeTimesOut,
             Kvaser!TakeNothing, Kvaser!TakeRaises, ReadNone, ReadRaises, vars
    <2> QED
      BY <2>1 DEF LinkInv
  <1>12. CASE LeaveBegins
    <2>1. /\ wpc \in {"leave", "leaveErr"} /\ call' = "closing"
          /\ UNCHANGED <<wpc, delivered, nextFrame, state>>
      BY <1>12 DEF LeaveBegins, Kvaser!Close, vars
    <2> QED
      BY <2>1 DEF LinkInv
  <1>13. CASE Leaves \/ LeaveFails
    <2>1. /\ call' = "idle" /\ wpc \in {"leave", "leaveErr"}
          /\ wpc' \in {"lastDrain", "errShow"}
          /\ UNCHANGED <<delivered, nextFrame, state>>
      BY <1>13
         DEF Leaves, LeaveFails, Kvaser!CloseReturns, Kvaser!CloseTimesOut,
             LeaveChannel, LeaveAfterError, LeaveRaises
    <2> QED
      BY <2>1 DEF LinkInv
  <1> QED
    BY <1>1, <1>3, <1>4, <1>5, <1>6, <1>7, <1>8, <1>9, <1>10, <1>11, <1>12,
       <1>13 DEF SystemNext

(* Initially there is neither a capture nor an open channel.                *)
LEMMA SystemInitIInv == SystemInit => SystemIInv
  <1> SUFFICES ASSUME SystemInit PROVE SystemIInv
    OBVIOUS
  <1>1. Init /\ Kvaser!Init /\ IInv
    BY InitIInv DEF SystemInit
  <1>2. <<>> \in Seq(Nat) /\ Len(<<>>) = 0 /\ DOMAIN <<>> = {} /\ <<>> \o <<>> = <<>>
    OBVIOUS
  <1>3. SerialInv
    BY <1>1, <1>2 DEF Init, SerialInv
  <1>4. Kvaser!TypeOK
    BY <1>1, <1>2
       DEF Kvaser!Init, Kvaser!TypeOK, Kvaser!OwnerCall, Kvaser!ReaderPlace
  <1>5. Kvaser!OwnerInv /\ Kvaser!ReaderInv /\ Kvaser!HandlesAreOwned
    BY <1>1
       DEF Kvaser!Init, Kvaser!OwnerInv, Kvaser!ReaderInv, Kvaser!WayOut,
           Kvaser!HandlesAreOwned, Kvaser!OrphanHasLeft,
           Kvaser!ActiveHasHandle, Kvaser!Running
  <1>6. Kvaser!FramesInv
    BY <1>1, <1>2, BoundsAssumption
       DEF Kvaser!Init, Kvaser!FramesInv, Kvaser!NothingLost, Kvaser!Serial
  <1>7. LinkInv
    BY <1>1, <1>2 DEF Init, Kvaser!Init, LinkInv
  <1> QED
    BY <1>1, <1>3, <1>4, <1>5, <1>6, <1>7 DEF SystemIInv, Kvaser!ChannelIInv

(* Every step keeps the invariant of the whole.                             *)
LEMMA SystemStep == SystemIInv /\ [SystemNext]_cvars => SystemIInv'
  <1> SUFFICES ASSUME SystemIInv, [SystemNext]_cvars PROVE SystemIInv'
    OBVIOUS
  <1>1. /\ IInv /\ TypeOK /\ StateInv /\ SerialInv /\ LinkInv
        /\ Kvaser!ChannelIInv
    BY DEF SystemIInv, IInv
  <1>2. [Next]_vars /\ [Kvaser!Next]_(Kvaser!kvars)
    BY <1>1, StepOfService, StepOfChannel
  <1>3. IInv' /\ SerialInv'
    BY <1>1, <1>2, NextIInv, SerialStep
  <1>4. Kvaser!ChannelIInv'
    BY <1>1, <1>2, BoundsAssumption, ChannelTypes, HandlesStep, FramesInvStep
       DEF Kvaser!ChannelIInv
  <1>5. LinkInv'
    BY <1>1, LinkStep
  <1> QED
    BY <1>3, <1>4, <1>5 DEF SystemIInv

(* The service on a Kvaser channel keeps its invariant and the channel's.   *)
THEOREM SystemInvariant == SystemSpec => []SystemIInv
  BY SystemInitIInv, SystemStep, PTL DEF SystemSpec

(* Nobody but the owner of an active channel uses the bus for longer than   *)
(* one call of the driver.                                                  *)
THEOREM BusHasOwner == SystemSpec => []BusIsOwned
  <1>1. SystemIInv => BusIsOwned
    BY DEF SystemIInv, Kvaser!ChannelIInv, BusIsOwned
  <1> QED
    BY <1>1, SystemInvariant, PTL

(* Two numbered sequences: the shorter one is the beginning of the other.   *)
LEMMA SerialPrefix ==
  ASSUME NEW s \in Seq(Nat), NEW t \in Seq(Nat), Len(s) <= Len(t),
         \A i \in DOMAIN s : s[i] + 1 = i, \A i \in DOMAIN t : t[i] + 1 = i
  PROVE  s = SubSeq(t, 1, Len(s)) /\ (Len(s) = Len(t) => s = t)
  <1>1. /\ Len(s) \in Nat /\ Len(t) \in Nat /\ DOMAIN s = 1 .. Len(s)
        /\ DOMAIN t = 1 .. Len(t)
        /\ \A i \in DOMAIN s : s[i] \in Nat
        /\ \A i \in DOMAIN t : t[i] \in Nat
    BY LenProperties
  <1> DEFINE p == SubSeq(t, 1, Len(s))
  <1>2. p \in Seq(Nat) /\ Len(p) = Len(s)
    BY <1>1, SubSeqProperties
  <1>3. \A i \in 1 .. Len(s) : p[i] = t[i]
    BY <1>1, SubSeqProperties
  <1>4. ASSUME NEW i \in 1 .. Len(s)
        PROVE  s[i] = t[i]
    <2>1. i \in DOMAIN s /\ i \in DOMAIN t
      BY <1>1, <1>4
    <2>2. s[i] + 1 = i /\ t[i] + 1 = i /\ s[i] \in Nat /\ t[i] \in Nat
      BY <1>1, <2>1
    <2> QED
      BY <2>2
  <1>5. \A i \in 1 .. Len(s) : s[i] = t[i]
    BY <1>4
  <1> HIDE DEF p
  <1>6. s = p
    BY <1>1, <1>2, <1>3, <1>5, SeqEqual
  <1>7. Len(s) = Len(t) => s = t
    BY <1>1, <1>5, SeqEqual
  <1> QED
    BY <1>6, <1>7 DEF p

(* From the driver to the file no frame is lost, doubled or out of order.   *)
LEMMA PrefixOfBus == SystemIInv => SessionIsPrefixOfBus
  <1> SUFFICES ASSUME SystemIInv PROVE SessionIsPrefixOfBus
    OBVIOUS
  <1>1. /\ Kvaser!NothingLost /\ LinkInv /\ SerialInv
        /\ received \in Seq(Nat) /\ delivered \in Seq(Nat)
        /\ sessionRows \in Seq(Nat) /\ nextFrame \in Nat
        /\ \A i \in DOMAIN received : received[i] + 1 = i
        /\ \A i \in DOMAIN delivered : delivered[i] + 1 = i
        /\ Len(delivered) <= Len(received)
    BY DEF SystemIInv, Kvaser!ChannelIInv, Kvaser!FramesInv, Kvaser!Serial,
           Kvaser!TypeOK, IInv, TypeOK, TypeOfFiles, TypeOfCounts
  <1>2. ASSUME persist
        PROVE  /\ sessionRows = SubSeq(received, 1, Len(sessionRows))
               /\ state = "stopped" => sessionRows = delivered
    <2>1. /\ \A i \in DOMAIN sessionRows : sessionRows[i] + 1 = i
          /\ Len(sessionRows) <= nextFrame /\ nextFrame <= Len(delivered)
          /\ state = "stopped" => Len(sessionRows) = Len(delivered)
      BY <1>1, <1>2 DEF SerialInv, LinkInv
    <2>2. /\ Len(sessionRows) \in Nat /\ Len(received) \in Nat
          /\ Len(delivered) \in Nat
      BY <1>1, LenProperties
    <2>3. Len(sessionRows) <= Len(received) /\ Len(sessionRows) <= Len(delivered)
      BY <1>1, <2>1, <2>2
    <2> QED
      BY <1>1, <2>1, <2>3, SerialPrefix
  <1> QED
    BY <1>1, <1>2 DEF SessionIsPrefixOfBus

(* From the driver to the file, for every number of frames.                 *)
THEOREM SessionFollowsBus == SystemSpec => []SessionIsPrefixOfBus
  BY PrefixOfBus, SystemInvariant, PTL

(* The Kvaser channel is a channel of the kind CaptureService assumes: the  *)
(* whole implements the service, and with it the recorder.                  *)
THEOREM CaptureImplemented == SystemSpec => ImplementsCapture
  <1>1. SystemIInv /\ [SystemNext]_cvars => [Next]_vars
    BY StepOfService DEF SystemIInv
  <1>2. SystemInit => Init
    BY DEF SystemInit
  <1> QED
    BY <1>1, <1>2, SystemInvariant, PTL DEF SystemSpec, Spec, ImplementsCapture
=============================================================================
