-------------------------- MODULE CaptureWithKvaser --------------------------
(***************************************************************************)
(* The capture service on a Kvaser channel: the worker's calls of the      *)
(* channel are the calls of the object of KvaserChannel, whose reader      *)
(* thread runs besides.  Every capture uses a new object.                  *)
(***************************************************************************)
EXTENDS CaptureService

VARIABLES
    call, threadKept, entered, reader, readerStop, readerReady, readerError,
    channelActive, handle, buffer, received, delivered, raised

Kvaser == INSTANCE KvaserChannel

kvars ==
    <<call, threadKept, entered, reader, readerStop, readerReady, readerError,
      channelActive, handle, buffer, received, delivered, raised>>
cvars == <<vars, kvars>>

SystemInit == Init /\ Kvaser!Init

(* The GUI thread; a start() waits for no reader of an earlier object.      *)
SystemGui == GuiStep /\ UNCHANGED kvars

(* __enter__ of the worker's "with" block.                                  *)
EnterBegins == wpc = "enter" /\ Kvaser!Open /\ UNCHANGED vars
EnterWaits  == (Kvaser!OpenReady) /\ UNCHANGED vars
Enters      == Kvaser!OpenReturns /\ EnterChannel
EnterFails  ==
    /\ Kvaser!OpenRefused \/ Kvaser!OpenTimesOut \/ Kvaser!OpenFails \/ Kvaser!OpenDied
    /\ EnterRaises

(* channel.read() of the worker's loop: a frame is its sequence number.     *)
Reads         == wpc = "read" /\ Kvaser!Take /\ ReadFrame(Head(buffer))
ReadWaits     == wpc = "read" /\ Kvaser!TakeTimesOut /\ UNCHANGED vars
ReadsNone     == Kvaser!TakeNothing /\ ReadNone
ReadPassesOn  == Kvaser!TakeRaises /\ ReadRaises

(* __exit__, with or without an exception on its way.                       *)
LeaveBegins == wpc \in {"leave", "leaveErr"} /\ Kvaser!Close /\ UNCHANGED vars
Leaves ==
    /\ Kvaser!CloseReturns
    /\ channel' = "closed"
    /\ LeaveChannel \/ LeaveAfterError
LeaveFails ==
    /\ Kvaser!CloseTimesOut
    /\ channel' = "failed"
    /\ LeaveRaises \/ LeaveAfterError

SystemNext ==
    \/ SystemGui
    \/ WorkerStep /\ UNCHANGED kvars
    \/ Kvaser!ReaderStep /\ UNCHANGED vars
    \/ EnterBegins \/ EnterWaits \/ Enters \/ EnterFails
    \/ Reads \/ ReadWaits \/ ReadsNone \/ ReadPassesOn
    \/ LeaveBegins \/ Leaves \/ LeaveFails

(* The worker and the reader go on: the driver calls of the reader return,  *)
(* and so do the waits of open(), read() and close(), which have timeouts.  *)
SystemFairness ==
    /\ WF_cvars(WorkerStep /\ UNCHANGED kvars)
    /\ WF_cvars(Kvaser!ReaderStep /\ UNCHANGED vars)
    /\ WF_cvars(EnterBegins \/ EnterWaits \/ Enters \/ EnterFails)
    /\ WF_cvars(Reads \/ ReadWaits \/ ReadsNone \/ ReadPassesOn)
    /\ WF_cvars(LeaveBegins \/ Leaves \/ LeaveFails)

SystemSpec == SystemInit /\ [][SystemNext]_cvars /\ SystemFairness

-----------------------------------------------------------------------------
(* Properties.                                                              *)

(* The Kvaser channel is a channel of the kind CaptureService assumes: the  *)
(* worker sees every frame once, numbered from zero and without gaps.       *)
ImplementsCapture == Spec

(* From the driver to the file nothing is lost or put out of order before   *)
(* the channel is closed: read() returns the frames in the order of the     *)
(* driver, the rest waits in the buffer, the session holds the first of     *)
(* them, and without a storage fault all that read() returned.              *)
SessionIsPrefixOfBus ==
    /\ Kvaser!NothingLost
    /\ persist /\ captures > 0 =>
           /\ sessionRows = SubSeq(received, 1, Len(sessionRows))
           /\ state = "stopped" => sessionRows = delivered

(* The bus has an owner, also when open() or close() has given up waiting.  *)
BusIsOwned == Kvaser!HandlesAreOwned

(* A driver that fails in a capture, while the worker is elsewhere or waits *)
(* for a frame, ends it, after the frames that were buffered before.        *)
FailureEndsCapture == (entered /\ readerError) ~> ~Alive

(* Whoever told the reader to stop, and however the capture ended: the      *)
(* handle is released and the thread is gone.                               *)
BusIsReleased ==
    (readerStop \/ (call = "idle" /\ reader # "none" /\ ~Alive)) ~> (~Kvaser!Running /\ ~handle)

-----------------------------------------------------------------------------
(* Why the properties hold: the worker and the object it has in use.        *)

(* The worker is inside a call of the channel only at the place that makes  *)
(* it, and has read what read() returned, no more and no less.              *)
LinkInv ==
    /\ call \in {"opening", "openFailed", "openCheck"} => wpc = "enter"
    /\ call = "empty" => wpc = "read"
    /\ call = "closing" => wpc \in {"leave", "leaveErr"}
    /\ nextFrame <= Len(delivered)
    /\ wpc \in {"running", "leave", "leaveErr", "lastDrain", "showRest"}
              \cup Looping \cup Closing
          \/ state = "stopped"
          => nextFrame = Len(delivered)

(* The inductive invariant of the service on a Kvaser channel.              *)
SystemIInv == IInv /\ SerialInv /\ Kvaser!ChannelIInv /\ LinkInv
=============================================================================
