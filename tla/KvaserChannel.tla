---------------------------- MODULE KvaserChannel ----------------------------
(***************************************************************************)
(* KvaserPassiveChannel of kvaser/backend.py: a reader thread owns the     *)
(* CANlib handle and copies frames into an unbounded buffer; the owner of  *)
(* the object opens it, takes frames from the buffer and closes it.  The   *)
(* two share the buffer, two events and two flags, without a lock.         *)
(*                                                                         *)
(* The driver is external: it may refuse, hang, have no message or fail.   *)
(* A hang is a reader that takes no step; the owner's waits have timeouts. *)
(* Every use is a "with" block on a new object, which is opened once.      *)
(* CaptureWithKvaser is this module under the capture service.             *)
(***************************************************************************)
EXTENDS Naturals, Sequences

CONSTANT MaxFrames      \* bound: frames the driver delivers

VARIABLES
    call,           \* where the owner is: "idle" or inside which call
    threadKept,     \* _reader_thread is not None
    entered,        \* open() has returned and close() has not
    reader,         \* where the reader thread is
    readerStop,     \* the event _reader_stop
    readerReady,    \* the event _reader_ready
    readerError,    \* _reader_error is not None
    channelActive,  \* _channel_active
    handle,         \* the reader holds an open CANlib handle
    buffer,         \* _frames
    received,       \* history: frames read from the driver, in order
    delivered,      \* history: frames read() has returned, in order
    raised          \* history: read() has raised the reader's error

owner  == <<call, threadKept, entered, delivered, raised>>
events == <<readerStop, readerReady, readerError, channelActive>>
kvars  == <<owner, reader, events, handle, buffer, received>>

Init ==
    /\ call = "idle" /\ threadKept = FALSE /\ entered = FALSE
    /\ reader = "none"
    /\ readerStop = FALSE /\ readerReady = FALSE /\ readerError = FALSE
    /\ channelActive = FALSE /\ handle = FALSE
    /\ buffer = <<>> /\ received = <<>> /\ delivered = <<>>
    /\ raised = FALSE

Running == reader \notin {"none", "dead"}

-----------------------------------------------------------------------------
(* The owner.                                                               *)

(* open() raises before it has started a reader: no CANlib, no silent mode, *)
(* an unknown bitrate.                                                      *)
OpenRefused == call = "idle" /\ reader = "none" /\ UNCHANGED kvars

(* open(): everything is reset and the reader is started.                   *)
Open ==
    /\ call = "idle" /\ reader = "none"
    /\ call' = "opening" /\ threadKept' = TRUE /\ reader' = "start"
    /\ readerStop' = FALSE /\ readerReady' = FALSE /\ readerError' = FALSE
    /\ channelActive' = FALSE /\ buffer' = <<>>
    /\ received' = <<>> /\ delivered' = <<>> /\ raised' = FALSE
    /\ UNCHANGED <<entered, handle>>

(* The wait for the ready event times out, and open() raises.               *)
OpenTimesOut ==
    /\ call = "opening" /\ ~readerReady
    /\ readerStop' = TRUE /\ call' = "idle"
    /\ UNCHANGED <<threadKept, entered, delivered, raised, reader,
                   readerReady, readerError, channelActive, handle, buffer,
                   received>>

(* The reader is ready, and the owner looks for its error first.            *)
OpenReady ==
    /\ call = "opening" /\ readerReady
    /\ call' = IF readerError THEN "openFailed" ELSE "openCheck"
    /\ UNCHANGED <<threadKept, entered, delivered, raised, reader,
                   events, handle, buffer, received>>

(* The failed reader is joined, with a timeout, and forgotten either way.   *)
OpenFails ==
    /\ call = "openFailed"
    /\ call' = "idle" /\ threadKept' = FALSE
    /\ UNCHANGED <<entered, delivered, raised, reader, events, handle,
                   buffer, received>>

(* open() returns, or raises because the channel is not active any more.    *)
OpenReturns ==
    /\ call = "openCheck" /\ channelActive
    /\ call' = "idle" /\ entered' = TRUE
    /\ UNCHANGED <<threadKept, delivered, raised, reader, events,
                   handle, buffer, received>>

OpenDied ==
    /\ call = "openCheck" /\ ~channelActive
    /\ call' = "idle"
    /\ UNCHANGED <<threadKept, entered, delivered, raised, reader,
                   events, handle, buffer, received>>

(* Slip: the frame returned stays in the buffer.                            *)
TakeKeeps ==
    /\ call = "idle" /\ entered /\ buffer # <<>>
    /\ delivered' = Append(delivered, Head(buffer))
    /\ UNCHANGED <<call, threadKept, entered, raised, reader, events,
                   handle, buffer, received>>

(* read(): the oldest buffered frame is returned.                           *)
Take ==
    /\ call = "idle" /\ entered /\ buffer # <<>>
    /\ delivered' = Append(delivered, Head(buffer))
    /\ buffer' = Tail(buffer)
    /\ UNCHANGED <<call, threadKept, entered, raised, reader, events,
                   handle, received>>

(* read(): the buffer stayed empty until the timeout.  The error is looked  *)
(* at in a step of its own; the reader may have put a frame meanwhile.      *)
TakeTimesOut ==
    /\ call = "idle" /\ entered /\ buffer = <<>>
    /\ call' = "empty"
    /\ UNCHANGED <<threadKept, entered, delivered, raised, reader,
                   events, handle, buffer, received>>

(* Slip: the error is not looked at every time.                             *)
TakeNothingAnyway ==
    /\ call = "empty"
    /\ call' = "idle"
    /\ UNCHANGED <<threadKept, entered, delivered, raised, reader,
                   events, handle, buffer, received>>

TakeNothing ==
    /\ call = "empty" /\ ~readerError
    /\ call' = "idle"
    /\ UNCHANGED <<threadKept, entered, delivered, raised, reader,
                   events, handle, buffer, received>>

TakeRaises ==
    /\ call = "empty" /\ readerError
    /\ call' = "idle" /\ raised' = TRUE
    /\ UNCHANGED <<threadKept, entered, delivered, reader, events,
                   handle, buffer, received>>

(* close(): the reader is told to stop and joined.                          *)
Close ==
    /\ call = "idle" /\ entered
    /\ call' = "closing" /\ readerStop' = TRUE
    /\ UNCHANGED <<threadKept, entered, delivered, raised, reader,
                   readerReady, readerError, channelActive, handle, buffer,
                   received>>

(* Slip: the thread is not waited for.                                      *)
ClosedAtOnce ==
    /\ call = "closing"
    /\ call' = "idle" /\ entered' = FALSE /\ threadKept' = FALSE
    /\ channelActive' = FALSE /\ buffer' = <<>>
    /\ UNCHANGED <<delivered, raised, reader, readerStop, readerReady,
                   readerError, handle, received>>

(* The reader has ended: what the buffer still holds is thrown away.        *)
CloseReturns ==
    /\ call = "closing" /\ ~Running
    /\ call' = "idle" /\ entered' = FALSE /\ threadKept' = FALSE
    /\ channelActive' = FALSE /\ buffer' = <<>>
    /\ UNCHANGED <<delivered, raised, reader, readerStop, readerReady,
                   readerError, handle, received>>

(* The join times out: close() raises, and the object is left as it is.     *)
CloseTimesOut ==
    /\ call = "closing" /\ Running
    /\ call' = "idle" /\ entered' = FALSE
    /\ UNCHANGED <<threadKept, delivered, raised, reader, events,
                   handle, buffer, received>>

OwnerStep ==
    \/ OpenRefused \/ Open \/ OpenTimesOut
    \/ OpenReady \/ OpenFails \/ OpenReturns \/ OpenDied
    \/ Take \/ TakeTimesOut \/ TakeNothing \/ TakeRaises
    \/ Close \/ CloseReturns \/ CloseTimesOut

-----------------------------------------------------------------------------
(* The reader thread.                                                       *)

(* openChannel: the driver gives a handle or raises.                        *)
OpenHandle ==
    /\ reader = "start"
    /\ \/ handle' = TRUE /\ reader' = "configure"
       \/ UNCHANGED handle /\ reader' = "except"
    /\ UNCHANGED <<owner, events, buffer, received>>

(* The driver is configured and put on the bus; then the channel is active. *)
GoOnBus ==
    /\ reader = "configure"
    /\ \/ channelActive' = TRUE /\ reader' = "active"
       \/ UNCHANGED channelActive /\ reader' = "except"
    /\ UNCHANGED <<owner, readerStop, readerReady, readerError, handle, buffer,
                   received>>

SetReady ==
    /\ reader = "active"
    /\ readerReady' = TRUE /\ reader' = "test"
    /\ UNCHANGED <<owner, readerStop, readerError, channelActive, handle,
                   buffer, received>>

(* Slip: the stop event is not looked at.                                   *)
NeverStop ==
    /\ reader = "test" /\ reader' = "read"
    /\ UNCHANGED <<owner, events, handle, buffer, received>>

TestStop ==
    /\ reader = "test"
    /\ reader' = IF readerStop THEN "finally" ELSE "read"
    /\ UNCHANGED <<owner, events, handle, buffer, received>>

(* Slip: frames are put in front.                                           *)
DriverReadStack ==
    /\ reader = "read" /\ Len(received) < MaxFrames
    /\ received' = Append(received, Len(received))
    /\ buffer' = <<Len(received)>> \o buffer
    /\ reader' = "test"
    /\ UNCHANGED <<owner, events, handle>>

(* A frame is copied into the buffer; its sequence is the count so far.     *)
DriverRead ==
    /\ reader = "read" /\ Len(received) < MaxFrames
    /\ received' = Append(received, Len(received))
    /\ buffer' = Append(buffer, Len(received))
    /\ reader' = "test"
    /\ UNCHANGED <<owner, events, handle>>

(* CanNoMsg within the millisecond of the driver's timeout.                 *)
DriverNoMessage ==
    /\ reader = "read"
    /\ reader' = "test"
    /\ UNCHANGED <<owner, events, handle, buffer, received>>

DriverFails ==
    /\ reader = "read"
    /\ reader' = "except"
    /\ UNCHANGED <<owner, events, handle, buffer, received>>

(* The exception handler: the error counts unless the owner asked to stop.  *)
KeepError ==
    /\ reader = "except"
    /\ readerError' = (readerError \/ ~readerStop)
    /\ reader' = "exceptReady"
    /\ UNCHANGED <<owner, readerStop, readerReady, channelActive, handle,
                   buffer, received>>

FailReady ==
    /\ reader = "exceptReady"
    /\ readerReady' = TRUE /\ reader' = "finally"
    /\ UNCHANGED <<owner, readerStop, readerError, channelActive, handle,
                   buffer, received>>

(* The "finally" block: inactive first, then the handle is released; what   *)
(* the driver raises on the way is dropped.                                 *)
Deactivate ==
    /\ reader = "finally"
    /\ channelActive' = FALSE /\ reader' = "release"
    /\ UNCHANGED <<owner, readerStop, readerReady, readerError, handle, buffer,
                   received>>

Release ==
    /\ reader = "release"
    /\ handle' = FALSE /\ reader' = "last"
    /\ UNCHANGED <<owner, events, buffer, received>>

ReaderEnds ==
    /\ reader = "last"
    /\ readerReady' = TRUE /\ reader' = "dead"
    /\ UNCHANGED <<owner, readerStop, readerError, channelActive, handle,
                   buffer, received>>

ReaderStep ==
    \/ OpenHandle \/ GoOnBus \/ SetReady \/ TestStop
    \/ DriverRead \/ DriverNoMessage \/ DriverFails
    \/ KeepError \/ FailReady \/ Deactivate \/ Release \/ ReaderEnds

-----------------------------------------------------------------------------

Next == OwnerStep \/ ReaderStep

Spec == Init /\ [][Next]_kvars

-----------------------------------------------------------------------------
(* Properties.                                                              *)

OwnerCall == {"idle", "opening", "openFailed", "openCheck", "empty", "closing"}
ReaderPlace ==
    {"none", "start", "configure", "active", "test", "read", "except",
     "exceptReady", "finally", "release", "last", "dead"}

(* Every variable holds a value of its kind.                                *)
TypeOK ==
    /\ call \in OwnerCall /\ reader \in ReaderPlace
    /\ threadKept \in BOOLEAN /\ entered \in BOOLEAN /\ raised \in BOOLEAN
    /\ readerStop \in BOOLEAN /\ readerReady \in BOOLEAN
    /\ readerError \in BOOLEAN /\ channelActive \in BOOLEAN
    /\ handle \in BOOLEAN
    /\ buffer \in Seq(Nat) /\ received \in Seq(Nat) /\ delivered \in Seq(Nat)

(* Until the channel is closed nothing the driver gave is lost, doubled or  *)
(* put out of order: it was returned by read() or waits in the buffer.      *)
NothingLost == threadKept => delivered \o buffer = received

(* A reader that no owner keeps any more, after close() or after an open()  *)
(* that gave up joining it, is past its last use of the bus; once close()   *)
(* has returned it has ended and released the handle.                       *)
OrphanHasLeft ==
    ~threadKept =>
        /\ reader \in {"none", "exceptReady", "finally", "release", "last", "dead"}
        /\ (readerStop => ~Running /\ ~handle)

(* An active channel has its handle, and open() returned while it had one.  *)
ActiveHasHandle ==
    /\ channelActive => handle
    /\ entered /\ ~readerError /\ ~readerStop => handle /\ channelActive

(* Whoever uses the bus holds it: the owner of an active channel, and after *)
(* close() or an open() that gave up nobody for longer than one call.       *)
HandlesAreOwned == OrphanHasLeft /\ ActiveHasHandle

-----------------------------------------------------------------------------
(* Why the properties hold: what the owner and the reader know of each      *)
(* other, place by place.                                                   *)

(* A channel that is entered, or inside open() or close(), keeps its        *)
(* reader; open() has not told it to stop, close() has.                     *)
OwnerInv ==
    /\ entered => threadKept /\ reader # "none"
    /\ call \in {"opening", "openFailed", "openCheck"}
          => threadKept /\ ~entered /\ ~readerStop
    /\ call = "openFailed" => readerError
    /\ call = "closing" => entered /\ readerStop

(* The reader holds its handle from the open call to the release, and the   *)
(* channel is active for a part of that time; an error is kept on the way   *)
(* out, and the way out is taken only for an error or when told to stop.    *)
WayOut == {"exceptReady", "finally", "release", "last", "dead"}

ReaderInv ==
    /\ reader \in {"none", "start", "last", "dead"} => ~handle
    /\ reader \in {"configure", "active", "test", "read"} => handle
    /\ channelActive =>
          /\ handle
          /\ reader \in {"active", "test", "read", "except", "exceptReady", "finally"}
    /\ readerError => reader \in WayOut
    /\ reader \in WayOut => readerStop \/ readerError

(* Frames are numbered in the order of the driver, and read() returns them  *)
(* in that order from the first one on.                                     *)
Serial(frames) == \A i \in DOMAIN frames : frames[i] + 1 = i

FramesInv ==
    /\ NothingLost
    /\ Serial(received) /\ Serial(delivered)
    /\ Len(delivered) <= Len(received) /\ Len(received) <= MaxFrames
    /\ call \in {"opening", "openFailed", "openCheck"} => delivered = <<>>

(* The inductive invariant of the channel.                                  *)
ChannelIInv == TypeOK /\ OwnerInv /\ ReaderInv /\ FramesInv /\ HandlesAreOwned
=============================================================================
