--------------------------- MODULE CaptureRecorder ---------------------------
(***************************************************************************)
(* What the capture service promises its users, without threads or files:  *)
(* a capture records frames one by one, presents a prefix of what it has   *)
(* recorded, and ends done only when everything recorded was presented.    *)
(* It may fail, and storage that keeps failing may abandon it.             *)
(***************************************************************************)
EXTENDS Naturals, Sequences

CONSTANT Frame  \* what can be recorded

VARIABLES
    phase,      \* "idle", "active", "done", "failed" or "abandoned"
    log,        \* frames recorded, in order
    presented   \* frames handed to the view, in order

vars == <<phase, log, presented>>

Init == phase = "idle" /\ log = <<>> /\ presented = <<>>

Begin ==
    /\ phase # "active"
    /\ phase' = "active" /\ log' = <<>> /\ presented' = <<>>

Record(f) ==
    /\ phase = "active"
    /\ log' = Append(log, f)
    /\ UNCHANGED <<phase, presented>>

Present ==
    /\ phase = "active"
    /\ \E n \in Len(presented) .. Len(log) : presented' = SubSeq(log, 1, n)
    /\ UNCHANGED <<phase, log>>

Finish ==
    /\ phase = "active" /\ presented = log
    /\ phase' = "done" /\ UNCHANGED <<log, presented>>

Fail ==
    /\ phase = "active"
    /\ phase' \in {"failed", "abandoned"}
    /\ UNCHANGED <<log, presented>>

Next == Begin \/ (\E f \in Frame : Record(f)) \/ Present \/ Finish \/ Fail

Spec == Init /\ [][Next]_vars
=============================================================================
