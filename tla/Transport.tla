------------------------------ MODULE Transport ------------------------------
(***************************************************************************)
(* The reassembly of transport messages from the frames of a bus           *)
(* (app/transport.py, app/stream_pipeline.py): J1939 TP sessions, one for  *)
(* each pair of addresses, and ISO-TP sessions, one for each identifier,   *)
(* fed by one thread in the order in which the adapter received the        *)
(* frames.  The senders and the bus are external: senders of all links     *)
(* interleave, give a transfer up and start again, repeat packets that     *)
(* their receiver asks for, abort, send malformed headers, and any frame   *)
(* may be lost before the adapter.                                         *)
(*                                                                         *)
(* A transfer is a number; a chunk <<at, packet, of>> is the data of one   *)
(* packet of transfer `of', placed as the `at'-th part of a payload.       *)
(***************************************************************************)
EXTENDS Integers, Sequences, FiniteSets

CONSTANTS
    Nodes,          \* addresses on the J1939 bus
    Global,         \* the broadcast address (255)
    Ids,            \* identifiers used by ISO-TP
    PacketBytes,    \* data bytes of TP.DT and of a consecutive frame (7)
    FirstBytes,     \* data bytes of an ISO-TP first frame (6)
    Modulus,        \* ISO-TP sequence numbers wrap here (16)
    Sizes,          \* payload lengths that headers declare
    MaxTransfers,   \* bound on the transfers
    MaxFrames,      \* bound on the frames received
    MaxLosses,      \* bound on the frames lost
    MaxExtras       \* bound on repeated, aborting and malformed frames

ASSUME NodesAssumption == Global \notin Nodes
ASSUME BytesAssumption ==
    /\ PacketBytes \in Nat \ {0}
    /\ FirstBytes \in Nat \ {0}
    /\ Modulus \in Nat \ {0}
    /\ Sizes \subseteq Nat
    /\ {MaxTransfers, MaxFrames, MaxLosses, MaxExtras} \subseteq Nat

Keys == {k \in Nodes \X (Nodes \cup {Global}) : k[1] # k[2]}

\* The two reassemblers keep tables of their own.
ASSUME LinksAssumption == Keys \cap Ids = {}

VARIABLES
    tp,         \* J1939TpReassembler._sessions
    isotp,      \* IsoTpReassembler._sessions
    messages,   \* every message that feed() and flush() returned
    clock,      \* frames fed so far: the sequence number of the last one
    ignored,    \* frames that steer a transfer and belong to no message
    flushed,    \* flush() was called
    transfers,  \* external: what was sent, in the order of the headers
    sending,    \* external: the transfer under way on each link, or 0
    upto,       \* external: its last packet sent
    arrived,    \* external: <<transfer, packet>> received, packet 0 the header
    lost,       \* external: <<transfer, packet>> lost
    aborted,    \* external: transfers under way when their pair was aborted
    extras      \* external: frames spent of MaxExtras

receiver == <<tp, isotp, messages, clock, ignored, flushed>>
bus == <<transfers, sending, upto, arrived, lost, aborted, extras>>
vars == <<receiver, bus>>

-----------------------------------------------------------------------------
(* Sessions and messages. *)

NoSession ==
    [of |-> 0, size |-> 0, count |-> 0, frames |-> {}, chunks |-> {}, errors |-> {}]
NoChain == [of |-> 0, size |-> 0, frames |-> {}, chunks |-> {}, expected |-> 0]

\* Every session holds at least the frame that started it.
IsOpen(s) == s.frames # {}

Packets(size) == (size + PacketBytes - 1) \div PacketBytes
Consecutive(size) == IF size <= FirstBytes THEN 0 ELSE Packets(size - FirstBytes)

Number == clock + 1

Message(link, of, frames, payload, complete, errors) ==
    [link |-> link, of |-> of, frames |-> frames, payload |-> payload,
     complete |-> complete, errors |-> errors]

Orphan(link) == Message(link, 0, {Number}, {}, FALSE, {"orphan"})

\* The dictionary key of a J1939 session.
TpKey(source, destination) == <<source, destination>>

\* _build_message: the chunks in the order of their numbers, cut at the
\* declared length.
Joined(s) ==
    {c \in s.chunks :
        Cardinality({d \in s.chunks : d[1] < c[1]}) * PacketBytes < s.size}

TpMessage(k, s, complete, errors) ==
    Message(k, s.of, s.frames, Joined(s), complete, s.errors \cup errors)

Errors ==
    {"invalid length", "invalid count", "mismatch", "invalid packet", "duplicate",
     "orphan", "replaced", "aborted", "ended"}
Invalid == {"invalid length", "invalid count", "invalid packet"}

HeaderErrors(size, count) ==
    {e \in {"invalid length", "invalid count", "mismatch"} :
        CASE e = "invalid length" -> size = 0
          [] e = "invalid count"  -> count = 0
          [] OTHER                -> size > 0 /\ count # Packets(size)}

\* Slip: the session that the header replaces is forgotten.
StartSilently(source, destination, t, size, count) ==
    /\ tp' = [tp EXCEPT ![TpKey(source, destination)] =
                [of |-> t, size |-> size, count |-> count, frames |-> {Number},
                 chunks |-> {}, errors |-> HeaderErrors(size, count)]]
    /\ UNCHANGED <<messages, isotp, ignored>>

\* _start_session: a header ends the session that it finds under its key.
StartSession(source, destination, t, size, count) ==
    LET k == TpKey(source, destination)
    IN  /\ tp' = [tp EXCEPT ![k] =
                    [of |-> t, size |-> size, count |-> count, frames |-> {Number},
                     chunks |-> {}, errors |-> HeaderErrors(size, count)]]
        /\ messages' = messages \cup
              {TpMessage(k, s, FALSE, {"replaced"}) : s \in {r \in {tp[k]} : IsOpen(r)}}
        /\ UNCHANGED <<isotp, ignored>>

\* What a session holds once TP.DT number p of transfer t is added to it.
Stored(s, p, t) ==
    LET known == \E c \in s.chunks : c[1] = p
        valid == p \in 1 .. s.count
    IN  [of |-> s.of, size |-> s.size, count |-> s.count,
         frames |-> s.frames \cup {Number},
         chunks |-> IF valid /\ ~known THEN s.chunks \cup {<<p, p, t>>} ELSE s.chunks,
         errors |-> s.errors \cup
            (IF ~valid THEN {"invalid packet"} ELSE IF known THEN {"duplicate"} ELSE {})]

AllPresent(s) == {c[1] : c \in s.chunks} = 1 .. s.count

\* Slips: the declared length is not compared, or must be exceeded.
CompleteByCount(s) == s.errors \cap Invalid = {}
CompleteBeyond(s) == s.count * PacketBytes > s.size /\ s.errors \cap Invalid = {}

TpComplete(s) == s.count * PacketBytes >= s.size /\ s.errors \cap Invalid = {}

\* _feed_dt: without a session the packet is an orphan; the packet that fills
\* the last hole ends the session.
FeedDt(source, destination, p, t) ==
    LET k == TpKey(source, destination)
        s == Stored(tp[k], p, t)
    IN  /\ \/ /\ ~IsOpen(tp[k])
              /\ messages' = messages \cup {Orphan(k)}
              /\ UNCHANGED tp
           \/ /\ IsOpen(tp[k])
              /\ ~AllPresent(s)
              /\ tp' = [tp EXCEPT ![k] = s]
              /\ UNCHANGED messages
           \/ /\ IsOpen(tp[k])
              /\ AllPresent(s)
              /\ tp' = [tp EXCEPT ![k] = NoSession]
              /\ messages' = messages \cup {TpMessage(k, s, TpComplete(s), {})}
        /\ UNCHANGED <<isotp, ignored>>

\* The session that an abort ends: that of its own direction first, because
\* the frame's PGN is not looked at.
AbortVictims(source, destination) ==
    LET own == {TpKey(source, destination)}
        reverse == {TpKey(destination, source)}
    IN  IF \E k \in own : IsOpen(tp[k]) THEN own
        ELSE {k \in reverse : IsOpen(tp[k])}

\* _feed_cm with CM_ABORT.
FeedAbort(source, destination) ==
    LET victims == AbortVictims(source, destination)
    IN  /\ tp' = [k \in Keys |-> IF k \in victims THEN NoSession ELSE tp[k]]
        /\ messages' = messages \cup
              IF victims = {} THEN {Orphan(TpKey(source, destination))}
              ELSE {TpMessage(k, [tp[k] EXCEPT !.frames = @ \cup {Number}],
                              FALSE, {"aborted"}) : k \in victims}
        /\ UNCHANGED <<isotp, ignored>>

-----------------------------------------------------------------------------
(* ISO-TP. *)

ChainBytes(s) == FirstBytes + (Cardinality(s.chunks) - 1) * PacketBytes

Chain(i, s, complete, errors) ==
    Message(i, s.of, s.frames, s.chunks, complete, errors)

\* _first_frame: it ends the session under its identifier, and is a message at
\* once if it holds the whole payload.
FeedFirst(i, t, size) ==
    LET s == [of |-> t, size |-> size, frames |-> {Number},
              chunks |-> {<<0, 0, t>>}, expected |-> 1 % Modulus]
        whole == ChainBytes(s) >= size
        ended == {Chain(i, r, FALSE, {"replaced"}) : r \in {q \in {isotp[i]} : IsOpen(q)}}
    IN  /\ isotp' = [isotp EXCEPT ![i] = IF whole THEN NoChain ELSE s]
        /\ messages' = messages \cup ended
                         \cup {m \in {Chain(i, s, TRUE, {})} : whole}
        /\ UNCHANGED <<tp, ignored>>

Extended(s, p, t) ==
    [of |-> s.of, size |-> s.size, frames |-> s.frames \cup {Number},
     chunks |-> s.chunks \cup {<<Cardinality(s.chunks), p, t>>},
     expected |-> (s.expected + 1) % Modulus]

\* _consecutive_frame: a number that is not the expected one ends the session.
FeedConsecutive(i, p, t) ==
    LET s == Extended(isotp[i], p, t)
        expected == p % Modulus = isotp[i].expected
    IN  /\ \/ /\ ~IsOpen(isotp[i])
              /\ messages' = messages \cup {Orphan(i)}
              /\ UNCHANGED isotp
           \/ /\ IsOpen(isotp[i]) /\ ~expected
              /\ isotp' = [isotp EXCEPT ![i] = NoChain]
              /\ messages' = messages \cup
                    {Chain(i, [isotp[i] EXCEPT !.frames = @ \cup {Number}],
                           FALSE, {"mismatch"})}
           \/ /\ IsOpen(isotp[i]) /\ expected
              /\ ChainBytes(s) < s.size
              /\ isotp' = [isotp EXCEPT ![i] = s]
              /\ UNCHANGED messages
           \/ /\ IsOpen(isotp[i]) /\ expected
              /\ ChainBytes(s) >= s.size
              /\ isotp' = [isotp EXCEPT ![i] = NoChain]
              /\ messages' = messages \cup {Chain(i, s, TRUE, {})}
        /\ UNCHANGED <<tp, ignored>>

-----------------------------------------------------------------------------
Init ==
    /\ tp = [k \in Keys |-> NoSession]
    /\ isotp = [i \in Ids |-> NoChain]
    /\ messages = {} /\ clock = 0 /\ ignored = {} /\ flushed = FALSE
    /\ transfers = <<>>
    /\ sending = [l \in Keys \cup Ids |-> 0]
    /\ upto = [l \in Keys \cup Ids |-> 0]
    /\ arrived = {} /\ lost = {} /\ aborted = {} /\ extras = 0

Extra == extras < MaxExtras /\ extras' = extras + 1

\* A frame that reaches the pipeline is fed to it; no frame follows flush().
Fed(Feed) ==
    /\ ~flushed
    /\ clock < MaxFrames
    /\ Feed
    /\ clock' = Number
    /\ UNCHANGED flushed

\* Packet p of transfer t is on the bus; the adapter may miss it.
Carried(t, p, Feed) ==
    \/ /\ Fed(Feed)
       /\ arrived' = arrived \cup {<<t, p>>}
       /\ UNCHANGED lost
    \/ /\ ~flushed
       /\ Cardinality(lost) < MaxLosses
       /\ lost' = lost \cup {<<t, p>>}
       /\ UNCHANGED <<receiver, arrived>>

-----------------------------------------------------------------------------
(* The senders.  A new transfer may start whatever became of the last one. *)

Announce(link, size, count, Feed) ==
    LET t == Len(transfers) + 1
    IN  /\ Len(transfers) < MaxTransfers
        /\ transfers' = Append(transfers, [link |-> link, size |-> size, count |-> count])
        /\ sending' = [sending EXCEPT ![link] = t]
        /\ upto' = [upto EXCEPT ![link] = 0]
        /\ UNCHANGED aborted
        /\ Carried(t, 0, Feed)

\* TP.CM with BAM or RTS.
SendTpHeader(k) ==
    \E size \in Sizes :
        /\ size > 0
        /\ Announce(k, size, Packets(size),
               StartSession(k[1], k[2], Len(transfers) + 1, size, Packets(size)))
        /\ UNCHANGED extras

\* The same with a length or a packet count that cannot be right.
SendBadHeader(k) ==
    \E size \in Sizes \cup {0} : \E count \in 0 .. Packets(size) + 1 :
        /\ HeaderErrors(size, count) # {}
        /\ Extra
        /\ Announce(k, size, count,
               StartSession(k[1], k[2], Len(transfers) + 1, size, count))

Sends(link, last) ==
    /\ sending[link] # 0
    /\ upto[link] < last
    /\ upto' = [upto EXCEPT ![link] = @ + 1]
    /\ UNCHANGED <<transfers, sending, aborted, extras>>

SendDt(k) ==
    LET t == sending[k]
        p == upto[k] + 1
    IN  /\ t # 0
        /\ Sends(k, Packets(transfers[t].size))
        /\ Carried(t, p, FeedDt(k[1], k[2], p, t))

\* The receiver of an RTS/CTS transfer may ask for packets again.
RepeatDt(k) ==
    \E p \in 1 .. upto[k] :
        /\ k[2] # Global
        /\ sending[k] # 0
        /\ Extra
        /\ Carried(sending[k], p, FeedDt(k[1], k[2], p, sending[k]))
        /\ UNCHANGED <<transfers, sending, upto, aborted>>

\* Either end of the transfer on k aborts it.
SendAbort(k) ==
    \E by \in {k, <<k[2], k[1]>>} :
        /\ k[2] # Global
        /\ sending[k] # 0
        /\ Extra
        /\ Fed(FeedAbort(by[1], by[2]))
        /\ aborted' = aborted \cup {sending[k], sending[<<k[2], k[1]>>]}
        /\ sending' = [sending EXCEPT ![k] = 0]
        /\ UNCHANGED <<transfers, upto, arrived, lost>>

SendFirst(i) ==
    \E size \in Sizes :
        /\ size > 0
        /\ Announce(i, size, 0, FeedFirst(i, Len(transfers) + 1, size))
        /\ UNCHANGED extras

SendConsecutive(i) ==
    LET t == sending[i]
        p == upto[i] + 1
    IN  /\ t # 0
        /\ Sends(i, Consecutive(transfers[t].size))
        /\ Carried(t, p, FeedConsecutive(i, p, t))

-----------------------------------------------------------------------------
(* Frames that leave every session alone. *)

FeedAlone(m) ==
    /\ messages' = messages \cup m
    /\ UNCHANGED <<tp, isotp>>

\* A single frame, a truncated frame, a frame of no transport.
SendAlone ==
    /\ Extra
    /\ \E m \in {Orphan(l) : l \in Keys \cup Ids} \cup
                {Message(i, 0, {Number}, {}, TRUE, {}) : i \in Ids} :
           Fed(FeedAlone({m}) /\ UNCHANGED ignored)
    /\ UNCHANGED <<transfers, sending, upto, arrived, lost, aborted>>

\* CTS, the acknowledgement of the end, and ISO-TP flow control.
SendControl ==
    /\ Extra
    /\ Fed(FeedAlone({}) /\ ignored' = ignored \cup {Number})
    /\ UNCHANGED <<transfers, sending, upto, arrived, lost, aborted>>

\* The capture ends: what is open becomes incomplete messages.
Flush ==
    /\ ~flushed
    /\ flushed' = TRUE
    /\ messages' = messages
          \cup {TpMessage(k, tp[k], FALSE, {"ended"}) : k \in {l \in Keys : IsOpen(tp[l])}}
          \cup {Chain(i, isotp[i], FALSE, {"ended"}) : i \in {j \in Ids : IsOpen(isotp[j])}}
    /\ tp' = [k \in Keys |-> NoSession]
    /\ isotp' = [i \in Ids |-> NoChain]
    /\ UNCHANGED <<clock, ignored, bus>>

Next ==
    \/ \E k \in Keys : \/ SendTpHeader(k) \/ SendBadHeader(k)
                       \/ SendDt(k) \/ RepeatDt(k) \/ SendAbort(k)
    \/ \E i \in Ids : SendFirst(i) \/ SendConsecutive(i)
    \/ SendAlone
    \/ SendControl
    \/ Flush

Spec == Init /\ [][Next]_vars

-----------------------------------------------------------------------------
(* Properties. *)

Links == Keys \cup Ids
Frames == SUBSET (1 .. clock)
Chunks == {c \in SUBSET (Nat \X Nat \X Nat) : IsFiniteSet(c)}

TpSession ==
    [of : Nat, size : Nat, count : Nat, frames : Frames, chunks : Chunks,
     errors : SUBSET Errors]

IsoTpSession ==
    [of : Nat, size : Nat, frames : Frames, chunks : Chunks,
     expected : 0 .. Modulus - 1]

Messages ==
    [link : Links, of : Nat, frames : Frames \ {{}}, payload : Chunks,
     complete : BOOLEAN, errors : SUBSET Errors]

ReceiverTypeOK ==
    /\ clock \in Nat
    /\ tp \in [Keys -> TpSession]
    /\ isotp \in [Ids -> IsoTpSession]
    /\ messages \subseteq Messages
    /\ ignored \in Frames
    /\ flushed \in BOOLEAN

BusTypeOK ==
    /\ transfers \in Seq([link : Links, size : Nat, count : Nat])
    /\ sending \in [Links -> 0 .. Len(transfers)]
    /\ upto \in [Links -> Nat]

TypeOK == ReceiverTypeOK /\ BusTypeOK

InMessage(n) == \E m \in messages : n \in m.frames
InSession(n) ==
    \/ \E k \in Keys : n \in tp[k].frames
    \/ \E i \in Ids : n \in isotp[i].frames

\* No frame is counted twice: messages and sessions share no frame.
NoFrameTwice ==
    /\ \A m1, m2 \in messages : m1 = m2 \/ m1.frames \cap m2.frames = {}
    /\ \A k1, k2 \in Keys : k1 = k2 \/ tp[k1].frames \cap tp[k2].frames = {}
    /\ \A i1, i2 \in Ids : i1 = i2 \/ isotp[i1].frames \cap isotp[i2].frames = {}
    /\ \A k \in Keys, i \in Ids : tp[k].frames \cap isotp[i].frames = {}
    /\ \A n \in 1 .. clock : ~(InMessage(n) /\ InSession(n))

\* None is lost between the adapter and the messages: a frame that carries
\* data, or opens or aborts a transfer, is in a message or in an open session,
\* and after flush() in a message; a frame that only steers is in neither.
NoFrameLost ==
    /\ \A n \in (1 .. clock) \ ignored :
          InMessage(n) \/ (InSession(n) /\ ~flushed)
    /\ \A n \in ignored : ~InMessage(n) /\ ~InSession(n)

\* Every frame that was fed has one place, wherever its transfer ended.
FramesOnce == NoFrameTwice /\ NoFrameLost

\* The payload of transfer t.
Whole(t) ==
    LET sent == transfers[t]
    IN  IF sent.link \in Ids
        THEN {<<p, p, t>> : p \in 0 .. Consecutive(sent.size)}
        ELSE {<<p, p, t>> : p \in 1 .. Packets(sent.size)}

HeaderLost(t) == <<t, 0>> \in lost

\* A message that is marked complete has the payload of one transfer, every
\* packet in its place, or else it holds a packet of a transfer whose header
\* never arrived, which no receiver could tell apart: lost data packets,
\* repeats, aborts and new starts do not make a wrong payload look complete.
CompleteIsExact ==
    \A m \in messages :
        (m.complete /\ m.payload # {}) =>
            \/ m.payload = Whole(m.of)
            \/ \E c \in m.payload : HeaderLost(c[3])

\* No message and no session mixes the packets of two links, however they
\* interleave on the bus.
LinksKeptApart ==
    /\ \A m \in messages : \A c \in m.payload : transfers[c[3]].link = m.link
    /\ \A k \in Keys : \A c \in tp[k].chunks : transfers[c[3]].link = k
    /\ \A i \in Ids : \A c \in isotp[i].chunks : transfers[c[3]].link = i

\* What is reported as a message, or may become one, is of one transfer.
PayloadsAreExact == CompleteIsExact /\ LinksKeptApart

\* Every packet of transfer t, its header included, was received.
Received(t) ==
    {<<t, 0>>} \cup {<<t, c[2]>> : c \in Whole(t)} \subseteq arrived

WellFormed(t) ==
    \/ transfers[t].link \in Ids
    \/ HeaderErrors(transfers[t].size, transfers[t].count) = {}

\* A transfer that was received in full, in any mixture with others and with
\* repeated packets, is a complete message at once, unless it was aborted; an
\* ISO-TP transfer is received in full only without a loss.
ReceivedIsComplete ==
    \A t \in 1 .. Len(transfers) :
        (Received(t) /\ WellFormed(t) /\ t \notin aborted) =>
            \E m \in messages : m.of = t /\ m.complete /\ m.payload = Whole(t)

-----------------------------------------------------------------------------
(* Why the properties hold. *)

SentOn(t, l) == t \in 1 .. Len(transfers) /\ transfers[t].link = l

LastPacket(t) ==
    IF transfers[t].link \in Ids THEN Consecutive(transfers[t].size)
    ELSE Packets(transfers[t].size)

\* A link sends its own transfers, one packet after the other.
SenderInv(l) ==
    sending[l] # 0 =>
        /\ SentOn(sending[l], l)
        /\ upto[l] <= LastPacket(sending[l])
        /\ \A a \in arrived : a[1] = sending[l] => a[2] <= upto[l]

\* A session that found its header is fed by the transfer of that header, or by
\* later ones whose headers were lost.
FedBy(of, l) ==
    /\ SentOn(of, l)
    /\ sending[l] \in {0, of} \/ HeaderLost(sending[l])

Fits(c, of, l) == SentOn(c[3], l) /\ (c[3] = of \/ HeaderLost(c[3]))

\* A J1939 session holds at most one packet of each number, in its place.
TpSound(k, s) ==
    /\ FedBy(s.of, k)
    /\ s.size = transfers[s.of].size /\ s.count = transfers[s.of].count
    /\ \A c \in s.chunks : Fits(c, s.of, k) /\ c[1] = c[2] /\ c[1] \in 1 .. s.count
    /\ \A c, d \in s.chunks : c[1] = d[1] => c = d

TpInv(k) == tp[k] = NoSession \/ TpSound(k, tp[k])

\* An ISO-TP session numbers what it accepts.  Packets of its own transfer are
\* never behind their place, and no further ahead than the sender is ahead of
\* the session: a session that is filled by one transfer alone has them all.
ChainSound(i, s) ==
    LET last == Cardinality(s.chunks) - 1
    IN  /\ FedBy(s.of, i)
        /\ s.size = transfers[s.of].size
        /\ {c[1] : c \in s.chunks} = 0 .. last
        /\ \A c \in s.chunks : Fits(c, s.of, i)
        /\ (\A c \in s.chunks : c[3] = s.of) =>
              \A c \in s.chunks :
                 /\ c[2] >= c[1]
                 /\ sending[i] = s.of => c[2] + last <= c[1] + upto[i]

ChainInv(i) == isotp[i] = NoChain \/ ChainSound(i, isotp[i])

\* What was returned stays true of the transfers that it came from.
MessageInv(m) ==
    /\ \A c \in m.payload : SentOn(c[3], m.link)
    /\ (m.complete /\ m.payload # {}) =>
          \/ m.payload = Whole(m.of)
          \/ \E c \in m.payload : HeaderLost(c[3])

PayloadInv ==
    /\ arrived \subseteq (1 .. Len(transfers)) \X Nat
    /\ \A l \in Links : SenderInv(l)
    /\ \A k \in Keys : TpInv(k)
    /\ \A i \in Ids : ChainInv(i)
    /\ \A m \in messages : MessageInv(m)

\* While a transfer whose header arrived is being sent, its session holds
\* what arrived of it, and can still be completed.
TpFollows(k) ==
    LET t == sending[k]
    IN  (~flushed /\ t # 0 /\ <<t, 0>> \in arrived /\ WellFormed(t) /\ t \notin aborted /\ ~Received(t)) =>
            /\ IsOpen(tp[k])
            /\ tp[k].of = t
            /\ tp[k].errors \cap Invalid = {}
            /\ tp[k].chunks =
                  {<<p, p, t>> : p \in {q \in 1 .. LastPacket(t) : <<t, q>> \in arrived}}

\* A chain without a gap so far expects the packet that is sent next.
ChainFollows(i) ==
    LET t == sending[i]
    IN  (~flushed /\ t # 0 /\ upto[i] < LastPacket(t) /\ \A p \in 0 .. upto[i] : <<t, p>> \in arrived) =>
            /\ IsOpen(isotp[i])
            /\ isotp[i].of = t
            /\ isotp[i].expected = (upto[i] + 1) % Modulus
            /\ isotp[i].chunks = {<<p, p, t>> : p \in 0 .. upto[i]}

ProgressInv ==
    /\ \A k \in Keys : TpFollows(k)
    /\ \A i \in Ids : ChainFollows(i)
    /\ ReceivedIsComplete

TransportIInv == FramesOnce /\ PayloadInv /\ ProgressInv

=============================================================================
