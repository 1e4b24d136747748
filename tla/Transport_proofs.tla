--------------------------- MODULE Transport_proofs ---------------------------
(***************************************************************************)
(* Proofs about the reassemblers of Transport, for every number of         *)
(* addresses, identifiers, transfers, frames and losses.                   *)
(*                                                                         *)
(* The first part proves that every frame fed has one place: TypeOK /\    *)
(* FramesOnce is inductive.  A frame is fed in one of a few shapes: the    *)
(* frames of one session and the new frame are divided between what the    *)
(* session holds afterwards and the messages returned.  TpDivides and      *)
(* IsoTpDivides prove once that such a step keeps FramesOnce; the steps of *)
(* the actions show that each handler has the shape, and keeps the types.  *)
(*                                                                         *)
(* The second part proves that a payload reported as complete is one       *)
(* transfer's, and that a transfer received in full is reported:           *)
(* TransportIInv is inductive.  It is proved of the bus (BusInv), of the   *)
(* sessions and messages (Sessions), and of what was received so far       *)
(* (ProgressInv).  A J1939 session knows its packets by number.  An ISO-TP *)
(* session does not: its sequence number wraps, so a packet may be taken   *)
(* for one that was sent a multiple of Modulus earlier.  But no packet is  *)
(* earlier in its transfer than its place in the session, and none is      *)
(* further ahead of its place than the sender is of the session, so that a *)
(* session as long as its transfer has every packet in its place.          *)
(***************************************************************************)
EXTENDS Transport, FiniteSetTheorems, SequenceTheorems, TLAPS

\* The messages N hold the frames S, each of them once.
Divides(N, S) ==
    /\ \A m \in N : m.frames \subseteq S
    /\ \A n \in S : \E m \in N : n \in m.frames
    /\ \A m1, m2 \in N : m1 = m2 \/ m1.frames \cap m2.frames = {}

\* A frame is fed: the clock goes on and flush() was not called.
Ticks == ~flushed /\ flushed' = flushed /\ clock' = clock + 1

\* A handler that divides the frames of J1939 session k and the new frame
\* between the session and new messages keeps every frame in one place.
LEMMA TpDivides ==
    ASSUME ReceiverTypeOK, ReceiverTypeOK', FramesOnce, Ticks, NEW k \in Keys, NEW N, NEW S,
           isotp' = isotp, ignored' = ignored, messages' = messages \cup N,
           \A l \in Keys : l # k => tp'[l].frames = tp[l].frames,
           Divides(N, S),
           S \cup tp'[k].frames = tp[k].frames \cup {Number},
           S \cap tp'[k].frames = {}
    PROVE  FramesOnce'
<1> DEFINE New(n) == n \in S \/ n \in tp'[k].frames
<1>1. /\ \A l \in Keys : tp[l].frames \subseteq 1 .. clock
      /\ \A i \in Ids : isotp[i].frames \subseteq 1 .. clock
      /\ \A m \in messages : m.frames \subseteq 1 .. clock
      /\ clock \in Nat /\ ignored \subseteq 1 .. clock
  BY DEF ReceiverTypeOK, TpSession, IsoTpSession, Messages, Frames
<1>2. /\ Number \notin 1 .. clock
      /\ 1 .. clock' = (1 .. clock) \cup {Number}
  BY <1>1 DEF Ticks, Number
<1>3. \A n \in tp[k].frames : \A m \in messages : n \notin m.frames
  BY <1>1 DEF FramesOnce, NoFrameTwice, InMessage, InSession
<1>4. \A n : New(n) <=> n \in tp[k].frames \/ n = Number
  OBVIOUS
<1>5. \A m \in messages : \A n \in m.frames : ~New(n)
  BY <1>1, <1>2, <1>3, <1>4
<1>6. \A l \in Keys : l # k => \A n \in tp[l].frames : ~New(n)
  BY <1>1, <1>2, <1>4 DEF FramesOnce, NoFrameTwice
<1>7. \A i \in Ids : \A n \in isotp[i].frames : ~New(n)
  BY <1>1, <1>2, <1>4 DEF FramesOnce, NoFrameTwice
<1>8. NoFrameTwice'
  <2>1. \A m1, m2 \in messages' : m1 = m2 \/ m1.frames \cap m2.frames = {}
    BY <1>5 DEF Divides, FramesOnce, NoFrameTwice
  <2>2. \A k1, k2 \in Keys : k1 = k2 \/ tp'[k1].frames \cap tp'[k2].frames = {}
    BY <1>6 DEF FramesOnce, NoFrameTwice
  <2>3. \A l \in Keys, i \in Ids : tp'[l].frames \cap isotp'[i].frames = {}
    BY <1>7 DEF FramesOnce, NoFrameTwice
  <2>4. \A n \in 1 .. clock' : ~(InMessage(n)' /\ InSession(n)')
    <3> SUFFICES ASSUME NEW m \in messages', NEW n \in m.frames
                 PROVE  /\ \A l \in Keys : n \notin tp'[l].frames
                        /\ \A i \in Ids : n \notin isotp'[i].frames
      BY DEF InMessage, InSession
    <3>1. CASE m \in N
      BY <3>1, <1>6, <1>7 DEF Divides
    <3>2. CASE m \in messages
      <4>1. n \in 1 .. clock /\ InMessage(n)
        BY <3>2, <1>1 DEF InMessage
      <4>2. ~InSession(n)
        BY <4>1 DEF FramesOnce, NoFrameTwice
      <4> QED BY <4>2, <3>2, <1>5 DEF InSession
    <3> QED BY <3>1, <3>2
  <2> QED BY <2>1, <2>2, <2>3, <2>4 DEF NoFrameTwice, FramesOnce
<1>9. NoFrameLost'
  <2>1. ASSUME NEW n \in (1 .. clock') \ ignored'
        PROVE  InMessage(n)' \/ InSession(n)'
    <3>1. CASE New(n)
      BY <3>1 DEF Divides, InMessage, InSession
    <3>2. CASE ~New(n)
      <4>1. n \in (1 .. clock) \ ignored
        BY <3>2, <1>2, <1>4
      <4>2. InMessage(n) \/ InSession(n)
        BY <4>1 DEF FramesOnce, NoFrameLost
      <4> QED BY <4>2, <3>2, <1>4 DEF InMessage, InSession
    <3> QED BY <3>1, <3>2
  <2>2. ASSUME NEW n \in ignored'
        PROVE  ~InMessage(n)' /\ ~InSession(n)'
    <3>1. n \in ignored /\ n \in 1 .. clock
      BY <1>1
    <3>2. ~InMessage(n) /\ ~InSession(n)
      BY <3>1 DEF FramesOnce, NoFrameLost
    <3>3. ~New(n)
      BY <3>1, <3>2, <1>2, <1>4 DEF InSession
    <3> QED BY <3>2, <3>3 DEF InMessage, InSession, Divides
  <2> QED BY <2>1, <2>2 DEF NoFrameLost, Ticks
<1> QED BY <1>8, <1>9 DEF FramesOnce

\* The same for an ISO-TP session.
LEMMA IsoTpDivides ==
    ASSUME ReceiverTypeOK, ReceiverTypeOK', FramesOnce, Ticks, NEW k \in Ids, NEW N, NEW S,
           tp' = tp, ignored' = ignored, messages' = messages \cup N,
           \A l \in Ids : l # k => isotp'[l].frames = isotp[l].frames,
           Divides(N, S),
           S \cup isotp'[k].frames = isotp[k].frames \cup {Number},
           S \cap isotp'[k].frames = {}
    PROVE  FramesOnce'
<1> DEFINE New(n) == n \in S \/ n \in isotp'[k].frames
<1>1. /\ \A l \in Keys : tp[l].frames \subseteq 1 .. clock
      /\ \A i \in Ids : isotp[i].frames \subseteq 1 .. clock
      /\ \A m \in messages : m.frames \subseteq 1 .. clock
      /\ clock \in Nat /\ ignored \subseteq 1 .. clock
  BY DEF ReceiverTypeOK, TpSession, IsoTpSession, Messages, Frames
<1>2. /\ Number \notin 1 .. clock
      /\ 1 .. clock' = (1 .. clock) \cup {Number}
  BY <1>1 DEF Ticks, Number
<1>3. \A n \in isotp[k].frames : \A m \in messages : n \notin m.frames
  BY <1>1 DEF FramesOnce, NoFrameTwice, InMessage, InSession
<1>4. \A n : New(n) <=> n \in isotp[k].frames \/ n = Number
  OBVIOUS
<1>5. \A m \in messages : \A n \in m.frames : ~New(n)
  BY <1>1, <1>2, <1>3, <1>4
<1>6. \A l \in Ids : l # k => \A n \in isotp[l].frames : ~New(n)
  BY <1>1, <1>2, <1>4 DEF FramesOnce, NoFrameTwice
<1>7. \A l \in Keys : \A n \in tp[l].frames : ~New(n)
  BY <1>1, <1>2, <1>4 DEF FramesOnce, NoFrameTwice
<1>8. NoFrameTwice'
  <2>1. \A m1, m2 \in messages' : m1 = m2 \/ m1.frames \cap m2.frames = {}
    BY <1>5 DEF Divides, FramesOnce, NoFrameTwice
  <2>2. \A k1, k2 \in Ids : k1 = k2 \/ isotp'[k1].frames \cap isotp'[k2].frames = {}
    BY <1>6 DEF FramesOnce, NoFrameTwice
  <2>3. \A l \in Keys, i \in Ids : tp'[l].frames \cap isotp'[i].frames = {}
    BY <1>7 DEF FramesOnce, NoFrameTwice
  <2>4. \A n \in 1 .. clock' : ~(InMessage(n)' /\ InSession(n)')
    <3> SUFFICES ASSUME NEW m \in messages', NEW n \in m.frames
                 PROVE  /\ \A l \in Keys : n \notin tp'[l].frames
                        /\ \A i \in Ids : n \notin isotp'[i].frames
      BY DEF InMessage, InSession
    <3>1. CASE m \in N
      BY <3>1, <1>6, <1>7 DEF Divides
    <3>2. CASE m \in messages
      <4>1. n \in 1 .. clock /\ InMessage(n)
        BY <3>2, <1>1 DEF InMessage
      <4>2. ~InSession(n)
        BY <4>1 DEF FramesOnce, NoFrameTwice
      <4> QED BY <4>2, <3>2, <1>5 DEF InSession
    <3> QED BY <3>1, <3>2
  <2> QED BY <2>1, <2>2, <2>3, <2>4 DEF NoFrameTwice, FramesOnce
<1>9. NoFrameLost'
  <2>1. ASSUME NEW n \in (1 .. clock') \ ignored'
        PROVE  InMessage(n)' \/ InSession(n)'
    <3>1. CASE New(n)
      BY <3>1 DEF Divides, InMessage, InSession
    <3>2. CASE ~New(n)
      <4>1. n \in (1 .. clock) \ ignored
        BY <3>2, <1>2, <1>4
      <4>2. InMessage(n) \/ InSession(n)
        BY <4>1 DEF FramesOnce, NoFrameLost
      <4> QED BY <4>2, <3>2, <1>4 DEF InMessage, InSession
    <3> QED BY <3>1, <3>2
  <2>2. ASSUME NEW n \in ignored'
        PROVE  ~InMessage(n)' /\ ~InSession(n)'
    <3>1. n \in ignored /\ n \in 1 .. clock
      BY <1>1
    <3>2. ~InMessage(n) /\ ~InSession(n)
      BY <3>1 DEF FramesOnce, NoFrameLost
    <3>3. ~New(n)
      BY <3>1, <3>2, <1>2, <1>4 DEF InSession
    <3> QED BY <3>2, <3>3 DEF InMessage, InSession, Divides
  <2> QED BY <2>1, <2>2 DEF NoFrameLost, Ticks
<1> QED BY <1>8, <1>9 DEF FramesOnce

-----------------------------------------------------------------------------
(* The types of what the handlers build. *)

\* A link is the dictionary key of its own addresses.
LEMMA KeyOf == \A k \in Keys : TpKey(k[1], k[2]) = k
BY DEF Keys, TpKey

\* The new frame number is fresh, and what was typed before it still is.
LEMMA Grows ==
    ASSUME clock \in Nat, Ticks
    PROVE  /\ Number \in 1 .. clock' /\ clock' \in Nat
           /\ Frames \subseteq Frames' /\ TpSession \subseteq TpSession'
           /\ IsoTpSession \subseteq IsoTpSession' /\ Messages \subseteq Messages'
<1>1. Number \in 1 .. clock' /\ clock' \in Nat /\ 1 .. clock \subseteq 1 .. clock'
  BY DEF Ticks, Number
<1>2. Frames \subseteq Frames'
  BY <1>1 DEF Frames
<1> QED BY <1>1, <1>2 DEF TpSession, IsoTpSession, Messages

\* _build_message returns a message with the frames of its session.
LEMMA TpMessageType ==
    ASSUME NEW k \in Keys, NEW s \in TpSession', IsOpen(s), NEW c \in BOOLEAN,
           NEW e \in SUBSET Errors
    PROVE  /\ TpMessage(k, s, c, e) \in Messages'
           /\ TpMessage(k, s, c, e).frames = s.frames
<1>1. Joined(s) \in Chunks
  BY FS_Subset DEF Joined, TpSession, Chunks
<1> QED BY <1>1 DEF TpMessage, Message, Messages, TpSession, IsOpen, Links

\* _build_complete and _build_incomplete do so too.
LEMMA ChainType ==
    ASSUME NEW i \in Ids, NEW s \in IsoTpSession', IsOpen(s), NEW c \in BOOLEAN,
           NEW e \in SUBSET Errors
    PROVE  /\ Chain(i, s, c, e) \in Messages'
           /\ Chain(i, s, c, e).frames = s.frames
BY DEF Chain, Message, Messages, IsoTpSession, IsOpen, Links

\* A set of chunks stays one when a chunk is added.
LEMMA ChunksGrow ==
    ASSUME NEW c \in Chunks, NEW x \in Nat \X Nat \X Nat
    PROVE  c \cup {x} \in Chunks /\ {} \in Chunks /\ Cardinality(c) \in Nat
<1>1. IsFiniteSet(c) /\ c \subseteq Nat \X Nat \X Nat
  BY DEF Chunks
<1>2. IsFiniteSet(c \cup {x}) /\ IsFiniteSet({}) /\ Cardinality(c) \in Nat
  <2>1. IsFiniteSet(c \cup {x})
    BY <1>1, FS_AddElement
  <2>2. IsFiniteSet({})
    BY FS_EmptySet
  <2>3. Cardinality(c) \in Nat
    BY <1>1, FS_CardinalityType
  <2> QED BY <2>1, <2>2, <2>3
<1> QED BY <1>1, <1>2 DEF Chunks

\* An orphan is a message of the new frame alone.
LEMMA OrphanType ==
    ASSUME clock \in Nat, Ticks, NEW l \in Links
    PROVE  Orphan(l) \in Messages' /\ Orphan(l).frames = {Number}
<1>1. {Number} \in Frames' \ {{}}
  BY Grows DEF Frames
<1>2. {} \in Chunks' /\ l \in Links'
  <2>1. {} \in Chunks
    BY FS_EmptySet DEF Chunks
  <2> QED BY <2>1 DEF Chunks, Links
<1>3. {"orphan"} \in SUBSET Errors
  BY DEF Errors
<1> QED BY <1>1, <1>2, <1>3 DEF Orphan, Message, Messages

\* _feed_dt adds the new frame to its session and keeps its type.
LEMMA StoredType ==
    ASSUME clock \in Nat, Ticks, NEW s \in TpSession, NEW p \in Nat, NEW t \in Nat
    PROVE  /\ Stored(s, p, t) \in TpSession'
           /\ Stored(s, p, t).frames = s.frames \cup {Number}
<1>1. s.frames \cup {Number} \in Frames'
  BY Grows DEF TpSession, Frames
<1>2. s.chunks \cup {<<p, p, t>>} \in Chunks' /\ s.chunks \in Chunks'
  <2>1. s.chunks \in Chunks /\ <<p, p, t>> \in Nat \X Nat \X Nat
    <3>1. s.chunks \in Chunks
      BY DEF TpSession
    <3> QED BY <3>1
  <2>2. s.chunks \cup {<<p, p, t>>} \in Chunks
    BY <2>1, ChunksGrow
  <2> QED BY <2>1, <2>2 DEF Chunks
<1>3. /\ s.errors \cup {"invalid packet"} \in SUBSET Errors
      /\ s.errors \cup {"duplicate"} \in SUBSET Errors
      /\ s.errors \cup {} \in SUBSET Errors
  BY DEF TpSession, Errors
<1>4. s.of \in Nat /\ s.size \in Nat /\ s.count \in Nat
  BY DEF TpSession
<1> QED BY <1>1, <1>2, <1>3, <1>4 DEF Stored, TpSession

\* _consecutive_frame does so too, and the expected number keeps its width.
LEMMA ExtendedType ==
    ASSUME clock \in Nat, Ticks, NEW s \in IsoTpSession, NEW p \in Nat, NEW t \in Nat
    PROVE  /\ Extended(s, p, t) \in IsoTpSession'
           /\ Extended(s, p, t).frames = s.frames \cup {Number}
<1>1. s.frames \cup {Number} \in Frames'
  BY Grows DEF IsoTpSession, Frames
<1>2. s.chunks \cup {<<Cardinality(s.chunks), p, t>>} \in Chunks'
  <2>1. s.chunks \in Chunks
    BY DEF IsoTpSession
  <2>2. Cardinality(s.chunks) \in Nat
    BY <2>1, FS_CardinalityType DEF Chunks
  <2>3. <<Cardinality(s.chunks), p, t>> \in Nat \X Nat \X Nat
    BY <2>2
  <2>4. s.chunks \cup {<<Cardinality(s.chunks), p, t>>} \in Chunks
    BY <2>1, <2>3, ChunksGrow
  <2> QED BY <2>4 DEF Chunks
<1>3. (s.expected + 1) % Modulus \in 0 .. Modulus - 1
  BY BytesAssumption DEF IsoTpSession
<1>4. s.of \in Nat /\ s.size \in Nat
  BY DEF IsoTpSession
<1> QED BY <1>1, <1>2, <1>3, <1>4 DEF Extended, IsoTpSession

-----------------------------------------------------------------------------
(* The handlers. *)

\* What the messages and sessions are while no frame has been fed twice.
Good == ReceiverTypeOK /\ FramesOnce

\* _start_session keeps every frame in one place: those of the session that
\* it replaces move to a message.
LEMMA StartSessionGood ==
    ASSUME Good, Ticks, NEW k \in Keys, NEW t \in Nat, NEW size \in Nat,
           NEW count \in Nat, StartSession(k[1], k[2], t, size, count)
    PROVE  Good'
<1> DEFINE s == [of |-> t, size |-> size, count |-> count, frames |-> {Number},
                 chunks |-> {}, errors |-> HeaderErrors(size, count)]
           N == {TpMessage(k, r, FALSE, {"replaced"}) : r \in {q \in {tp[k]} : IsOpen(q)}}
<1>1. /\ tp' = [tp EXCEPT ![k] = s]
      /\ messages' = messages \cup N
      /\ isotp' = isotp /\ ignored' = ignored
  BY KeyOf DEF StartSession
<1>2. /\ clock \in Nat /\ tp[k] \in TpSession
      /\ tp \in [Keys -> TpSession] /\ messages \subseteq Messages
      /\ isotp \in [Ids -> IsoTpSession] /\ ignored \in Frames
      /\ flushed \in BOOLEAN
  BY DEF Good, ReceiverTypeOK
<1>3. s \in TpSession'
  <2>1. {Number} \in Frames' /\ {} \in Chunks'
    BY <1>2, Grows, FS_EmptySet DEF Frames, Chunks
  <2>2. HeaderErrors(size, count) \in SUBSET Errors
    BY DEF HeaderErrors, Errors
  <2> QED BY <2>1, <2>2 DEF TpSession
<1>4. \A m \in N : m \in Messages' /\ m.frames = tp[k].frames /\ IsOpen(tp[k])
  <2>1. tp[k] \in TpSession' /\ {"replaced"} \in SUBSET Errors
    BY <1>2, Grows DEF Errors
  <2>2. SUFFICES ASSUME NEW m \in N
                 PROVE  m \in Messages' /\ m.frames = tp[k].frames /\ IsOpen(tp[k])
    OBVIOUS
  <2>3. m = TpMessage(k, tp[k], FALSE, {"replaced"}) /\ IsOpen(tp[k])
    OBVIOUS
  <2> QED BY <2>1, <2>3, TpMessageType
<1>5. ReceiverTypeOK'
  <2>1. tp' \in [Keys -> TpSession']
    BY <1>1, <1>2, <1>3, Grows
  <2> QED BY <1>1, <1>2, <1>4, <2>1, Grows DEF ReceiverTypeOK, Ticks
<1>6. Divides(N, tp[k].frames)
  <2>1. \A n \in tp[k].frames : \E m \in N : n \in m.frames
    <3> SUFFICES ASSUME NEW n \in tp[k].frames PROVE \E m \in N : n \in m.frames
      OBVIOUS
    <3>1. IsOpen(tp[k])
      BY DEF IsOpen
    <3>2. TpMessage(k, tp[k], FALSE, {"replaced"}) \in N
      BY <3>1
    <3> QED BY <3>2, <1>4
  <2>2. \A m1, m2 \in N : m1 = m2
    OBVIOUS
  <2> QED BY <1>4, <2>1, <2>2 DEF Divides
<1>7. /\ tp'[k].frames = {Number}
      /\ \A l \in Keys : l # k => tp'[l].frames = tp[l].frames
  BY <1>1, <1>2
<1>8. tp[k].frames \cap {Number} = {}
  BY <1>2 DEF TpSession, Frames, Number
<1>9. FramesOnce'
  BY <1>1, <1>5, <1>6, <1>7, <1>8, TpDivides DEF Good
<1> QED BY <1>5, <1>9 DEF Good

\* The two shapes in which one message at most leaves a J1939 session: its
\* frames and the new one stay in the session, or go into message m.
LEMMA TpOne ==
    ASSUME Good, Ticks, NEW k \in Keys, isotp' = isotp, ignored' = ignored,
           NEW s \in TpSession', tp' = [tp EXCEPT ![k] = s], NEW m,
           \/ s.frames = tp[k].frames \cup {Number} /\ messages' = messages
           \/ /\ s.frames = {} /\ messages' = messages \cup {m}
              /\ m \in Messages' /\ m.frames = tp[k].frames \cup {Number}
    PROVE  Good'
<1> DEFINE N == IF messages' = messages /\ s.frames # {} THEN {} ELSE {m}
           S == IF messages' = messages /\ s.frames # {} THEN {} ELSE m.frames
<1>1. /\ clock \in Nat /\ tp[k] \in TpSession /\ flushed \in BOOLEAN
      /\ tp \in [Keys -> TpSession] /\ messages \subseteq Messages
      /\ isotp \in [Ids -> IsoTpSession] /\ ignored \in Frames
  BY DEF Good, ReceiverTypeOK
<1>2. ReceiverTypeOK'
  <2>1. tp' \in [Keys -> TpSession']
    BY <1>1, Grows
  <2> QED BY <1>1, <2>1, Grows DEF ReceiverTypeOK, Ticks
<1>3. /\ tp'[k].frames = s.frames
      /\ \A l \in Keys : l # k => tp'[l].frames = tp[l].frames
  BY <1>1
<1>4. messages' = messages \cup N /\ Divides(N, S)
  BY DEF Divides
<1>5. S \cup s.frames = tp[k].frames \cup {Number} /\ S \cap s.frames = {}
  OBVIOUS
<1>6. FramesOnce'
  BY <1>2, <1>3, <1>4, <1>5, TpDivides DEF Good
<1> QED BY <1>2, <1>6 DEF Good

\* A key without a session.
LEMMA NoSessionType == NoSession \in TpSession' /\ NoSession.frames = {}
<1>1. {} \in Chunks' /\ {} \in Frames' /\ {} \in SUBSET Errors
  BY FS_EmptySet DEF Chunks, Frames
<1> QED BY <1>1 DEF NoSession, TpSession

\* _feed_dt keeps every frame in one place.
LEMMA FeedDtGood ==
    ASSUME Good, Ticks, NEW k \in Keys, NEW p \in Nat, NEW t \in Nat,
           FeedDt(k[1], k[2], p, t)
    PROVE  Good'
<1> DEFINE s == Stored(tp[k], p, t)
<1>1. /\ clock \in Nat /\ tp[k] \in TpSession /\ tp \in [Keys -> TpSession]
  BY DEF Good, ReceiverTypeOK
<1>2. s \in TpSession' /\ s.frames = tp[k].frames \cup {Number} /\ IsOpen(s)
  <2>1. s \in TpSession' /\ s.frames = tp[k].frames \cup {Number}
    BY <1>1, StoredType
  <2> QED BY <2>1 DEF IsOpen
<1>3. isotp' = isotp /\ ignored' = ignored
  BY DEF FeedDt
<1>4. CASE /\ ~IsOpen(tp[k]) /\ tp' = tp
           /\ messages' = messages \cup {Orphan(k)}
  <2>1. Orphan(k) \in Messages' /\ Orphan(k).frames = {Number}
    BY <1>1, OrphanType DEF Links
  <2>2. tp[k].frames = {} /\ tp[k] \in TpSession' /\ tp' = [tp EXCEPT ![k] = tp[k]]
    BY <1>1, <1>4, Grows DEF IsOpen
  <2> QED BY <1>3, <1>4, <2>1, <2>2, TpOne
<1>5. CASE /\ tp' = [tp EXCEPT ![k] = s] /\ messages' = messages
  BY <1>2, <1>3, <1>5, TpOne
<1>6. CASE /\ tp' = [tp EXCEPT ![k] = NoSession]
           /\ messages' = messages \cup {TpMessage(k, s, TpComplete(s), {})}
  <2>1. TpComplete(s) \in BOOLEAN
    BY DEF TpComplete
  <2>2. /\ TpMessage(k, s, TpComplete(s), {}) \in Messages'
        /\ TpMessage(k, s, TpComplete(s), {}).frames = s.frames
    BY <1>2, <2>1, TpMessageType
  <2> QED BY <1>2, <1>3, <1>6, <2>2, NoSessionType, TpOne
<1> QED BY <1>4, <1>5, <1>6, KeyOf DEF FeedDt

\* _feed_cm with CM_ABORT does, whichever session it ends.
LEMMA FeedAbortGood ==
    ASSUME Good, Ticks, NEW k \in Keys, <<k[2], k[1]>> \in Keys,
           FeedAbort(k[1], k[2])
    PROVE  Good'
<1> DEFINE V == AbortVictims(k[1], k[2])
<1>1. /\ clock \in Nat /\ tp \in [Keys -> TpSession]
      /\ isotp' = isotp /\ ignored' = ignored
  BY DEF Good, ReceiverTypeOK, FeedAbort
<1>2. V = {} \/ \E l \in Keys : V = {l} /\ IsOpen(tp[l])
  <2>1. TpKey(k[1], k[2]) = k /\ TpKey(k[2], k[1]) = <<k[2], k[1]>>
    BY DEF TpKey, Keys
  <2> QED BY <2>1 DEF AbortVictims
<1>3. CASE V = {}
  <2>1. messages' = messages \cup {Orphan(k)} /\ tp' = tp
    BY <1>1, <1>3, KeyOf DEF FeedAbort
  <2>2. Orphan(k) \in Messages' /\ Orphan(k).frames = {Number}
    BY <1>1, OrphanType DEF Links
  <2>3. ~IsOpen(tp[k])
    BY <1>3, KeyOf DEF AbortVictims
  <2>4. tp[k].frames = {} /\ tp[k] \in TpSession' /\ tp' = [tp EXCEPT ![k] = tp[k]]
    BY <1>1, <2>1, <2>3, Grows DEF IsOpen
  <2> QED BY <1>1, <2>1, <2>2, <2>4, TpOne
<1>4. ASSUME NEW l \in Keys, V = {l}, IsOpen(tp[l])
      PROVE  Good'
  <2> DEFINE s == [tp[l] EXCEPT !.frames = @ \cup {Number}]
             m == TpMessage(l, s, FALSE, {"aborted"})
  <2>1. tp' = [tp EXCEPT ![l] = NoSession]
    BY <1>1, <1>4 DEF FeedAbort
  <2>2. messages' = messages \cup {m}
    BY <1>4 DEF FeedAbort
  <2>3. s \in TpSession' /\ s.frames = tp[l].frames \cup {Number} /\ IsOpen(s)
    <3>1. tp[l] \in TpSession /\ tp[l] \in TpSession'
      BY <1>1, Grows
    <3>2. tp[l].frames \cup {Number} \in Frames'
      BY <1>1, <3>1, Grows DEF TpSession, Frames
    <3> QED BY <3>1, <3>2 DEF TpSession, IsOpen
  <2>4. {"aborted"} \in SUBSET Errors
    BY DEF Errors
  <2>5. m \in Messages' /\ m.frames = s.frames
    BY <2>3, <2>4, TpMessageType
  <2> QED BY <1>1, <2>1, <2>2, <2>3, <2>5, NoSessionType, TpOne
<1> QED BY <1>2, <1>3, <1>4

\* An identifier without a session.
LEMMA NoChainType == NoChain \in IsoTpSession' /\ NoChain.frames = {}
<1>1. {} \in Chunks' /\ {} \in Frames'
  BY FS_EmptySet DEF Chunks, Frames
<1>2. 0 \in 0 .. Modulus - 1
  BY BytesAssumption
<1> QED BY <1>1, <1>2 DEF NoChain, IsoTpSession

\* TpOne for an ISO-TP session.
LEMMA IsoTpOne ==
    ASSUME Good, Ticks, NEW i \in Ids, tp' = tp, ignored' = ignored,
           NEW s \in IsoTpSession', isotp' = [isotp EXCEPT ![i] = s], NEW m,
           \/ s.frames = isotp[i].frames \cup {Number} /\ messages' = messages
           \/ /\ s.frames = {} /\ messages' = messages \cup {m}
              /\ m \in Messages' /\ m.frames = isotp[i].frames \cup {Number}
    PROVE  Good'
<1> DEFINE N == IF messages' = messages /\ s.frames # {} THEN {} ELSE {m}
           S == IF messages' = messages /\ s.frames # {} THEN {} ELSE m.frames
<1>1. /\ clock \in Nat /\ isotp[i] \in IsoTpSession /\ flushed \in BOOLEAN
      /\ tp \in [Keys -> TpSession] /\ messages \subseteq Messages
      /\ isotp \in [Ids -> IsoTpSession] /\ ignored \in Frames
  BY DEF Good, ReceiverTypeOK
<1>2. ReceiverTypeOK'
  <2>1. isotp' \in [Ids -> IsoTpSession']
    BY <1>1, Grows
  <2> QED BY <1>1, <2>1, Grows DEF ReceiverTypeOK, Ticks
<1>3. /\ isotp'[i].frames = s.frames
      /\ \A l \in Ids : l # i => isotp'[l].frames = isotp[l].frames
  BY <1>1
<1>4. messages' = messages \cup N /\ Divides(N, S)
  BY DEF Divides
<1>5. S \cup s.frames = isotp[i].frames \cup {Number} /\ S \cap s.frames = {}
  OBVIOUS
<1>6. FramesOnce'
  BY <1>2, <1>3, <1>4, <1>5, IsoTpDivides DEF Good
<1> QED BY <1>2, <1>6 DEF Good

\* _first_frame keeps every frame in one place, also when it replaces a
\* session and is a whole message at once.
LEMMA FeedFirstGood ==
    ASSUME Good, Ticks, NEW i \in Ids, NEW t \in Nat, NEW size \in Nat,
           FeedFirst(i, t, size)
    PROVE  Good'
<1> DEFINE s == [of |-> t, size |-> size, frames |-> {Number},
                 chunks |-> {<<0, 0, t>>}, expected |-> 1 % Modulus]
           whole == ChainBytes(s) >= size
           old == isotp[i]
           ended == {Chain(i, r, FALSE, {"replaced"}) : r \in {q \in {isotp[i]} : IsOpen(q)}}
           now == {m \in {Chain(i, s, TRUE, {})} : whole}
           N == ended \cup now
           F == IF whole THEN {} ELSE {Number}
           S == old.frames \cup (IF whole THEN {Number} ELSE {})
<1>1. /\ isotp' = [isotp EXCEPT ![i] = IF whole THEN NoChain ELSE s]
      /\ messages' = messages \cup N
      /\ tp' = tp /\ ignored' = ignored
  BY DEF FeedFirst
<1>2. /\ clock \in Nat /\ old \in IsoTpSession
      /\ tp \in [Keys -> TpSession] /\ messages \subseteq Messages
      /\ isotp \in [Ids -> IsoTpSession] /\ ignored \in Frames
      /\ flushed \in BOOLEAN
  BY DEF Good, ReceiverTypeOK
<1>3. s \in IsoTpSession' /\ s.frames = {Number} /\ IsOpen(s)
  <2>1. {Number} \in Frames'
    BY <1>2, Grows DEF Frames
  <2>2. {<<0, 0, t>>} \in Chunks'
    <3>1. IsFiniteSet({<<0, 0, t>>})
      BY FS_Singleton
    <3> QED BY <3>1 DEF Chunks
  <2>3. 1 % Modulus \in 0 .. Modulus - 1
    BY BytesAssumption
  <2> QED BY <2>1, <2>2, <2>3 DEF IsoTpSession, IsOpen
<1>4. \A m \in ended : m \in Messages' /\ m.frames = old.frames /\ IsOpen(old)
  <2>1. old \in IsoTpSession' /\ {"replaced"} \in SUBSET Errors
    BY <1>2, Grows DEF Errors
  <2>2. SUFFICES ASSUME NEW m \in ended
                 PROVE  m \in Messages' /\ m.frames = old.frames /\ IsOpen(old)
    OBVIOUS
  <2>3. m = Chain(i, old, FALSE, {"replaced"}) /\ IsOpen(old)
    OBVIOUS
  <2> QED BY <2>1, <2>3, ChainType
<1>5. \A m \in now : m \in Messages' /\ m.frames = {Number} /\ whole
  <2>1. Chain(i, s, TRUE, {}) \in Messages' /\ Chain(i, s, TRUE, {}).frames = {Number}
    BY <1>3, ChainType
  <2> QED BY <2>1
<1>6. /\ isotp'[i].frames = F
      /\ \A l \in Ids : l # i => isotp'[l].frames = isotp[l].frames
  BY <1>1, <1>2, <1>3, NoChainType
<1>7. ReceiverTypeOK'
  <2>1. isotp' \in [Ids -> IsoTpSession']
    BY <1>1, <1>2, <1>3, Grows, NoChainType
  <2>2. messages' \subseteq Messages'
    BY <1>1, <1>2, <1>4, <1>5, Grows
  <2>3. ignored' \in Frames' /\ clock' \in Nat /\ flushed' \in BOOLEAN
    BY <1>1, <1>2, Grows DEF Ticks
  <2> QED BY <1>1, <1>2, <2>1, <2>2, <2>3, Grows DEF ReceiverTypeOK
<1>8. old.frames \cap {Number} = {}
  BY <1>2 DEF IsoTpSession, Frames, Number
<1>9. Divides(N, S)
  <2>1. \A n \in old.frames : \E m \in N : n \in m.frames
    <3> SUFFICES ASSUME NEW n \in old.frames PROVE \E m \in N : n \in m.frames
      OBVIOUS
    <3>1. IsOpen(old)
      BY DEF IsOpen
    <3>2. Chain(i, old, FALSE, {"replaced"}) \in ended
      BY <3>1
    <3> QED BY <3>2, <1>4
  <2>2. whole => \E m \in N : Number \in m.frames
    <3> SUFFICES ASSUME whole PROVE \E m \in N : Number \in m.frames
      OBVIOUS
    <3>1. Chain(i, s, TRUE, {}) \in now
      OBVIOUS
    <3> QED BY <3>1, <1>5
  <2>3. \A m \in N : m.frames \subseteq S
    BY <1>4, <1>5
  <2>4. (\A m1, m2 \in ended : m1 = m2) /\ (\A m1, m2 \in now : m1 = m2)
    OBVIOUS
  <2>5. \A m1, m2 \in N : m1 = m2 \/ m1.frames \cap m2.frames = {}
    BY <1>4, <1>5, <1>8, <2>4
  <2>6. \A n \in S : \E m \in N : n \in m.frames
    BY <2>1, <2>2
  <2> QED BY <2>3, <2>5, <2>6 DEF Divides
<1>10. FramesOnce'
  <2>1. S \cup F = old.frames \cup {Number} /\ S \cap F = {}
    BY <1>8
  <2> HIDE DEF N, S, F
  <2> QED BY <1>1, <1>6, <1>7, <1>9, <2>1, IsoTpDivides DEF Good
<1> QED BY <1>7, <1>10 DEF Good

\* _consecutive_frame does, with the number expected or another.
LEMMA FeedConsecutiveGood ==
    ASSUME Good, Ticks, NEW i \in Ids, NEW p \in Nat, NEW t \in Nat,
           FeedConsecutive(i, p, t)
    PROVE  Good'
<1> DEFINE s == Extended(isotp[i], p, t)
           broken == [isotp[i] EXCEPT !.frames = @ \cup {Number}]
<1>1. /\ clock \in Nat /\ isotp[i] \in IsoTpSession /\ isotp \in [Ids -> IsoTpSession]
  BY DEF Good, ReceiverTypeOK
<1>2. s \in IsoTpSession' /\ s.frames = isotp[i].frames \cup {Number} /\ IsOpen(s)
  <2>1. s \in IsoTpSession' /\ s.frames = isotp[i].frames \cup {Number}
    BY <1>1, ExtendedType
  <2> QED BY <2>1 DEF IsOpen
<1>3. tp' = tp /\ ignored' = ignored
  BY DEF FeedConsecutive
<1>4. CASE /\ ~IsOpen(isotp[i]) /\ isotp' = isotp
           /\ messages' = messages \cup {Orphan(i)}
  <2>1. Orphan(i) \in Messages' /\ Orphan(i).frames = {Number}
    BY <1>1, OrphanType DEF Links
  <2>2. /\ isotp[i].frames = {} /\ isotp[i] \in IsoTpSession'
        /\ isotp' = [isotp EXCEPT ![i] = isotp[i]]
    BY <1>1, <1>4, Grows DEF IsOpen
  <2> QED BY <1>3, <1>4, <2>1, <2>2, IsoTpOne
<1>5. CASE /\ isotp' = [isotp EXCEPT ![i] = NoChain]
           /\ messages' = messages \cup {Chain(i, broken, FALSE, {"mismatch"})}
  <2>1. /\ broken \in IsoTpSession' /\ IsOpen(broken)
        /\ broken.frames = isotp[i].frames \cup {Number}
    <3>1. isotp[i] \in IsoTpSession'
      BY <1>1, Grows
    <3>2. isotp[i].frames \cup {Number} \in Frames'
      BY <1>1, Grows DEF IsoTpSession, Frames
    <3> QED BY <3>1, <3>2 DEF IsoTpSession, IsOpen
  <2>2. {"mismatch"} \in SUBSET Errors
    BY DEF Errors
  <2>3. /\ Chain(i, broken, FALSE, {"mismatch"}) \in Messages'
        /\ Chain(i, broken, FALSE, {"mismatch"}).frames = broken.frames
    BY <2>1, <2>2, ChainType
  <2> QED BY <1>3, <1>5, <2>1, <2>3, NoChainType, IsoTpOne
<1>6. CASE isotp' = [isotp EXCEPT ![i] = s] /\ messages' = messages
  BY <1>2, <1>3, <1>6, IsoTpOne
<1>7. CASE /\ isotp' = [isotp EXCEPT ![i] = NoChain]
           /\ messages' = messages \cup {Chain(i, s, TRUE, {})}
  <2>1. Chain(i, s, TRUE, {}) \in Messages' /\ Chain(i, s, TRUE, {}).frames = s.frames
    BY <1>2, ChainType
  <2> QED BY <1>2, <1>3, <1>7, <2>1, NoChainType, IsoTpOne
<1> QED BY <1>4, <1>5, <1>6, <1>7 DEF FeedConsecutive

\* So do a single frame, an orphan and a frame of no transport.
LEMMA AloneGood ==
    ASSUME Good, Ticks, NEW l \in Links, NEW m \in Messages', m.frames = {Number},
           FeedAlone({m}), ignored' = ignored
    PROVE  Good'
<1>1. /\ clock \in Nat /\ flushed \in BOOLEAN /\ ignored \in Frames
      /\ tp \in [Keys -> TpSession] /\ isotp \in [Ids -> IsoTpSession]
      /\ messages \subseteq Messages
      /\ tp' = tp /\ isotp' = isotp /\ messages' = messages \cup {m}
  BY DEF Good, ReceiverTypeOK, FeedAlone
<1>2. ReceiverTypeOK'
  BY <1>1, Grows DEF ReceiverTypeOK, Ticks
<1>3. Divides({m}, {Number})
  BY DEF Divides
<1>4. CASE l \in Keys
  <2>1. {Number} \cap tp'[l].frames = {}
    BY <1>1, <1>4 DEF TpSession, Frames, Number
  <2> QED BY <1>1, <1>2, <1>3, <1>4, <2>1, TpDivides DEF Good
<1>5. CASE l \in Ids
  <2>1. {Number} \cap isotp'[l].frames = {}
    BY <1>1, <1>5 DEF IsoTpSession, Frames, Number
  <2> QED BY <1>1, <1>2, <1>3, <1>5, <2>1, IsoTpDivides DEF Good
<1> QED BY <1>4, <1>5 DEF Links

\* A frame that only steers enters no message.
LEMMA ControlGood ==
    ASSUME Good, Ticks, FeedAlone({}), ignored' = ignored \cup {Number}
    PROVE  Good'
<1>1. /\ clock \in Nat /\ flushed \in BOOLEAN /\ ignored \in Frames
      /\ tp \in [Keys -> TpSession] /\ isotp \in [Ids -> IsoTpSession]
      /\ messages \subseteq Messages
      /\ tp' = tp /\ isotp' = isotp /\ messages' = messages
  BY DEF Good, ReceiverTypeOK, FeedAlone
<1>2. ReceiverTypeOK'
  <2>1. ignored' \in Frames'
    BY <1>1, Grows DEF Frames
  <2> QED BY <1>1, <2>1, Grows DEF ReceiverTypeOK, Ticks
<1>3. 1 .. clock' = (1 .. clock) \cup {Number} /\ Number \notin 1 .. clock
  BY <1>1 DEF Ticks, Number
<1>4. \A n : InMessage(n)' = InMessage(n) /\ InSession(n)' = InSession(n)
  BY <1>1 DEF InMessage, InSession
<1>5. ~InMessage(Number) /\ ~InSession(Number)
  BY <1>1, <1>3 DEF InMessage, InSession, TpSession, IsoTpSession, Messages, Frames
<1>6. NoFrameTwice'
  BY <1>1, <1>3, <1>4, <1>5 DEF Good, FramesOnce, NoFrameTwice
<1>7. NoFrameLost'
  BY <1>3, <1>4, <1>5 DEF Good, FramesOnce, NoFrameLost, Ticks
<1> QED BY <1>2, <1>6, <1>7 DEF Good, FramesOnce

\* flush() moves the frames of every open session to a message.
LEMMA FlushGood ==
    ASSUME Good, Flush
    PROVE  Good'
<1> DEFINE A == {TpMessage(k, tp[k], FALSE, {"ended"}) : k \in {l \in Keys : IsOpen(tp[l])}}
           B == {Chain(i, isotp[i], FALSE, {"ended"}) : i \in {j \in Ids : IsOpen(isotp[j])}}
<1>1. /\ clock \in Nat /\ ignored \in Frames
      /\ tp \in [Keys -> TpSession] /\ isotp \in [Ids -> IsoTpSession]
      /\ messages \subseteq Messages
      /\ clock' = clock /\ ignored' = ignored /\ flushed' = TRUE
      /\ tp' = [k \in Keys |-> NoSession] /\ isotp' = [i \in Ids |-> NoChain]
      /\ messages' = (messages \cup A) \cup B
  BY DEF Good, ReceiverTypeOK, Flush
<1>2. TpSession' = TpSession /\ IsoTpSession' = IsoTpSession /\ Messages' = Messages
  BY <1>1 DEF TpSession, IsoTpSession, Messages, Frames
<1>3. {"ended"} \in SUBSET Errors
  BY DEF Errors
<1>4. \A m \in A : \E k \in Keys : m \in Messages /\ IsOpen(tp[k]) /\ m.frames = tp[k].frames
                                   /\ m = TpMessage(k, tp[k], FALSE, {"ended"})
  <2> SUFFICES ASSUME NEW k \in Keys, IsOpen(tp[k])
               PROVE  LET m == TpMessage(k, tp[k], FALSE, {"ended"})
                      IN  m \in Messages /\ m.frames = tp[k].frames
    OBVIOUS
  <2>1. tp[k] \in TpSession'
    BY <1>1, <1>2
  <2> QED BY <2>1, <1>2, <1>3, TpMessageType
<1>5. \A m \in B : \E i \in Ids : m \in Messages /\ IsOpen(isotp[i]) /\ m.frames = isotp[i].frames
                                  /\ m = Chain(i, isotp[i], FALSE, {"ended"})
  <2> SUFFICES ASSUME NEW i \in Ids, IsOpen(isotp[i])
               PROVE  LET m == Chain(i, isotp[i], FALSE, {"ended"})
                      IN  m \in Messages /\ m.frames = isotp[i].frames
    OBVIOUS
  <2>1. isotp[i] \in IsoTpSession'
    BY <1>1, <1>2
  <2> QED BY <2>1, <1>2, <1>3, ChainType
<1>6. ReceiverTypeOK'
  BY <1>1, <1>2, <1>4, <1>5, NoSessionType, NoChainType DEF ReceiverTypeOK, Frames
<1>7. \A n : ~InSession(n)'
  BY <1>1, NoSessionType, NoChainType DEF InSession
<1>8. \A n : InMessage(n) \/ InSession(n) => InMessage(n)'
  <2>1. ASSUME NEW k \in Keys, NEW n \in tp[k].frames
        PROVE  InMessage(n)'
    <3>1. IsOpen(tp[k])
      BY DEF IsOpen
    <3>2. TpMessage(k, tp[k], FALSE, {"ended"}) \in A
      BY <3>1
    <3>3. TpMessage(k, tp[k], FALSE, {"ended"}).frames = tp[k].frames
      BY ZenonT(40), <3>1, <1>1, <1>2, <1>3, TpMessageType
    <3> QED BY <3>2, <3>3, <1>1 DEF InMessage
  <2>2. ASSUME NEW i \in Ids, NEW n \in isotp[i].frames
        PROVE  InMessage(n)'
    <3>1. IsOpen(isotp[i])
      BY DEF IsOpen
    <3>2. Chain(i, isotp[i], FALSE, {"ended"}) \in B
      BY <3>1
    <3>3. Chain(i, isotp[i], FALSE, {"ended"}).frames = isotp[i].frames
      BY ZenonT(40), <3>1, <1>1, <1>2, <1>3, ChainType
    <3> QED BY <3>2, <3>3, <1>1 DEF InMessage
  <2> QED BY <2>1, <2>2, <1>1 DEF InMessage, InSession
<1>9. \A n : InMessage(n)' => InMessage(n) \/ InSession(n)
  BY <1>1, <1>4, <1>5 DEF InMessage, InSession
<1>10. NoFrameTwice'
  <2>1. \A m1, m2 \in messages' : m1 = m2 \/ m1.frames \cap m2.frames = {}
    <3> SUFFICES ASSUME NEW m1 \in messages', NEW m2 \in messages', NEW n,
                        n \in m1.frames, n \in m2.frames
                 PROVE  m1 = m2
      OBVIOUS
    <3>1. ~(InMessage(n) /\ InSession(n))
      BY <1>1, <1>4, <1>5 DEF Good, FramesOnce, NoFrameTwice, Messages, Frames, InMessage, InSession
    <3>2. CASE m1 \in messages
      <4>1. ~InSession(n)
        BY <3>1, <3>2 DEF InMessage
      <4>2. m2 \in messages
        BY <4>1, <1>1, <1>4, <1>5 DEF InSession
      <4> QED BY <3>2, <4>2 DEF Good, FramesOnce, NoFrameTwice
    <3>3. CASE m1 \in A
      <4>1. PICK k \in Keys : n \in tp[k].frames /\ m1 = TpMessage(k, tp[k], FALSE, {"ended"})
        BY <3>3, <1>4
      <4>2. m2 \notin messages /\ m2 \notin B
        BY <4>1, <3>1, <1>5 DEF InMessage, InSession, Good, FramesOnce, NoFrameTwice
      <4>3. PICK l \in Keys : n \in tp[l].frames /\ m2 = TpMessage(l, tp[l], FALSE, {"ended"})
        BY <4>2, <1>1, <1>4
      <4>4. k = l
        BY <4>1, <4>3 DEF Good, FramesOnce, NoFrameTwice
      <4> QED BY <4>1, <4>3, <4>4
    <3>4. CASE m1 \in B
      <4>1. PICK i \in Ids : n \in isotp[i].frames /\ m1 = Chain(i, isotp[i], FALSE, {"ended"})
        BY <3>4, <1>5
      <4>2. m2 \notin messages /\ m2 \notin A
        BY <4>1, <3>1, <1>4 DEF InMessage, InSession, Good, FramesOnce, NoFrameTwice
      <4>3. PICK j \in Ids : n \in isotp[j].frames /\ m2 = Chain(j, isotp[j], FALSE, {"ended"})
        BY <4>2, <1>1, <1>5
      <4>4. i = j
        BY <4>1, <4>3 DEF Good, FramesOnce, NoFrameTwice
      <4> QED BY <4>1, <4>3, <4>4
    <3> QED BY <3>2, <3>3, <3>4, <1>1
  <2> QED BY <2>1, <1>1, <1>7, NoSessionType, NoChainType DEF NoFrameTwice
<1>11. NoFrameLost'
  BY <1>1, <1>7, <1>8, <1>9 DEF Good, FramesOnce, NoFrameLost
<1> QED BY <1>6, <1>10, <1>11 DEF Good, FramesOnce

-----------------------------------------------------------------------------
(* The specification. *)

\* A frame that is lost changes nothing.
LEMMA GoodUnchanged ==
    ASSUME Good, UNCHANGED receiver
    PROVE  Good'
BY DEF Good, receiver, ReceiverTypeOK, TpSession, IsoTpSession, Messages, Frames,
       FramesOnce, NoFrameTwice, NoFrameLost, InMessage, InSession

\* Numbers of packets are natural numbers.
LEMMA PacketsType == \A size \in Nat : Packets(size) \in Nat /\ Consecutive(size) \in Nat
<1>1. \A size \in Nat : Packets(size) \in Nat
  BY BytesAssumption DEF Packets
<1>2. \A size \in Nat : size > FirstBytes => size - FirstBytes \in Nat
  BY BytesAssumption
<1> QED BY <1>1, <1>2, BytesAssumption DEF Consecutive

\* Nothing is open and nothing was sent.
LEMMA InitGood == Init => Good /\ BusTypeOK
<1> SUFFICES ASSUME Init PROVE Good /\ BusTypeOK
  OBVIOUS
<1>1. {} \in Chunks
  BY FS_EmptySet DEF Chunks
<1>2. NoSession \in TpSession /\ NoSession.frames = {}
  BY <1>1 DEF NoSession, TpSession, Frames
<1>3. NoChain \in IsoTpSession /\ NoChain.frames = {}
  <2>1. 0 \in 0 .. Modulus - 1
    BY BytesAssumption
  <2> QED BY <1>1, <2>1 DEF NoChain, IsoTpSession, Frames
<1>4. ReceiverTypeOK
  BY <1>2, <1>3 DEF Init, ReceiverTypeOK, Frames
<1>5. BusTypeOK
  BY DEF Init, BusTypeOK, Links
<1>6. FramesOnce
  BY <1>2, <1>3 DEF Init, FramesOnce, NoFrameTwice, NoFrameLost, InMessage, InSession
<1> QED BY <1>4, <1>5, <1>6 DEF Good

\* A new transfer keeps the types of the bus.
LEMMA AnnounceTypes ==
    ASSUME BusTypeOK, NEW l \in Links, NEW size \in Nat, NEW count \in Nat,
           transfers' = Append(transfers, [link |-> l, size |-> size, count |-> count]),
           sending' = [sending EXCEPT ![l] = Len(transfers) + 1],
           upto' = [upto EXCEPT ![l] = 0]
    PROVE  BusTypeOK'
<1>1. /\ transfers \in Seq([link : Links, size : Nat, count : Nat])
      /\ sending \in [Links -> 0 .. Len(transfers)] /\ upto \in [Links -> Nat]
  BY DEF BusTypeOK
<1>2. [link |-> l, size |-> size, count |-> count] \in [link : Links, size : Nat, count : Nat]
  OBVIOUS
<1>3. /\ transfers' \in Seq([link : Links, size : Nat, count : Nat])
      /\ Len(transfers') = Len(transfers) + 1 /\ Len(transfers) \in Nat
  BY <1>1, <1>2
<1>4. 0 .. Len(transfers) \subseteq 0 .. Len(transfers')
  BY <1>3
<1>5. Len(transfers) + 1 \in 0 .. Len(transfers')
  BY <1>3
<1>6. sending' \in [Links -> 0 .. Len(transfers')]
  BY <1>1, <1>4, <1>5
<1>7. upto' \in [Links -> Nat]
  BY <1>1
<1>8. Links' = Links
  BY DEF Links, Keys
<1> QED BY <1>3, <1>6, <1>7, <1>8 DEF BusTypeOK

\* Every action feeds one frame to one handler, loses it, or ends the capture.
LEMMA NextGood ==
    ASSUME Good, BusTypeOK, Next
    PROVE  Good' /\ BusTypeOK'
<1>1. /\ transfers \in Seq([link : Links, size : Nat, count : Nat])
      /\ sending \in [Links -> 0 .. Len(transfers)] /\ upto \in [Links -> Nat]
      /\ Len(transfers) \in Nat
  BY DEF BusTypeOK
<1>2. \A l \in Links : /\ sending[l] \in Nat /\ upto[l] \in Nat
                       /\ sending[l] # 0 => transfers[sending[l]].size \in Nat
  <2> SUFFICES ASSUME NEW l \in Links
               PROVE  /\ sending[l] \in Nat /\ upto[l] \in Nat
                      /\ sending[l] # 0 => transfers[sending[l]].size \in Nat
    OBVIOUS
  <2>1. sending[l] \in 0 .. Len(transfers) /\ upto[l] \in Nat
    BY <1>1
  <2>2. sending[l] # 0 => transfers[sending[l]] \in [link : Links, size : Nat, count : Nat]
    <3> SUFFICES ASSUME sending[l] # 0
                 PROVE  transfers[sending[l]] \in [link : Links, size : Nat, count : Nat]
      OBVIOUS
    <3>1. sending[l] \in 1 .. Len(transfers)
      BY <1>1, <2>1
    <3> QED BY <1>1, <3>1, ElementOfSeq
  <2> QED BY <2>1, <2>2
<1>3. Keys \subseteq Links /\ Ids \subseteq Links /\ Sizes \subseteq Nat
  BY BytesAssumption DEF Links
<1>4. ASSUME NEW k \in Keys, SendTpHeader(k)
      PROVE  Good' /\ BusTypeOK'
  <2>1. PICK size \in Sizes :
           Announce(k, size, Packets(size),
               StartSession(k[1], k[2], Len(transfers) + 1, size, Packets(size)))
    BY <1>4 DEF SendTpHeader
  <2>2. Packets(size) \in Nat /\ size \in Nat /\ Len(transfers) + 1 \in Nat
    BY <1>1, <1>3, PacketsType
  <2>3. ASSUME Ticks /\ StartSession(k[1], k[2], Len(transfers) + 1, size, Packets(size))
       PROVE  Good'
    BY <2>2, <2>3, StartSessionGood
  <2>4. ASSUME UNCHANGED receiver
       PROVE  Good'
    BY <2>4, GoodUnchanged
  <2>5. Good'
    BY <2>1, <2>3, <2>4 DEF Announce, Carried, Fed, Ticks, Number
  <2>6. BusTypeOK'
    BY <2>1, <2>2, <1>3, AnnounceTypes DEF Announce
  <2> QED BY <2>5, <2>6
<1>5. ASSUME NEW k \in Keys, SendBadHeader(k)
      PROVE  Good' /\ BusTypeOK'
  <2>1. PICK size \in Sizes \cup {0} : \E count \in 0 .. Packets(size) + 1 :
           Announce(k, size, count,
               StartSession(k[1], k[2], Len(transfers) + 1, size, count))
    BY <1>5 DEF SendBadHeader
  <2>2. Packets(size) \in Nat /\ size \in Nat /\ Len(transfers) + 1 \in Nat
    <3>1. size \in Nat
      BY <1>3
    <3>2. Packets(size) \in Nat
      BY <3>1, PacketsType
    <3> QED BY <1>1, <3>1, <3>2
  <2>3. PICK count \in 0 .. Packets(size) + 1 :
           Announce(k, size, count,
               StartSession(k[1], k[2], Len(transfers) + 1, size, count))
    BY <2>1
  <2>4. count \in Nat
    BY <2>2
  <2>5. ASSUME Ticks /\ StartSession(k[1], k[2], Len(transfers) + 1, size, count)
       PROVE  Good'
    BY <2>2, <2>4, <2>5, StartSessionGood
  <2>6. ASSUME UNCHANGED receiver
       PROVE  Good'
    BY <2>6, GoodUnchanged
  <2>7. Good'
    BY <2>3, <2>5, <2>6 DEF Announce, Carried, Fed, Ticks, Number
  <2>8. BusTypeOK'
    BY <2>3, <2>2, <2>4, <1>3, AnnounceTypes DEF Announce
  <2> QED BY <2>7, <2>8
<1>6. ASSUME NEW k \in Keys, SendDt(k)
      PROVE  Good' /\ BusTypeOK'
  <2>1. /\ Sends(k, Packets(transfers[sending[k]].size))
        /\ Carried(sending[k], upto[k] + 1,
                   FeedDt(k[1], k[2], upto[k] + 1, sending[k]))
    BY <1>6 DEF SendDt
  <2>2. sending[k] \in Nat /\ upto[k] + 1 \in Nat
    BY <1>2, <1>3
  <2>3. ASSUME Ticks /\ FeedDt(k[1], k[2], upto[k] + 1, sending[k])
       PROVE  Good'
    BY <2>2, <2>3, FeedDtGood
  <2>4. ASSUME UNCHANGED receiver
       PROVE  Good'
    BY <2>4, GoodUnchanged
  <2>5. Good'
    BY <2>1, <2>3, <2>4 DEF Carried, Fed, Ticks, Number
  <2>6. BusTypeOK'
    <3>1. transfers' = transfers /\ sending' = sending
      BY <2>1 DEF Sends
    <3>2. upto' = [upto EXCEPT ![k] = upto[k] + 1]
      BY <2>1 DEF Sends
    <3>3. upto \in [Links -> Nat]
      BY <1>1 DEF BusTypeOK
    <3>4. upto' \in [Links -> Nat]
      BY <2>2, <3>2, <3>3
    <3> QED BY <1>1, <3>1, <3>4 DEF BusTypeOK
  <2> QED BY <2>5, <2>6
<1>7. ASSUME NEW k \in Keys, RepeatDt(k)
      PROVE  Good' /\ BusTypeOK'
  <2>1. PICK p \in 1 .. upto[k] :
           /\ Carried(sending[k], p, FeedDt(k[1], k[2], p, sending[k]))
           /\ UNCHANGED <<transfers, sending, upto>>
    BY <1>7 DEF RepeatDt
  <2>2. sending[k] \in Nat /\ p \in Nat
    BY <1>2, <1>3
  <2>3. ASSUME Ticks /\ FeedDt(k[1], k[2], p, sending[k])
       PROVE  Good'
    BY <2>2, <2>3, FeedDtGood
  <2>4. ASSUME UNCHANGED receiver
       PROVE  Good'
    BY <2>4, GoodUnchanged
  <2>5. Good'
    BY <2>1, <2>3, <2>4 DEF Carried, Fed, Ticks, Number
  <2> QED BY <2>1, <2>5 DEF BusTypeOK, Links
<1>8. ASSUME NEW k \in Keys, SendAbort(k)
      PROVE  Good' /\ BusTypeOK'
  <2>1. PICK by \in {k, <<k[2], k[1]>>} :
           /\ k[2] # Global
           /\ Fed(FeedAbort(by[1], by[2]))
           /\ sending' = [sending EXCEPT ![k] = 0]
           /\ UNCHANGED <<transfers, upto>>
    BY <1>8 DEF SendAbort
  <2>2. by \in Keys /\ <<by[2], by[1]>> \in Keys
    BY <2>1 DEF Keys
  <2>3. Ticks /\ FeedAbort(by[1], by[2])
    BY <2>1 DEF Fed, Ticks, Number
  <2>4. Good'
    BY <2>2, <2>3, FeedAbortGood
  <2>5. BusTypeOK'
    BY <2>1, <1>1, <1>3 DEF BusTypeOK, Links
  <2> QED BY <2>4, <2>5
<1>9. ASSUME NEW i \in Ids, SendFirst(i)
      PROVE  Good' /\ BusTypeOK'
  <2>1. PICK size \in Sizes : Announce(i, size, 0, FeedFirst(i, Len(transfers) + 1, size))
    BY <1>9 DEF SendFirst
  <2>2. size \in Nat /\ Len(transfers) + 1 \in Nat
    BY <1>1, <1>3
  <2>3. ASSUME Ticks /\ FeedFirst(i, Len(transfers) + 1, size)
       PROVE  Good'
    BY <2>2, <2>3, FeedFirstGood
  <2>4. ASSUME UNCHANGED receiver
       PROVE  Good'
    BY <2>4, GoodUnchanged
  <2>5. Good'
    BY <2>1, <2>3, <2>4 DEF Announce, Carried, Fed, Ticks, Number
  <2>6. BusTypeOK'
    BY <2>1, <2>2, <1>3, AnnounceTypes DEF Announce
  <2> QED BY <2>5, <2>6
<1>10. ASSUME NEW i \in Ids, SendConsecutive(i)
       PROVE  Good' /\ BusTypeOK'
  <2>1. /\ Sends(i, Consecutive(transfers[sending[i]].size))
        /\ Carried(sending[i], upto[i] + 1, FeedConsecutive(i, upto[i] + 1, sending[i]))
    BY <1>10 DEF SendConsecutive
  <2>2. sending[i] \in Nat /\ upto[i] + 1 \in Nat
    BY <1>2, <1>3
  <2>3. ASSUME Ticks /\ FeedConsecutive(i, upto[i] + 1, sending[i])
       PROVE  Good'
    BY <2>2, <2>3, FeedConsecutiveGood
  <2>4. ASSUME UNCHANGED receiver
       PROVE  Good'
    BY <2>4, GoodUnchanged
  <2>5. Good'
    BY <2>1, <2>3, <2>4 DEF Carried, Fed, Ticks, Number
  <2>6. BusTypeOK'
    <3>1. transfers' = transfers /\ sending' = sending
      BY <2>1 DEF Sends
    <3>2. upto' = [upto EXCEPT ![i] = upto[i] + 1]
      BY <2>1 DEF Sends
    <3>3. upto \in [Links -> Nat]
      BY <1>1 DEF BusTypeOK
    <3>4. upto' \in [Links -> Nat]
      BY <2>2, <3>2, <3>3
    <3> QED BY <1>1, <3>1, <3>4 DEF BusTypeOK
  <2> QED BY <2>5, <2>6
<1>11. ASSUME SendAlone
       PROVE  Good' /\ BusTypeOK'
  <2>1. PICK m \in {Orphan(l) : l \in Keys \cup Ids} \cup
                   {Message(i, 0, {Number}, {}, TRUE, {}) : i \in Ids} :
           Fed(FeedAlone({m}) /\ UNCHANGED ignored)
    BY <1>11 DEF SendAlone
  <2>2. Ticks /\ FeedAlone({m}) /\ ignored' = ignored
    BY <2>1 DEF Fed, Ticks, Number
  <2>3. clock \in Nat
    BY DEF Good, ReceiverTypeOK
  <2>4. ASSUME \E l \in Links : m = Orphan(l)
       PROVE  Good'
    BY <2>2, <2>3, <2>4, OrphanType, AloneGood
  <2>5. ASSUME \E i \in Ids : m = Message(i, 0, {Number}, {}, TRUE, {})
       PROVE  Good'
    <3>1. PICK i \in Ids : m = Message(i, 0, {Number}, {}, TRUE, {})
      BY <2>5
    <3>2. {} \in Chunks' /\ {Number} \in Frames' \ {{}}
      BY <2>2, <2>3, Grows, FS_EmptySet DEF Chunks, Frames
    <3>3. m \in Messages' /\ m.frames = {Number}
      BY <3>1, <3>2 DEF Message, Messages, Links
    <3> QED BY <2>2, <3>1, <3>3, <1>3, AloneGood
  <2>6. Good'
    BY <2>1, <2>4, <2>5 DEF Links
  <2> QED BY <2>6, <1>11 DEF SendAlone, BusTypeOK, Links
<1>12. ASSUME SendControl
       PROVE  Good' /\ BusTypeOK'
  <2>1. Ticks /\ FeedAlone({}) /\ ignored' = ignored \cup {Number}
    BY <1>12 DEF SendControl, Fed, Ticks, Number
  <2>2. Good'
    BY <2>1, ControlGood
  <2> QED BY <2>2, <1>12 DEF SendControl, BusTypeOK, Links
<1>13. ASSUME Flush
       PROVE  Good' /\ BusTypeOK'
  BY <1>13, FlushGood DEF Flush, bus, BusTypeOK, Links
<1> QED BY <1>4, <1>5, <1>6, <1>7, <1>8, <1>9, <1>10, <1>11, <1>12, <1>13 DEF Next

\* The types and the place of every frame are kept by every step.
THEOREM TransportInvariant == Spec => [](TypeOK /\ FramesOnce)
<1>1. Init => Good /\ BusTypeOK
  BY InitGood
<1>2. Good /\ BusTypeOK /\ [Next]_vars => (Good /\ BusTypeOK)'
  <2>1. CASE Next
    BY <2>1, NextGood
  <2>2. CASE UNCHANGED vars
    BY <2>2, GoodUnchanged DEF vars, bus, BusTypeOK, Links
  <2> QED BY <2>1, <2>2
<1>3. Good /\ BusTypeOK => TypeOK /\ FramesOnce
  BY DEF Good, TypeOK
<1> QED BY <1>1, <1>2, <1>3, PTL DEF Spec

\* Every frame that was fed is in one place: a message, an open session, or
\* none if it only steers (the handlers of J1939TpReassembler and
\* IsoTpReassembler, for every mixture of transfers).
THEOREM EveryFrameOnce == Spec => []FramesOnce
BY TransportInvariant, PTL

\* Every variable keeps its type, the ISO-TP sequence number its width.
THEOREM TransportTypes == Spec => []TypeOK
BY TransportInvariant, PTL

-----------------------------------------------------------------------------
(* Arithmetic. *)

\* Packets(size) is the least number of packets that hold size bytes.
LEMMA PacketsLeast ==
    \A size, n \in Nat : n * PacketBytes >= size <=> n >= Packets(size)
<1> SUFFICES ASSUME NEW size \in Nat, NEW n \in Nat
             PROVE  n * PacketBytes >= size <=> n >= Packets(size)
  OBVIOUS
<1> DEFINE a == size + PacketBytes - 1
           q == a \div PacketBytes
<1>1. a \in Nat
  BY BytesAssumption
<1>2. q \in Nat /\ PacketBytes * q <= a /\ a < PacketBytes * q + PacketBytes
  BY <1>1, BytesAssumption
<1>3. CASE n >= q
  <2>1. n * PacketBytes >= PacketBytes * q
    BY <1>2, <1>3, BytesAssumption
  <2> QED BY <2>1, <1>2, <1>3, BytesAssumption DEF Packets
<1>4. CASE n < q
  <2>1. n + 1 <= q
    BY <1>2, <1>4
  <2>2. (n + 1) * PacketBytes <= PacketBytes * q
    BY <1>2, <2>1, BytesAssumption
  <2>3. (n + 1) * PacketBytes = n * PacketBytes + PacketBytes
    BY BytesAssumption
  <2>4. n * PacketBytes \in Int /\ PacketBytes * q \in Int
    BY BytesAssumption, <1>2
  <2>5. n * PacketBytes < size
    BY <2>2, <2>3, <2>4, <1>2, BytesAssumption
  <2> QED BY <2>5, <2>4, <1>4, <1>2 DEF Packets
<1> QED BY <1>3, <1>4, <1>2

\* Consecutive(size) is the least number of consecutive frames that complete
\* the payload of a first frame.
LEMMA ConsecutiveLeast ==
    \A size, n \in Nat : FirstBytes + n * PacketBytes >= size <=> n >= Consecutive(size)
<1> SUFFICES ASSUME NEW size \in Nat, NEW n \in Nat
             PROVE  FirstBytes + n * PacketBytes >= size <=> n >= Consecutive(size)
  OBVIOUS
<1>1. n * PacketBytes \in Nat /\ FirstBytes \in Nat
  BY BytesAssumption
<1>2. CASE size <= FirstBytes
  BY <1>1, <1>2 DEF Consecutive
<1>3. CASE ~(size <= FirstBytes)
  <2>1. size - FirstBytes \in Nat
    BY <1>1, <1>3
  <2>2. n * PacketBytes >= size - FirstBytes <=> n >= Packets(size - FirstBytes)
    BY <2>1, PacketsLeast
  <2> QED BY <1>1, <1>3, <2>2 DEF Consecutive
<1> QED BY <1>2, <1>3

\* Division with remainder, and its uniqueness.
LEMMA Remainder ==
    ASSUME NEW a \in Nat
    PROVE  \E q \in Nat, r \in 0 .. Modulus - 1 : r = a % Modulus /\ a = Modulus * q + r
<1>1. PICK q \in Nat : q = a \div Modulus
  BY BytesAssumption
<1>2. PICK r \in 0 .. Modulus - 1 : r = a % Modulus
  BY BytesAssumption
<1>3. r \in Nat
  BY <1>2, BytesAssumption
<1>4. a = Modulus * q + r
  BY <1>1, <1>2, <1>3, BytesAssumption
<1> QED BY <1>1, <1>2, <1>4

\* A number has one quotient and one remainder.
LEMMA RemainderUnique ==
    ASSUME NEW q \in Nat, NEW p \in Nat, NEW r \in 0 .. Modulus - 1,
           NEW s \in 0 .. Modulus - 1, Modulus * q + r = Modulus * p + s
    PROVE  r = s
<1>1. ASSUME NEW x \in Nat, NEW y \in Nat, x < y
      PROVE  Modulus * x + Modulus <= Modulus * y
  <2>1. x + 1 <= y
    BY <1>1
  <2>2. Modulus * (x + 1) <= Modulus * y
    BY <2>1, BytesAssumption
  <2>3. Modulus * (x + 1) = Modulus * x + Modulus
    BY BytesAssumption
  <2> QED BY <2>2, <2>3
<1>2. Modulus * q \in Int /\ Modulus * p \in Int /\ Modulus \in Int
  BY BytesAssumption
<1>3. ~(q < p)
  <2> SUFFICES ASSUME q < p PROVE FALSE
    OBVIOUS
  <2>1. Modulus * q + Modulus <= Modulus * p
    BY <1>1
  <2> QED BY <2>1, <1>2
<1>4. ~(p < q)
  <2> SUFFICES ASSUME p < q PROVE FALSE
    OBVIOUS
  <2>1. Modulus * p + Modulus <= Modulus * q
    BY <1>1
  <2> QED BY <2>1, <1>2
<1>5. p = q
  BY <1>3, <1>4
<1>6. Modulus * q + r = Modulus * q + s
  BY <1>5
<1> QED BY <1>6, <1>2

\* The number that follows a sequence number is that of the next packet.
LEMMA NextNumber ==
    ASSUME NEW a \in Nat
    PROVE  ((a % Modulus) + 1) % Modulus = (a + 1) % Modulus
<1>1. PICK q \in Nat, r \in 0 .. Modulus - 1 : r = a % Modulus /\ a = Modulus * q + r
  BY Remainder
<1>2. PICK p \in Nat, s \in 0 .. Modulus - 1 :
         s = (a + 1) % Modulus /\ a + 1 = Modulus * p + s
  <2>1. a + 1 \in Nat
    OBVIOUS
  <2> QED BY <2>1, Remainder
<1>3. CASE r + 1 < Modulus
  <2>1. (r + 1) % Modulus = r + 1
    BY <1>1, <1>3, BytesAssumption
  <2>2. r + 1 \in 0 .. Modulus - 1
    BY <1>1, <1>3, BytesAssumption
  <2>3. Modulus * q \in Int /\ Modulus * p \in Int
    BY <1>1, <1>2, BytesAssumption
  <2>4. Modulus * q + (r + 1) = Modulus * p + s
    BY <1>1, <1>2, <2>3
  <2>5. r + 1 = s
    BY <2>2, <2>4, RemainderUnique
  <2> QED BY <2>1, <2>5, <1>1, <1>2
<1>4. CASE r + 1 = Modulus
  <2>1. (r + 1) % Modulus = 0
    <3>1. Modulus % Modulus = 0
      BY BytesAssumption
    <3> QED BY <1>4, <3>1
  <2>2. 0 \in 0 .. Modulus - 1
    BY BytesAssumption
  <2>3. /\ Modulus * q \in Int /\ Modulus * p \in Int
        /\ Modulus * (q + 1) = Modulus * q + Modulus
    BY <1>1, <1>2, BytesAssumption
  <2>4. Modulus * (q + 1) + 0 = Modulus * p + s
    BY <1>1, <1>2, <2>3, <1>4, BytesAssumption
  <2>5. q + 1 \in Nat
    BY <1>1
  <2>6. 0 = s
    BY <2>2, <2>4, <2>5, RemainderUnique
  <2> QED BY <2>1, <2>6, <1>1, <1>2
<1> QED BY <1>1, <1>3, <1>4, BytesAssumption

\* A set of chunks that are numbered from 1 to n, each once, has n members.
LEMMA Numbered ==
    ASSUME NEW S, NEW n \in Nat, {c[1] : c \in S} = 1 .. n,
           \A c, d \in S : c[1] = d[1] => c = d
    PROVE  Cardinality(S) = n
<1> DEFINE f == [j \in 1 .. n |-> CHOOSE c \in S : c[1] = j]
<1>1. \A j \in 1 .. n : f[j] \in S /\ f[j][1] = j
  <2> SUFFICES ASSUME NEW j \in 1 .. n PROVE \E c \in S : c[1] = j
    OBVIOUS
  <2> QED OBVIOUS
<1>2. f \in Bijection(1 .. n, S)
  <2> HIDE DEF f
  <2>1. f \in [1 .. n -> S]
    BY <1>1 DEF f
  <2>2. \A i, j \in 1 .. n : f[i] = f[j] => i = j
    BY <1>1
  <2>3. \A c \in S : \E j \in 1 .. n : f[j] = c
    <3> SUFFICES ASSUME NEW c \in S PROVE \E j \in 1 .. n : f[j] = c
      OBVIOUS
    <3>1. c[1] \in 1 .. n
      OBVIOUS
    <3>2. f[c[1]] = c
      BY <3>1, <1>1
    <3> QED BY <3>1, <3>2
  <2> QED BY <2>1, <2>2, <2>3 DEF Bijection, Injection, Surjection, IsInjective
<1>3. IsFiniteSet(1 .. n) /\ Cardinality(1 .. n) = n
  BY FS_Interval
<1> QED BY <1>2, <1>3, FS_Bijection DEF ExistsBijection

-----------------------------------------------------------------------------
(* What a step of the bus leaves true. *)

\* The bus has sent more, and what was lost stays lost.
Grown ==
    /\ Len(transfers') >= Len(transfers)
    /\ \A t \in 1 .. Len(transfers) : transfers'[t] = transfers[t]
    /\ lost \subseteq lost'

\* A transfer stays what it is, and so does what a message says of it.
LEMMA Stays ==
    ASSUME BusTypeOK, Grown, BusTypeOK'
    PROVE  /\ \A t, l : SentOn(t, l) => SentOn(t, l)'
           /\ \A t : HeaderLost(t) => HeaderLost(t)'
           /\ \A t \in 1 .. Len(transfers) :
                 /\ Whole(t)' = Whole(t) /\ LastPacket(t)' = LastPacket(t)
                 /\ WellFormed(t)' <=> WellFormed(t)
           /\ \A m : MessageInv(m) => MessageInv(m)'
<1>1. Len(transfers) \in Nat /\ Len(transfers') \in Nat
  BY DEF BusTypeOK
<1>2. \A t \in 1 .. Len(transfers) : t \in 1 .. Len(transfers') /\ transfers'[t] = transfers[t]
  BY <1>1 DEF Grown
<1>3. \A t, l : SentOn(t, l) => SentOn(t, l)'
  BY <1>2 DEF SentOn
<1>4. \A t : HeaderLost(t) => HeaderLost(t)'
  BY DEF Grown, HeaderLost
<1>5. \A t \in 1 .. Len(transfers) : Whole(t)' = Whole(t)
  BY <1>2 DEF Whole, Consecutive, Packets
<1>6. \A t \in 1 .. Len(transfers) : LastPacket(t)' = LastPacket(t)
  BY <1>2 DEF LastPacket
<1>7. \A t \in 1 .. Len(transfers) : WellFormed(t)' <=> WellFormed(t)
  BY <1>2 DEF WellFormed
<1>8. ASSUME NEW m, MessageInv(m)
      PROVE  MessageInv(m)'
  <2>1. \A c \in m.payload : SentOn(c[3], m.link)'
    BY <1>3, <1>8 DEF MessageInv
  <2>2. ASSUME m.complete, m.payload # {}, m.payload = Whole(m.of)
        PROVE  m.payload = Whole(m.of)'
    <3>1. PICK c \in m.payload : c[3] = m.of
      BY <2>2 DEF Whole
    <3>2. m.of \in 1 .. Len(transfers)
      BY <3>1, <1>8 DEF MessageInv, SentOn
    <3> QED BY <3>2, <1>5, <2>2
  <2> QED BY <2>1, <2>2, <1>4, <1>8 DEF MessageInv
<1> QED BY <1>3, <1>4, <1>5, <1>6, <1>7, <1>8

-----------------------------------------------------------------------------
(* The sessions that the handlers build. *)

\* _feed_dt keeps a session sound: the packet is of the transfer that is being
\* sent, and a number is stored once.
LEMMA StoredSound ==
    ASSUME NEW k \in Keys, NEW s, TpSound(k, s), NEW p, NEW t,
           t = sending[k], t # 0, SentOn(t, k)
    PROVE  TpSound(k, Stored(s, p, t))
<1> DEFINE r == Stored(s, p, t)
<1>1. r.of = s.of /\ r.size = s.size /\ r.count = s.count
  BY DEF Stored
<1>2. \A c \in r.chunks : c \in s.chunks \/
         (c = <<p, p, t>> /\ p \in 1 .. s.count /\ \A d \in s.chunks : d[1] # p)
  BY DEF Stored
<1>3. Fits(<<p, p, t>>, s.of, k)
  BY DEF TpSound, FedBy, Fits
<1> HIDE DEF r
<1>4. \A c \in r.chunks : Fits(c, s.of, k) /\ c[1] = c[2] /\ c[1] \in 1 .. s.count
  BY <1>2, <1>3 DEF TpSound
<1>5. \A c, d \in r.chunks : c[1] = d[1] => c = d
  BY <1>2 DEF TpSound
<1> QED BY <1>1, <1>4, <1>5 DEF TpSound, r

\* The packets that a session with every number has before number n.
LEMMA Before ==
    ASSUME NEW s, s.count \in Nat, AllPresent(s),
           \A c, d \in s.chunks : c[1] = d[1] => c = d, NEW n \in 1 .. s.count
    PROVE  Cardinality({d \in s.chunks : d[1] < n}) = n - 1
<1> DEFINE S == {d \in s.chunks : d[1] < n}
<1>1. n - 1 \in Nat
  OBVIOUS
<1>2. {c[1] : c \in S} = 1 .. n - 1
  <2>1. \A c \in S : c[1] \in 1 .. n - 1
    <3> SUFFICES ASSUME NEW c \in S PROVE c[1] \in 1 .. n - 1
      OBVIOUS
    <3>1. c[1] \in {d[1] : d \in s.chunks} /\ c[1] < n
      OBVIOUS
    <3>2. c[1] \in 1 .. s.count /\ c[1] < n
      BY <3>1 DEF AllPresent
    <3> QED BY <3>2
  <2>2. \A j \in 1 .. n - 1 : \E c \in S : c[1] = j
    <3> SUFFICES ASSUME NEW j \in 1 .. n - 1 PROVE \E c \in S : c[1] = j
      OBVIOUS
    <3>1. j \in 1 .. s.count
      OBVIOUS
    <3>2. PICK c \in s.chunks : c[1] = j
      BY <3>1 DEF AllPresent
    <3> QED BY <3>2
  <2> QED BY <2>1, <2>2
<1>3. \A c, d \in S : c[1] = d[1] => c = d
  OBVIOUS
<1> QED BY <1>1, <1>2, <1>3, Numbered

\* _build_message: a session with every number is cut after the last packet of
\* the declared length.
LEMMA JoinedIsCut ==
    ASSUME NEW k \in Keys, NEW s, TpSound(k, s), AllPresent(s), s.count \in Nat, s.size \in Nat
    PROVE  Joined(s) = {c \in s.chunks : c[1] <= Packets(s.size)}
<1> SUFFICES ASSUME NEW c \in s.chunks
             PROVE  Cardinality({d \in s.chunks : d[1] < c[1]}) * PacketBytes < s.size
                       <=> c[1] <= Packets(s.size)
  BY DEF Joined
<1>1. c[1] \in 1 .. s.count
  BY DEF TpSound
<1>2. PICK n \in Nat, z \in Nat : n = c[1] - 1 /\ z = Packets(s.size)
  BY <1>1, PacketsType
<1>3. Cardinality({d \in s.chunks : d[1] < c[1]}) = n
  BY <1>1, <1>2, Before DEF TpSound
<1>4. n * PacketBytes >= s.size <=> n >= z
  BY <1>2, PacketsLeast
<1>5. n * PacketBytes \in Nat
  BY BytesAssumption
<1>6. c[1] <= z <=> ~(n >= z)
  BY <1>1, <1>2
<1> QED BY <1>2, <1>3, <1>4, <1>5, <1>6

\* _build_message returns a message whose payload is exact if it is complete.
LEMMA TpMessageExact ==
    ASSUME BusTypeOK, NEW k \in Keys, NEW s, TpSound(k, s), s.count \in Nat, s.size \in Nat,
           s.chunks \in Chunks, NEW c, c => AllPresent(s) /\ TpComplete(s), NEW e
    PROVE  MessageInv(TpMessage(k, s, c, e))
<1> DEFINE m == TpMessage(k, s, c, e)
<1>1. m.payload = Joined(s) /\ m.link = k /\ m.of = s.of /\ m.complete = c
  BY DEF TpMessage, Message
<1> HIDE DEF m
<1>2. \A x \in m.payload : SentOn(x[3], m.link)
  BY <1>1 DEF Joined, TpSound, Fits
<1>3. ASSUME c, ~ \E x \in m.payload : HeaderLost(x[3])
      PROVE  m.payload = Whole(m.of)
  <2>1. m.payload = {x \in s.chunks : x[1] <= Packets(s.size)}
    BY <1>1, <1>3, JoinedIsCut
  <2>2. Packets(s.size) <= s.count
    BY <1>3, PacketsLeast DEF TpComplete
  <2>3. SentOn(s.of, k) /\ s.size = transfers[s.of].size /\ k \notin Ids
    BY LinksAssumption DEF TpSound, FedBy
  <2>4. Whole(m.of) = {<<p, p, s.of>> : p \in 1 .. Packets(s.size)}
    BY <1>1, <2>3 DEF Whole, SentOn
  <2>5. \A x \in m.payload : x = <<x[1], x[1], s.of>> /\ x[1] \in 1 .. Packets(s.size)
    <3> SUFFICES ASSUME NEW x \in m.payload
                 PROVE  x = <<x[1], x[1], s.of>> /\ x[1] \in 1 .. Packets(s.size)
      OBVIOUS
    <3>1. x \in s.chunks /\ x[1] <= Packets(s.size) /\ x[3] = s.of /\ x[1] = x[2] /\ x[1] \in 1 .. s.count
      BY <2>1, <1>3 DEF TpSound, Fits
    <3>2. x \in Nat \X Nat \X Nat
      BY <3>1 DEF Chunks
    <3> QED BY <3>1, <3>2, PacketsType
  <2>6. \A p \in 1 .. Packets(s.size) : <<p, p, s.of>> \in m.payload
    <3> SUFFICES ASSUME NEW p \in 1 .. Packets(s.size) PROVE <<p, p, s.of>> \in m.payload
      OBVIOUS
    <3>1. p \in 1 .. s.count
      BY <2>2, PacketsType
    <3>2. PICK x \in s.chunks : x[1] = p
      BY <3>1, <1>3 DEF AllPresent
    <3>3. x \in m.payload
      BY <2>1, <3>2, PacketsType
    <3> QED BY <2>5, <3>2, <3>3
  <2> QED BY <2>4, <2>5, <2>6
<1> QED BY <1>1, <1>2, <1>3 DEF MessageInv, m

\* The transfer under way on link l has sent its packets up to number q.
SentUpTo(l, q) ==
    /\ sending[l] # 0
    /\ q \in Nat /\ q >= upto[l] /\ q <= LastPacket(sending[l])
    /\ upto' = [upto EXCEPT ![l] = q]
    /\ UNCHANGED <<transfers, sending, aborted>>

\* _consecutive_frame keeps a session sound.
LEMMA ExtendedSound ==
    ASSUME BusTypeOK, NEW i \in Ids, NEW s, s.chunks \in Chunks, ChainSound(i, s),
           NEW p, SentUpTo(i, p), p = upto[i] + 1, SentOn(sending[i], i), lost' = lost,
           NEW r, r.of = s.of, r.size = s.size,
           r.chunks = s.chunks \cup {<<Cardinality(s.chunks), p, sending[i]>>}
    PROVE  ChainSound(i, r)' /\ \E c \in r.chunks : c[3] = sending[i]
<1> DEFINE n == Cardinality(s.chunks)
           x == <<n, p, sending[i]>>
<1>1. n \in Nat /\ Cardinality(r.chunks) = n + 1
  <2>1. IsFiniteSet(s.chunks) /\ n \in Nat
    BY FS_CardinalityType DEF Chunks
  <2>2. x \notin s.chunks
    <3> SUFFICES ASSUME x \in s.chunks PROVE FALSE
      OBVIOUS
    <3>1. x[1] \in {c[1] : c \in s.chunks}
      OBVIOUS
    <3>2. n \in 0 .. n - 1
      BY <3>1 DEF ChainSound
    <3> QED BY <2>1, <3>2
  <2>3. Cardinality(s.chunks \cup {x}) = n + 1
    BY <2>1, <2>2, FS_AddElement
  <2> QED BY <2>1, <2>3
<1>2. upto[i] \in Nat /\ p = upto[i] + 1 /\ upto'[i] = p /\ transfers' = transfers
      /\ sending' = sending
  BY DEF SentUpTo, BusTypeOK, Links
<1>3. {c[1] : c \in s.chunks} = 0 .. n - 1
  BY DEF ChainSound
<1>4. x \in r.chunks /\ \A c \in r.chunks : c \in s.chunks \/ c = x
  OBVIOUS
<1> HIDE DEF n
<1>5. {c[1] : c \in r.chunks} = 0 .. n
  <2>1. 0 .. n = (0 .. n - 1) \cup {n}
    BY <1>1
  <2>2. \A c \in r.chunks : c[1] \in (0 .. n - 1) \cup {n}
    BY <1>4, <1>3
  <2>3. \A j \in (0 .. n - 1) \cup {n} : \E c \in r.chunks : c[1] = j
    <3>1. \A j \in 0 .. n - 1 : \E c \in s.chunks : c[1] = j
      BY <1>3
    <3> QED BY <3>1, <1>4
  <2> QED BY <2>1, <2>2, <2>3
<1>6. Fits(x, s.of, i) /\ (x[3] = s.of => sending[i] = s.of)
  BY DEF ChainSound, FedBy, Fits, SentUpTo
<1>7. \A c \in r.chunks : Fits(c, s.of, i)
  BY <1>6, <1>4 DEF ChainSound
<1>8. ASSUME \A c \in r.chunks : c[3] = s.of
      PROVE  \A c \in r.chunks : c[2] >= c[1] /\ c[2] + n <= c[1] + upto'[i]
  <2>1. sending[i] = s.of
    BY <1>8, <1>4
  <2>2. \A c \in s.chunks : c[2] >= c[1] /\ c[2] + (n - 1) <= c[1] + upto[i]
    BY <1>8, <2>1 DEF ChainSound, n
  <2>3. \A c \in s.chunks : c[1] \in Nat /\ c[2] \in Nat
    BY DEF Chunks
  <2>4. p >= n
    <3>1. CASE n = 0
      BY <3>1, <1>2
    <3>2. CASE n # 0
      <4>1. 0 \in 0 .. n - 1
        BY <3>2, <1>1
      <4>2. PICK c \in s.chunks : c[1] = 0
        BY <4>1, <1>3
      <4> QED BY <4>2, <2>2, <2>3, <1>1, <1>2
    <3> QED BY <3>1, <3>2
  <2>5. \A c \in s.chunks : c[2] >= c[1] /\ c[2] + n <= c[1] + upto'[i]
    BY <2>2, <2>3, <1>1, <1>2
  <2>6. x[2] >= x[1] /\ x[2] + n <= x[1] + upto'[i]
    BY <2>4, <1>1, <1>2
  <2> QED BY <2>5, <2>6, <1>4
<1>9. ChainSound(i, r)'
  <2>1. FedBy(s.of, i)' /\ r.size = transfers'[r.of].size
    BY <1>2 DEF ChainSound, FedBy, SentOn, HeaderLost
  <2>2. \A c \in r.chunks : Fits(c, s.of, i)'
    BY <1>2, <1>7 DEF Fits, SentOn, HeaderLost
  <2>3. Cardinality(r.chunks) - 1 = n
    BY <1>1
  <2> QED BY <2>1, <2>2, <2>3, <1>5, <1>8 DEF ChainSound
<1> QED BY <1>9, <1>4

\* _build_complete: a session that has the declared length and was fed by one
\* transfer alone has every frame of it, for none is left that it could miss.
LEMMA ChainMessageExact ==
    ASSUME BusTypeOK', NEW i \in Ids, NEW s, s.chunks \in Chunks, s.size \in Nat,
           ChainSound(i, s)', SenderInv(i)', NEW b, NEW e,
           b => ChainBytes(s) >= s.size /\ \E c \in s.chunks : c[3] = sending'[i]
    PROVE  MessageInv(Chain(i, s, b, e))'
<1> DEFINE m == Chain(i, s, b, e)
           last == Cardinality(s.chunks) - 1
<1>1. m.payload = s.chunks /\ m.link = i /\ m.of = s.of /\ m.complete = b
  BY DEF Chain, Message
<1> HIDE DEF m
<1>2. \A c \in m.payload : SentOn(c[3], m.link)'
  BY <1>1 DEF ChainSound, Fits
<1>3. ASSUME b, ~ \E c \in m.payload : HeaderLost(c[3])'
      PROVE  m.payload = Whole(m.of)'
  <2>1. \A c \in s.chunks : c[3] = s.of
    BY <1>1, <1>3 DEF ChainSound, Fits
  <2>2. sending'[i] = s.of
    BY <1>3, <2>1
  <2>3. PICK c0 \in s.chunks : TRUE
    BY <1>3
  <2>4. {c[1] : c \in s.chunks} = 0 .. last /\ last \in Nat
    <3>1. Cardinality(s.chunks) \in Nat
      BY FS_CardinalityType DEF Chunks
    <3>2. {c[1] : c \in s.chunks} = 0 .. last
      BY DEF ChainSound
    <3>3. c0[1] \in 0 .. last
      BY <3>2
    <3> QED BY <3>1, <3>2, <3>3
  <2>5. \A c \in s.chunks : c[2] >= c[1] /\ c[2] + last <= c[1] + upto'[i]
    BY <2>1, <2>2 DEF ChainSound
  <2>6. /\ SentOn(s.of, i)' /\ s.of \in 1 .. Len(transfers')
        /\ transfers'[s.of].link = i /\ s.size = transfers'[s.of].size
    BY DEF ChainSound, FedBy, SentOn
  <2>7. upto'[i] <= Consecutive(s.size)
    <3>1. s.of # 0
      BY <2>6
    <3> QED BY <2>2, <2>6, <3>1 DEF SenderInv, LastPacket, Consecutive, Packets
  <2>8. last >= Consecutive(s.size)
    BY <1>3, <2>4, ConsecutiveLeast DEF ChainBytes
  <2>9. upto'[i] \in Nat /\ Consecutive(s.size) \in Nat
    BY PacketsType DEF BusTypeOK, Links
  <2> HIDE DEF last
  <2>10. \A c \in s.chunks : c[1] \in Nat /\ c[2] \in Nat /\ c = <<c[1], c[2], c[3]>>
    BY DEF Chunks
  <2>11. \A c \in s.chunks : c[2] = c[1]
    BY <2>4, <2>5, <2>7, <2>8, <2>9, <2>10
  <2>12. last = Consecutive(s.size)
    BY <2>3, <2>4, <2>5, <2>7, <2>8, <2>9, <2>10
  <2>13. s.chunks = {<<p, p, s.of>> : p \in 0 .. Consecutive(s.size)}
    <3>1. \A c \in s.chunks : c = <<c[1], c[1], s.of>> /\ c[1] \in 0 .. Consecutive(s.size)
      BY <2>1, <2>4, <2>10, <2>11, <2>12
    <3>2. \A p \in 0 .. Consecutive(s.size) : <<p, p, s.of>> \in s.chunks
      <4> SUFFICES ASSUME NEW p \in 0 .. Consecutive(s.size) PROVE <<p, p, s.of>> \in s.chunks
        OBVIOUS
      <4>1. PICK c \in s.chunks : c[1] = p
        BY <2>4, <2>12
      <4> QED BY <4>1, <3>1
    <3> QED BY <3>1, <3>2
  <2> QED BY <1>1, <2>6, <2>13 DEF Whole, Consecutive, Packets
<1> QED BY <1>1, <1>2, <1>3 DEF MessageInv, m

-----------------------------------------------------------------------------
(* The links that a step leaves alone. *)

\* What is known of the bus.
BusInv ==
    /\ BusTypeOK
    /\ arrived \subseteq (1 .. Len(transfers)) \X Nat
    /\ \A l \in Links : SenderInv(l)

\* What step is on the bus, whatever the receiver does.
BusStep == BusInv /\ BusInv' /\ Grown

\* Nothing of transfer t arrives.
Quiet(t) == \A p : <<t, p>> \in arrived' <=> <<t, p>> \in arrived

\* A transfer is received by what arrives of it alone.
LEMMA ReceivedStays ==
    ASSUME BusStep, NEW t \in 1 .. Len(transfers), Quiet(t)
    PROVE  Received(t)' <=> Received(t)
<1>1. Whole(t)' = Whole(t)
  BY Stays DEF BusStep, BusInv
<1> QED BY <1>1 DEF Received, Quiet

\* A transfer of which nothing arrives stays as complete as it was.
Told(t) ==
    (Received(t) /\ WellFormed(t) /\ t \notin aborted) =>
        \E m \in messages : m.of = t /\ m.complete /\ m.payload = Whole(t)

\* Its message stays.
LEMMA ToldStays ==
    ASSUME BusStep, NEW t \in 1 .. Len(transfers), Quiet(t), Told(t),
           aborted \subseteq aborted', messages \subseteq messages'
    PROVE  Told(t)'
<1>1. Whole(t)' = Whole(t) /\ (WellFormed(t)' <=> WellFormed(t))
  BY Stays DEF BusStep, BusInv
<1> QED BY <1>1, ReceivedStays DEF Told

\* A J1939 session stays sound until a header of its link arrives.
LEMMA TpSoundStays ==
    ASSUME BusStep, NEW k, NEW s, TpSound(k, s),
           sending'[k] \in {0, sending[k]} \/ <<sending'[k], 0>> \in lost'
    PROVE  TpSound(k, s)'
<1>1. \A t, l : SentOn(t, l) => SentOn(t, l)'
  BY Stays DEF BusStep, BusInv
<1>2. \A t : HeaderLost(t) => HeaderLost(t)'
  BY Stays DEF BusStep, BusInv
<1>3. FedBy(s.of, k)'
  BY <1>1, <1>2 DEF TpSound, FedBy, HeaderLost
<1>4. s.of \in 1 .. Len(transfers) /\ transfers'[s.of] = transfers[s.of]
  BY DEF TpSound, FedBy, SentOn, BusStep, Grown
<1>5. \A c \in s.chunks : Fits(c, s.of, k)'
  BY <1>1, <1>2 DEF TpSound, Fits
<1> QED BY <1>3, <1>4, <1>5 DEF TpSound

\* An ISO-TP session stays sound while its sender goes on.
LEMMA ChainSoundStays ==
    ASSUME BusStep, NEW i \in Ids, NEW s, s.chunks \in Chunks, ChainSound(i, s),
           \/ sending'[i] = sending[i] /\ upto'[i] >= upto[i]
           \/ <<sending'[i], 0>> \in lost' /\ sending'[i] \notin 1 .. Len(transfers)
    PROVE  ChainSound(i, s)'
<1>1. \A t, l : SentOn(t, l) => SentOn(t, l)'
  BY Stays DEF BusStep, BusInv
<1>2. \A t : HeaderLost(t) => HeaderLost(t)'
  BY Stays DEF BusStep, BusInv
<1>3. FedBy(s.of, i)'
  BY <1>1, <1>2 DEF ChainSound, FedBy, HeaderLost
<1>4. s.of \in 1 .. Len(transfers) /\ transfers'[s.of] = transfers[s.of]
  BY DEF ChainSound, FedBy, SentOn, BusStep, Grown
<1>5. \A c \in s.chunks : Fits(c, s.of, i)'
  BY <1>1, <1>2 DEF ChainSound, Fits
<1>6. PICK last \in Int : last = Cardinality(s.chunks) - 1
  BY FS_CardinalityType DEF Chunks
<1>7. upto[i] \in Nat /\ upto'[i] \in Nat /\ \A c \in s.chunks : c[1] \in Nat /\ c[2] \in Nat
  BY DEF Chunks, BusStep, BusInv, BusTypeOK, Links
<1>8. ASSUME \A c \in s.chunks : c[3] = s.of, sending'[i] = s.of
      PROVE  \A c \in s.chunks : c[2] + last <= c[1] + upto'[i]
  <2>1. sending'[i] = sending[i] /\ upto'[i] >= upto[i]
    BY <1>4, <1>8
  <2>2. \A c \in s.chunks : c[2] + last <= c[1] + upto[i]
    BY <1>6, <1>8, <2>1 DEF ChainSound
  <2> QED BY <1>6, <1>7, <2>1, <2>2
<1> QED BY <1>3, <1>4, <1>5, <1>6, <1>8 DEF ChainSound

\* A link of whose transfer nothing arrives keeps its session up to date.
LEMMA TpFollowsStays ==
    ASSUME BusStep, NEW k \in Keys, TpFollows(k), tp'[k] = tp[k], flushed' = flushed,
           sending'[k] \in {0, sending[k]}, Quiet(sending[k]), aborted \subseteq aborted'
    PROVE  TpFollows(k)'
<1> PICK t : t = sending[k]
  OBVIOUS
<1>1. CASE sending'[k] = 0
  BY <1>1 DEF TpFollows
<1>2. CASE sending'[k] = t /\ t # 0
  <2>1. t \in 1 .. Len(transfers)
    BY <1>2 DEF BusStep, BusInv, SenderInv, SentOn, Links
  <2>2. /\ LastPacket(t)' = LastPacket(t) /\ (WellFormed(t)' <=> WellFormed(t))
        /\ (Received(t)' <=> Received(t))
    <3>1. Received(t)' <=> Received(t)
      BY <2>1, ReceivedStays
    <3>2. LastPacket(t)' = LastPacket(t) /\ (WellFormed(t)' <=> WellFormed(t))
      BY <2>1, Stays DEF BusStep, BusInv
    <3> QED BY <3>1, <3>2
  <2>3. /\ LastPacket(sending[k])' = LastPacket(t) /\ (WellFormed(sending[k])' <=> WellFormed(t))
        /\ (Received(sending[k])' <=> Received(t))
    BY <1>2, <2>2 DEF LastPacket, WellFormed, Received, Whole
  <2>4. /\ <<t, 0>> \in arrived' <=> <<t, 0>> \in arrived
        /\ {q \in 1 .. LastPacket(t) : <<t, q>> \in arrived'}
             = {q \in 1 .. LastPacket(t) : <<t, q>> \in arrived}
    BY DEF Quiet
  <2> QED BY <1>2, <2>3, <2>4 DEF TpFollows, IsOpen
<1> QED BY <1>1, <1>2

\* The same of an ISO-TP session.
LEMMA ChainFollowsStays ==
    ASSUME BusStep, NEW i \in Ids, ChainFollows(i), isotp'[i] = isotp[i], flushed' = flushed,
           sending'[i] = sending[i], upto'[i] = upto[i], Quiet(sending[i])
    PROVE  ChainFollows(i)'
<1> PICK t : t = sending[i]
  OBVIOUS
<1>1. CASE t = 0
  BY <1>1 DEF ChainFollows
<1>2. CASE t # 0
  <2>1. t \in 1 .. Len(transfers)
    BY <1>2 DEF BusStep, BusInv, SenderInv, SentOn, Links
  <2>2. LastPacket(t)' = LastPacket(t)
    BY <2>1, Stays DEF BusStep, BusInv
  <2>3. LastPacket(sending[i])' = LastPacket(t)
    BY <2>2 DEF LastPacket
  <2> QED BY <2>3 DEF ChainFollows, IsOpen, Quiet
<1> QED BY <1>1, <1>2

-----------------------------------------------------------------------------
(* The bus. *)

\* The number of packets of a transfer is a number.
LEMMA LastPacketType ==
    ASSUME BusTypeOK, NEW t \in 1 .. Len(transfers)
    PROVE  LastPacket(t) \in Nat
<1>1. transfers[t] \in [link : Links, size : Nat, count : Nat]
  BY ElementOfSeq DEF BusTypeOK
<1> QED BY <1>1, PacketsType DEF LastPacket

\* Announce without its frame: transfer t starts on link l.
Announced(l, size, count, t) ==
    /\ t = Len(transfers) + 1
    /\ transfers' = Append(transfers, [link |-> l, size |-> size, count |-> count])
    /\ sending' = [sending EXCEPT ![l] = t]
    /\ upto' = [upto EXCEPT ![l] = 0]
    /\ aborted' = aborted

\* What is known of the bus after that.
Started(l, size, count, t) ==
    /\ BusStep
    /\ SentOn(t, l)' /\ t \notin 1 .. Len(transfers) /\ t # 0
    /\ 1 .. Len(transfers') = (1 .. Len(transfers)) \cup {t}
    /\ transfers'[t] = [link |-> l, size |-> size, count |-> count]
    /\ sending'[l] = t /\ upto'[l] = 0
    /\ \A m \in Links \ {l} :
          sending'[m] = sending[m] /\ upto'[m] = upto[m] /\ Quiet(sending[m])
    /\ \A u \in 1 .. Len(transfers) : Quiet(u)
    /\ \A a \in arrived' : a[1] = t => a = <<t, 0>>

\* A header starts a transfer that nothing was known of.
LEMMA AnnouncedBus ==
    ASSUME BusInv, NEW l \in Links, NEW size \in Nat, NEW count \in Nat,
           NEW t, Announced(l, size, count, t),
           arrived' = arrived \/ arrived' = arrived \cup {<<t, 0>>},
           lost \subseteq lost'
    PROVE  Started(l, size, count, t)
<1> USE DEF Announced
<1>1. /\ transfers \in Seq([link : Links, size : Nat, count : Nat])
      /\ sending \in [Links -> 0 .. Len(transfers)] /\ upto \in [Links -> Nat]
      /\ Len(transfers) \in Nat
  BY DEF BusInv, BusTypeOK
<1>2. BusTypeOK'
  BY AnnounceTypes DEF BusInv
<1>3. /\ Len(transfers') = t /\ t \in Nat
      /\ \A u \in 1 .. Len(transfers) : transfers'[u] = transfers[u]
      /\ transfers'[t] = [link |-> l, size |-> size, count |-> count]
  BY <1>1
<1>4. Grown
  BY <1>1, <1>3 DEF Grown
<1>5. 1 .. Len(transfers') = (1 .. Len(transfers)) \cup {t} /\ t \notin 1 .. Len(transfers)
  BY <1>1, <1>3
<1>6. \A a \in arrived : a[1] \in 1 .. Len(transfers) /\ a[2] \in Nat /\ a = <<a[1], a[2]>>
  BY DEF BusInv
<1>7. arrived' \subseteq (1 .. Len(transfers')) \X Nat
  BY <1>5, <1>6 DEF BusInv
<1>8. \A a \in arrived' : a[1] = t => a = <<t, 0>>
  BY <1>5, <1>6
<1>9. /\ t # 0 /\ \A u \in 1 .. Len(transfers) : Quiet(u)
      /\ \A m \in Links : Quiet(sending[m])
  <2>1. t # 0
    BY <1>1
  <2>2. \A u \in (1 .. Len(transfers)) \cup {0} : Quiet(u)
    BY <2>1, <1>5 DEF Quiet
  <2>3. \A m \in Links : sending[m] \in (1 .. Len(transfers)) \cup {0}
    BY <1>1
  <2> QED BY <2>1, <2>2, <2>3
<1>10. /\ sending'[l] = t /\ upto'[l] = 0
       /\ \A m \in Links \ {l} : sending'[m] = sending[m] /\ upto'[m] = upto[m]
  BY <1>1
<1>11. SentOn(t, l)'
  BY <1>3, <1>5 DEF SentOn
<1>12. \A m \in Links : SenderInv(m)'
  <2> SUFFICES ASSUME NEW m \in Links PROVE SenderInv(m)'
    BY DEF Links
  <2>1. CASE m = l
    <3>1. t \in 1 .. Len(transfers') /\ LastPacket(t)' \in Nat
      <4>1. LastPacket(t)' = IF l \in Ids THEN Consecutive(size) ELSE Packets(size)
        BY <1>3 DEF LastPacket, Consecutive, Packets
      <4> QED BY <4>1, <1>5, PacketsType
    <3>2. LastPacket(sending[l])' = LastPacket(t)'
      BY <1>10 DEF LastPacket, Consecutive, Packets
    <3>3. SentOn(sending[l], l)'
      BY <1>10, <1>11 DEF SentOn
    <3>4. \A a \in arrived' : a[1] = sending'[l] => a[2] <= upto'[l]
      BY <1>8, <1>10
    <3> QED BY <2>1, <3>1, <3>2, <3>3, <3>4, <1>10 DEF SenderInv
  <2>2. CASE m # l
    <3>1. sending'[m] = sending[m] /\ upto'[m] = upto[m]
      BY <2>2, <1>10
    <3>2. CASE sending[m] = 0
      BY <3>1, <3>2 DEF SenderInv
    <3>3. CASE sending[m] # 0
      <4> PICK u : u = sending[m]
        OBVIOUS
      <4>1. /\ SentOn(u, m) /\ upto[m] <= LastPacket(u) /\ u \in 1 .. Len(transfers)
            /\ \A a \in arrived : a[1] = u => a[2] <= upto[m]
        BY <3>3 DEF BusInv, SenderInv, SentOn
      <4>2. SentOn(u, m)' /\ LastPacket(u)' = LastPacket(u)
        BY <4>1, <1>2, <1>4, Stays DEF BusInv
      <4>3. \A a \in arrived' : a[1] = u => a \in arrived
        BY <4>1, <1>5
      <4>4. SentOn(sending[m], m)' /\ LastPacket(sending[m])' = LastPacket(u)'
        BY <3>1, <4>2 DEF SentOn, LastPacket, Consecutive, Packets
      <4> QED BY <3>1, <4>1, <4>2, <4>3, <4>4 DEF SenderInv
    <3> QED BY <3>2, <3>3
  <2> QED BY <2>1, <2>2
<1>13. BusStep
  BY <1>2, <1>4, <1>7, <1>12 DEF BusStep, BusInv
<1> QED BY <1>3, <1>5, <1>8, <1>9, <1>10, <1>11, <1>13 DEF Started

\* What is known of the bus when a packet of link l was sent.
OnAir(l) ==
    /\ BusStep
    /\ SentOn(sending[l], l) /\ sending[l] \in 1 .. Len(transfers)
    /\ \A u : u # sending[l] => Quiet(u)
    /\ \A m \in Links \ {l} :
          sending'[m] = sending[m] /\ upto'[m] = upto[m] /\ Quiet(sending[m])
    /\ sending'[l] = sending[l] /\ upto'[l] >= upto[l]

\* A packet of the transfer under way on link l is of no other transfer.
LEMMA PacketBus ==
    ASSUME BusInv, NEW l \in Links, NEW q, SentUpTo(l, q), NEW p \in Nat, p <= q,
           arrived' = arrived \/ arrived' = arrived \cup {<<sending[l], p>>},
           lost \subseteq lost'
    PROVE  OnAir(l)
<1>0. /\ upto' \in [Links -> Nat] /\ \A m \in Links \ {l} : upto'[m] = upto[m]
      /\ sending[l] # 0 /\ p <= upto'[l]
      /\ upto'[l] >= upto[l] /\ upto'[l] <= LastPacket(sending[l])
      /\ transfers' = transfers /\ sending' = sending
  BY DEF SentUpTo, BusInv, BusTypeOK
<1> USE <1>0
<1>1. BusTypeOK' /\ Grown
  BY DEF BusInv, BusTypeOK, Grown, Links, Keys
<1>2. \A m \in Links : sending[m] # 0 => SentOn(sending[m], m)
  BY DEF BusInv, SenderInv
<1>3. \A m \in Links \ {l} : sending[m] # sending[l]
  BY <1>2 DEF SentOn
<1>4. \A u : u # sending[l] => Quiet(u)
  BY DEF Quiet
<1>5. arrived' \subseteq (1 .. Len(transfers')) \X Nat
  BY <1>2 DEF BusInv, SentOn
<1>6. \A m \in Links : SenderInv(m)'
  <2> SUFFICES ASSUME NEW m \in Links, sending[m] # 0 PROVE SenderInv(m)'
    BY DEF Links, SenderInv
  <2>1. SentOn(sending[m], m)' /\ LastPacket(sending[m])' = LastPacket(sending[m])
    BY <1>2 DEF SentOn, LastPacket
  <2>2. \A a \in arrived : a[1] = sending[m] => a[2] <= upto[m] /\ a[2] \in Nat
    BY DEF BusInv, SenderInv
  <2>3. upto[m] \in Nat /\ upto'[m] \in Nat /\ upto'[m] >= upto[m]
    <3>1. upto[m] \in Nat /\ upto'[m] \in Nat
      BY DEF BusInv, BusTypeOK
    <3> QED BY <3>1
  <2>4. \A a \in arrived' : a[1] = sending[m] => a[2] <= upto'[m]
    <3>1. CASE m = l
      BY <3>1, <2>2, <2>3
    <3>2. CASE m # l
      BY <3>2, <2>2, <2>3, <1>3
    <3> QED BY <3>1, <3>2
  <2>5. upto'[m] <= LastPacket(sending[m])
    BY DEF BusInv, SenderInv
  <2> QED BY <2>1, <2>4, <2>5 DEF SenderInv
<1>7. BusStep
  BY <1>1, <1>5, <1>6 DEF BusStep, BusInv
<1>8. SentOn(sending[l], l) /\ sending[l] \in 1 .. Len(transfers)
  BY <1>2 DEF SentOn
<1> QED BY <1>3, <1>4, <1>7, <1>8 DEF OnAir

-----------------------------------------------------------------------------
(* The handlers again: what they keep of the payloads. *)

\* Every session and every message is sound.
Sessions ==
    /\ \A k \in Keys : TpInv(k)
    /\ \A i \in Ids : ChainInv(i)
    /\ \A m \in messages : MessageInv(m)

\* The inductive invariant, as the proofs take it apart.
Exact == Good /\ BusInv /\ Sessions /\ ProgressInv

\* A J1939 session that a step leaves alone keeps its invariant.
LEMMA TpInvStays ==
    ASSUME BusStep, NEW k, TpInv(k), tp'[k] = tp[k],
           sending'[k] \in {0, sending[k]} \/ <<sending'[k], 0>> \in lost'
    PROVE  TpInv(k)'
<1> PICK s : s = tp[k]
  OBVIOUS
<1>1. CASE s = NoSession
  BY <1>1 DEF TpInv
<1>2. CASE TpSound(k, s)
  <2>1. TpSound(k, s)'
    BY <1>2, TpSoundStays
  <2>2. TpSound(k, tp[k])'
    BY <2>1 DEF TpSound
  <2> QED BY <2>2 DEF TpInv
<1> QED BY <1>1, <1>2 DEF TpInv

\* The same of an ISO-TP session.
LEMMA ChainInvStays ==
    ASSUME BusStep, NEW i \in Ids, Good, ChainInv(i), isotp'[i] = isotp[i],
           \/ sending'[i] = sending[i] /\ upto'[i] >= upto[i]
           \/ <<sending'[i], 0>> \in lost' /\ sending'[i] \notin 1 .. Len(transfers)
    PROVE  ChainInv(i)'
<1> PICK s : s = isotp[i]
  OBVIOUS
<1>1. CASE s = NoChain
  BY <1>1 DEF ChainInv
<1>2. CASE ChainSound(i, s)
  <2>1. s.chunks \in Chunks
    BY DEF Good, ReceiverTypeOK, IsoTpSession
  <2>2. ChainSound(i, s)'
    BY <1>2, <2>1, ChainSoundStays
  <2>3. ChainSound(i, isotp[i])'
    BY <2>2 DEF ChainSound
  <2> QED BY <2>3 DEF ChainInv
<1> QED BY <1>1, <1>2 DEF ChainInv

\* Messages keep theirs, when those a step adds have it.
LEMMA MessagesStay ==
    ASSUME BusStep, Sessions, NEW N, messages' = messages \cup N, \A m \in N : MessageInv(m)'
    PROVE  \A m \in messages' : MessageInv(m)'
BY Stays DEF BusStep, BusInv, Sessions

\* A header that is lost changes no session.
LEMMA HeaderLostExact ==
    ASSUME Exact, NEW l \in Links, NEW size \in Nat, NEW count \in Nat,
           NEW t, Announced(l, size, count, t),
           arrived' = arrived, lost' = lost \cup {<<t, 0>>},
           UNCHANGED receiver
    PROVE  Exact'
<1>1. BusInv /\ Good /\ Good'
  BY GoodUnchanged DEF Exact
<1>2. Started(l, size, count, t)
  BY <1>1, AnnouncedBus
<1>3. /\ BusStep
      /\ t \notin 1 .. Len(transfers)
      /\ 1 .. Len(transfers') = (1 .. Len(transfers)) \cup {t}
      /\ sending'[l] = t
      /\ \A m \in Links \ {l} :
            sending'[m] = sending[m] /\ upto'[m] = upto[m] /\ Quiet(sending[m])
      /\ \A u \in 1 .. Len(transfers) : Quiet(u)
      /\ <<t, 0>> \notin arrived'
  BY <1>1, <1>2 DEF Started, BusInv
<1>4. /\ tp' = tp /\ isotp' = isotp /\ messages' = messages /\ flushed' = flushed
      /\ <<sending'[l], 0>> \in lost' /\ aborted' = aborted /\ upto'[l] = 0
  BY <1>2, <1>3 DEF receiver, Announced, Started
<1>5. upto \in [Links -> Nat]
  BY <1>1 DEF BusInv, BusTypeOK
<1>6. \A k \in Keys : TpInv(k)'
  <2> SUFFICES ASSUME NEW k \in Keys PROVE TpInv(k)'
    BY DEF Keys
  <2>1. TpInv(k) /\ k \in Links
    BY DEF Exact, Sessions, Links
  <2> QED BY <2>1, <1>3, <1>4, TpInvStays
<1>7. \A i \in Ids : ChainInv(i)'
  <2> SUFFICES ASSUME NEW i \in Ids PROVE ChainInv(i)'
    OBVIOUS
  <2>1. ChainInv(i) /\ i \in Links
    BY DEF Exact, Sessions, Links
  <2>2. i # l => upto'[i] >= upto[i]
    BY <2>1, <1>3, <1>5
  <2> QED BY <2>1, <2>2, <1>1, <1>3, <1>4, ChainInvStays
<1>8. Sessions'
  <2>1. \A m \in messages' : MessageInv(m)'
    BY <1>3, <1>4, Stays DEF Exact, Sessions, BusStep, BusInv
  <2> QED BY <1>6, <1>7, <2>1 DEF Sessions, Keys
<1>9. \A k \in Keys : TpFollows(k)'
  <2> SUFFICES ASSUME NEW k \in Keys PROVE TpFollows(k)'
    BY DEF Keys
  <2>1. TpFollows(k) /\ k \in Links
    BY DEF Exact, ProgressInv, Links
  <2>2. CASE k = l
    BY <2>2, <1>3 DEF TpFollows
  <2>3. CASE k # l
    BY <2>1, <2>3, <1>3, <1>4, <1>5, TpFollowsStays
  <2> QED BY <2>2, <2>3
<1>10. \A i \in Ids : ChainFollows(i)'
  <2> SUFFICES ASSUME NEW i \in Ids PROVE ChainFollows(i)'
    OBVIOUS
  <2>1. ChainFollows(i) /\ i \in Links
    BY DEF Exact, ProgressInv, Links
  <2>2. CASE i = l
    <3>1. upto'[i] = 0 /\ 0 \in 0 .. upto'[i]
      BY <2>2, <1>4
    <3> QED BY <2>2, <3>1, <1>3 DEF ChainFollows
  <2>3. CASE i # l
    BY <2>1, <2>3, <1>3, <1>4, <1>5, ChainFollowsStays
  <2> QED BY <2>2, <2>3
<1>11. ReceivedIsComplete'
  <2> SUFFICES ASSUME NEW u \in 1 .. Len(transfers') PROVE Told(u)'
    BY DEF ReceivedIsComplete, Told
  <2>1. CASE u = t
    BY <2>1, <1>3 DEF Told, Received
  <2>2. CASE u \in 1 .. Len(transfers)
    <3>1. Told(u)
      BY <2>2 DEF Exact, ProgressInv, ReceivedIsComplete, Told
    <3> QED BY <2>2, <3>1, <1>3, <1>4, ToldStays
  <2> QED BY <2>1, <2>2, <1>3
<1> QED BY <1>1, <1>3, <1>8, <1>9, <1>10, <1>11 DEF Exact, ProgressInv, BusStep, Keys

\* A step on link l leaves the sessions of all other links as they were.
LEMMA ElsewhereStays ==
    ASSUME Exact, BusStep, NEW l, aborted \subseteq aborted', flushed' = flushed,
           messages \subseteq messages',
           \A m \in Links \ {l} :
              sending'[m] = sending[m] /\ upto'[m] = upto[m] /\ Quiet(sending[m]),
           \A k \in Keys \ {l} : tp'[k] = tp[k],
           \A i \in Ids \ {l} : isotp'[i] = isotp[i]
    PROVE  /\ \A k \in Keys \ {l} : TpInv(k)' /\ TpFollows(k)'
           /\ \A i \in Ids \ {l} : ChainInv(i)' /\ ChainFollows(i)'
           /\ \A u \in 1 .. Len(transfers) : Quiet(u) => Told(u)'
<1>1. \A m \in Links : upto[m] \in Nat
  BY DEF BusStep, BusInv, BusTypeOK
<1>2. ASSUME NEW k \in Keys, k # l
      PROVE  TpInv(k)' /\ TpFollows(k)'
  <2>1. k \in Links /\ TpInv(k) /\ TpFollows(k)
    BY DEF Links, Exact, Sessions, ProgressInv
  <2>2. sending'[k] = sending[k] /\ Quiet(sending[k]) /\ tp'[k] = tp[k]
    BY <1>2, <2>1
  <2>3. TpInv(k)'
    BY <2>1, <2>2, TpInvStays
  <2> QED BY <2>1, <2>2, <2>3, TpFollowsStays
<1>3. ASSUME NEW i \in Ids, i # l
      PROVE  ChainInv(i)' /\ ChainFollows(i)'
  <2>1. i \in Links /\ ChainInv(i) /\ ChainFollows(i) /\ Good
    BY DEF Links, Exact, Sessions, ProgressInv
  <2>2. /\ sending'[i] = sending[i] /\ upto'[i] = upto[i] /\ upto'[i] >= upto[i]
        /\ Quiet(sending[i]) /\ isotp'[i] = isotp[i]
    BY <1>1, <1>3, <2>1
  <2>3. ChainInv(i)'
    BY <2>1, <2>2, ChainInvStays
  <2> QED BY <2>1, <2>2, <2>3, ChainFollowsStays
<1>4. ASSUME NEW u \in 1 .. Len(transfers), Quiet(u)
      PROVE  Told(u)'
  <2>1. Told(u)
    BY DEF Exact, ProgressInv, ReceivedIsComplete, Told
  <2> QED BY <1>4, <2>1, ToldStays
<1> QED BY <1>2, <1>3, <1>4

\* What the header of a J1939 session says of its packets.
LEMMA NoHeaderErrors ==
    ASSUME NEW size \in Nat, NEW count \in Nat, HeaderErrors(size, count) = {}
    PROVE  count = Packets(size) /\ count >= 1 /\ count * PacketBytes >= size
<1>1. size > 0 /\ count = Packets(size)
  <2>1. "invalid length" \notin HeaderErrors(size, count)
    OBVIOUS
  <2>2. size # 0
    BY <2>1 DEF HeaderErrors
  <2>3. "mismatch" \notin HeaderErrors(size, count)
    OBVIOUS
  <2>4. ~(size > 0 /\ count # Packets(size))
    BY <2>3 DEF HeaderErrors
  <2> QED BY <2>2, <2>4
<1>2. ~(0 * PacketBytes >= size)
  BY <1>1, BytesAssumption
<1>3. ~(0 >= Packets(size)) /\ Packets(size) \in Nat
  BY <1>2, PacketsLeast, PacketsType
<1>4. count * PacketBytes >= size
  BY <1>1, PacketsLeast
<1> QED BY <1>1, <1>3, <1>4

\* _start_session opens an empty session for the transfer of the header.
LEMMA StartSessionExact ==
    ASSUME Exact, Ticks, NEW k \in Keys, NEW size \in Nat, NEW count \in Nat,
           NEW t, Announced(k, size, count, t),
           StartSession(k[1], k[2], t, size, count),
           arrived' = arrived \cup {<<t, 0>>}, lost' = lost
    PROVE  Exact'
<1> DEFINE N == {TpMessage(k, r, FALSE, {"replaced"}) : r \in {q \in {tp[k]} : IsOpen(q)}}
<1> PICK s : s = [of |-> t, size |-> size, count |-> count, frames |-> {Number},
                  chunks |-> {}, errors |-> HeaderErrors(size, count)]
  OBVIOUS
<1>1. /\ tp' = [tp EXCEPT ![k] = s]
      /\ messages' = messages \cup N
      /\ isotp' = isotp /\ flushed' = flushed
  BY KeyOf DEF StartSession, Ticks
<1>2. Good /\ BusInv /\ t \in Nat /\ tp \in [Keys -> TpSession]
  <2>1. Good /\ BusInv /\ tp \in [Keys -> TpSession]
    BY DEF Exact, Good, ReceiverTypeOK
  <2>2. t \in Nat
    BY <2>1 DEF BusInv, BusTypeOK, Announced
  <2> QED BY <2>1, <2>2
<1>3. Good'
  BY <1>2, StartSessionGood
<1>4. k \in Links /\ k \notin Ids
  BY LinksAssumption DEF Links
<1>5. Started(k, size, count, t)
  BY <1>2, <1>4, AnnouncedBus
<1>6. /\ BusStep /\ SentOn(t, k)'
      /\ 1 .. Len(transfers') = (1 .. Len(transfers)) \cup {t}
      /\ transfers'[t] = [link |-> k, size |-> size, count |-> count]
      /\ sending'[k] = t
      /\ \A a \in arrived' : a[1] = t => a = <<t, 0>>
  BY <1>5 DEF Started
<1>7. /\ \A m \in Links \ {k} :
            sending'[m] = sending[m] /\ upto'[m] = upto[m] /\ Quiet(sending[m])
      /\ \A u \in 1 .. Len(transfers) : Quiet(u)
      /\ aborted \subseteq aborted' /\ messages \subseteq messages'
  BY <1>1, <1>5 DEF Started, Announced
<1> HIDE DEF N
<1>8. /\ \A j \in Keys \ {k} : TpInv(j)' /\ TpFollows(j)'
      /\ \A i \in Ids : ChainInv(i)' /\ ChainFollows(i)'
      /\ \A u \in 1 .. Len(transfers) : Told(u)'
  <2>1. \A j \in Keys \ {k} : tp'[j] = tp[j]
    BY <1>1, <1>2
  <2>2. \A i \in Ids : i # k /\ isotp'[i] = isotp[i]
    BY <1>1, <1>4
  <2> QED BY SMTT(30), <2>1, <2>2, <1>1, <1>6, <1>7, ElsewhereStays
<1>9. tp'[k] = s
  BY <1>1, <1>2
<1>10. TpInv(k)'
  <2>1. TpSound(k, s)'
    BY <1>6 DEF TpSound, FedBy
  <2> QED BY <2>1, <1>9 DEF TpInv, TpSound
<1>11. \A m \in N : MessageInv(m)'
  <2> SUFFICES ASSUME NEW m \in N PROVE MessageInv(m)'
    OBVIOUS
  <2>1. m = TpMessage(k, tp[k], FALSE, {"replaced"}) /\ IsOpen(tp[k])
    BY DEF N
  <2>2. TpSound(k, tp[k])
    BY <2>1 DEF Exact, Sessions, TpInv, NoSession, IsOpen
  <2>3. tp[k].count \in Nat /\ tp[k].size \in Nat /\ tp[k].chunks \in Chunks
    BY <1>2 DEF TpSession
  <2>4. MessageInv(m)
    BY <2>1, <2>2, <2>3, <1>2, TpMessageExact DEF BusInv
  <2> QED BY <2>4, <1>6, Stays DEF BusStep, BusInv
<1>12. \A m \in messages' : MessageInv(m)'
  BY <1>1, <1>6, <1>11, MessagesStay DEF Exact
<1>13. WellFormed(t)' => HeaderErrors(size, count) = {}
  BY <1>4, <1>6 DEF WellFormed
<1>14. TpFollows(k)'
  <2> SUFFICES ASSUME WellFormed(t)'
               PROVE  /\ IsOpen(s) /\ s.of = t /\ s.errors \cap Invalid = {}
                      /\ s.chunks = {<<p, p, t>> : p \in {q \in 1 .. LastPacket(t)' : <<t, q>> \in arrived'}}
    <3>1. /\ WellFormed(sending[k])' <=> WellFormed(t)'
          /\ LastPacket(sending[k])' = LastPacket(t)'
      <4>1. sending'[k] = t
        BY <1>6
      <4> QED BY <4>1 DEF WellFormed, LastPacket
    <3>2. sending'[k] = t
      BY <1>6
    <3> QED BY <3>1, <3>2, <1>9 DEF TpFollows, IsOpen
  <2>1. \A q \in 1 .. LastPacket(t)' : <<t, q>> \notin arrived'
    BY <1>6
  <2> QED BY <2>1, <1>13 DEF IsOpen
<1>15. Told(t)'
  <2> SUFFICES ASSUME Received(t)', WellFormed(t)' PROVE FALSE
    BY DEF Told
  <2>1. Packets(size) >= 1 /\ Packets(size) \in Nat
    BY <1>13, NoHeaderErrors
  <2>2. 1 \in 1 .. Packets(size)
    BY <2>1
  <2>3. Whole(t)' = {<<p, p, t>> : p \in 1 .. Packets(size)}
    BY <1>4, <1>6 DEF Whole, Packets
  <2>4. <<1, 1, t>> \in Whole(t)'
    BY <2>2, <2>3
  <2>5. <<t, 1>> \in arrived'
    BY <2>4 DEF Received
  <2> QED BY <2>5, <1>6
<1>16. Sessions'
  BY <1>8, <1>10, <1>12 DEF Sessions, Keys
<1>17. ProgressInv'
  BY <1>8, <1>14, <1>15, <1>6 DEF ProgressInv, ReceivedIsComplete, Told, Keys
<1> QED BY <1>3, <1>6, <1>16, <1>17 DEF Exact, BusStep

\* A message of a session that ended early says nothing of a payload.
LEMMA ChainCutExact ==
    ASSUME NEW i, NEW s, ChainSound(i, s), NEW r, r.chunks = s.chunks, NEW e
    PROVE  MessageInv(Chain(i, r, FALSE, e))
BY DEF MessageInv, Chain, Message, ChainSound, Fits

\* _first_frame opens a session with the first part of the payload.
LEMMA FeedFirstExact ==
    ASSUME Exact, Ticks, NEW i \in Ids, NEW size \in Nat,
           NEW t, Announced(i, size, 0, t),
           FeedFirst(i, t, size),
           arrived' = arrived \cup {<<t, 0>>}, lost' = lost
    PROVE  Exact'
<1> DEFINE A == {Chain(i, r, FALSE, {"replaced"}) : r \in {q \in {isotp[i]} : IsOpen(q)}}
<1> PICK s : s = [of |-> t, size |-> size, frames |-> {Number},
                  chunks |-> {<<0, 0, t>>}, expected |-> 1 % Modulus]
  OBVIOUS
<1> PICK whole : whole = (ChainBytes(s) >= size)
  OBVIOUS
<1> PICK m0 : m0 = Chain(i, s, TRUE, {})
  OBVIOUS
<1>1. /\ isotp' = [isotp EXCEPT ![i] = IF whole THEN NoChain ELSE s]
      /\ messages' = messages \cup A \cup {m \in {m0} : whole}
      /\ tp' = tp /\ flushed' = flushed
  BY DEF FeedFirst, Ticks
<1>2. Good /\ BusInv /\ t \in Nat /\ isotp \in [Ids -> IsoTpSession]
  <2>1. Good /\ BusInv /\ isotp \in [Ids -> IsoTpSession]
    BY DEF Exact, Good, ReceiverTypeOK
  <2>2. t \in Nat
    BY <2>1 DEF BusInv, BusTypeOK, Announced
  <2> QED BY <2>1, <2>2
<1>3. Good'
  BY <1>2, FeedFirstGood
<1>4. i \in Links /\ i \notin Keys
  BY LinksAssumption DEF Links
<1>5. Started(i, size, 0, t)
  BY <1>2, <1>4, AnnouncedBus
<1>6. /\ BusStep /\ SentOn(t, i)'
      /\ 1 .. Len(transfers') = (1 .. Len(transfers)) \cup {t}
      /\ transfers'[t] = [link |-> i, size |-> size, count |-> 0]
      /\ sending'[i] = t /\ upto'[i] = 0
      /\ \A a \in arrived' : a[1] = t => a = <<t, 0>>
  BY <1>5 DEF Started
<1>7. /\ \A m \in Links \ {i} :
            sending'[m] = sending[m] /\ upto'[m] = upto[m] /\ Quiet(sending[m])
      /\ \A u \in 1 .. Len(transfers) : Quiet(u)
      /\ aborted \subseteq aborted' /\ messages \subseteq messages'
  BY <1>1, <1>5 DEF Started, Announced
<1> HIDE DEF A
<1>8. /\ \A k \in Keys : TpInv(k)' /\ TpFollows(k)'
      /\ \A j \in Ids \ {i} : ChainInv(j)' /\ ChainFollows(j)'
      /\ \A u \in 1 .. Len(transfers) : Told(u)'
  <2>1. \A j \in Ids \ {i} : isotp'[j] = isotp[j]
    BY <1>1, <1>2
  <2>2. \A k \in Keys : k # i /\ tp'[k] = tp[k]
    BY <1>1, <1>4
  <2> QED BY <2>1, <2>2, <1>1, <1>6, <1>7, ElsewhereStays
<1>9. isotp'[i] = IF whole THEN NoChain ELSE s
  BY <1>1, <1>2
<1>10. PICK c0 : s.chunks = {c0} /\ c0 = <<0, 0, t>> /\ Cardinality(s.chunks) = 1
  BY FS_Singleton
<1>11. /\ LastPacket(t)' = Consecutive(size) /\ Consecutive(size) \in Nat
       /\ Whole(t)' = {<<p, p, t>> : p \in 0 .. Consecutive(size)}
  BY <1>6, PacketsType DEF LastPacket, Whole, Consecutive, Packets
<1>12. whole <=> Consecutive(size) = 0
  <2>1. FirstBytes + 0 * PacketBytes >= size <=> 0 >= Consecutive(size)
    BY ConsecutiveLeast
  <2>2. Cardinality(s.chunks) - 1 = 0
    BY <1>10
  <2>3. ChainBytes(s) = FirstBytes + 0 * PacketBytes
    <3> PICK n : n = Cardinality(s.chunks) - 1
      OBVIOUS
    <3>1. ChainBytes(s) = FirstBytes + n * PacketBytes
      BY DEF ChainBytes
    <3> QED BY <2>2, <3>1
  <2>4. 0 >= Consecutive(size) <=> Consecutive(size) = 0
    BY <1>11
  <2>5. ChainBytes(s) >= size <=> Consecutive(size) = 0
    BY <2>1, <2>3, <2>4
  <2> QED BY <2>5
<1>13. whole => m0.payload = Whole(t)'
  <2> SUFFICES ASSUME whole PROVE m0.payload = Whole(t)'
    OBVIOUS
  <2>1. m0.payload = {<<0, 0, t>>}
    BY DEF Chain, Message
  <2>2. 0 .. Consecutive(size) = {0}
    BY <1>12
  <2> QED BY <1>11, <2>1, <2>2
<1>14. ChainInv(i)'
  <2>1. CASE whole
    BY <2>1, <1>9 DEF ChainInv
  <2>2. CASE ~whole
    <3>1. {c[1] : c \in s.chunks} = 0 .. Cardinality(s.chunks) - 1
      <4>1. Cardinality(s.chunks) - 1 = 0
        BY <1>10
      <4>2. 0 .. 0 = {0}
        OBVIOUS
      <4>3. {c[1] : c \in s.chunks} = {0}
        OBVIOUS
      <4> QED BY <4>1, <4>2, <4>3
    <3>2. FedBy(s.of, i)'
      BY <1>6 DEF FedBy
    <3>3. \A c \in s.chunks : Fits(c, s.of, i)'
      BY <1>6 DEF Fits
    <3>4. \A c \in s.chunks : c[2] >= c[1] /\ c[2] + (Cardinality(s.chunks) - 1) <= c[1] + upto'[i]
      BY <1>6, <1>10
    <3>5. s.size = transfers'[s.of].size
      BY <1>6
    <3>6. ChainSound(i, s)'
      BY <3>1, <3>2, <3>3, <3>4, <3>5 DEF ChainSound
    <3> QED BY <3>6, <2>2, <1>9 DEF ChainInv, ChainSound
  <2> QED BY <2>1, <2>2
<1>15. \A m \in A : MessageInv(m)'
  <2> SUFFICES ASSUME NEW m \in A PROVE MessageInv(m)'
    OBVIOUS
  <2>1. m = Chain(i, isotp[i], FALSE, {"replaced"}) /\ IsOpen(isotp[i])
    BY DEF A
  <2>2. ChainSound(i, isotp[i])
    BY <2>1 DEF Exact, Sessions, ChainInv, NoChain, IsOpen
  <2>3. MessageInv(m)
    BY <2>1, <2>2, ChainCutExact
  <2> QED BY <2>3, <1>6, Stays DEF BusStep, BusInv
<1>16. whole => MessageInv(m0)'
  <2> SUFFICES ASSUME whole PROVE MessageInv(m0)'
    OBVIOUS
  <2>1. m0.link = i /\ m0.of = t /\ m0.payload = {<<0, 0, t>>}
    BY DEF Chain, Message
  <2>2. \A c \in m0.payload : c[3] = t
    <3> SUFFICES ASSUME NEW c \in m0.payload PROVE c[3] = t
      OBVIOUS
    <3>1. c = <<0, 0, t>>
      BY <2>1
    <3> QED BY <3>1
  <2>3. \A c \in m0.payload : SentOn(c[3], m0.link)'
    BY <2>1, <2>2, <1>6
  <2> QED BY <2>1, <2>3, <1>13 DEF MessageInv
<1>17. \A m \in messages' : MessageInv(m)'
  <2>1. \A m \in A \cup {m \in {m0} : whole} : MessageInv(m)'
    BY <1>15, <1>16
  <2>2. messages' = messages \cup (A \cup {m \in {m0} : whole})
    BY <1>1
  <2> HIDE DEF A
  <2> QED BY ZenonT(40), <2>1, <2>2, <1>6, MessagesStay DEF Exact
<1>18. ChainFollows(i)'
  <2>1. sending'[i] = t /\ upto'[i] = 0 /\ LastPacket(sending[i])' = Consecutive(size)
    <3>1. sending'[i] = t
      BY <1>6
    <3> QED BY <3>1, <1>6, <1>11 DEF LastPacket
  <2> SUFFICES ASSUME 0 < Consecutive(size)
               PROVE  /\ IsOpen(s) /\ s.of = t /\ s.expected = (0 + 1) % Modulus
                      /\ s.chunks = {<<p, p, t>> : p \in 0 .. 0}
    <3>1. 0 < Consecutive(size) => isotp'[i] = s
      BY <1>9, <1>11, <1>12
    <3> QED BY <2>1, <3>1 DEF ChainFollows, IsOpen
  <2>2. 0 .. 0 = {0}
    OBVIOUS
  <2> QED BY <2>2 DEF IsOpen
<1>19. Told(t)'
  <2> SUFFICES ASSUME Received(t)'
               PROVE  \E m \in messages' : m.of = t /\ m.complete /\ m.payload = Whole(t)'
    BY DEF Told
  <2>1. Consecutive(size) = 0
    <3> SUFFICES ASSUME Consecutive(size) # 0 PROVE FALSE
      OBVIOUS
    <3>1. 1 \in 0 .. Consecutive(size)
      BY <1>11
    <3>2. <<1, 1, t>> \in Whole(t)'
      BY <3>1, <1>11
    <3>3. <<t, 1>> \in arrived'
      BY <3>2 DEF Received
    <3> QED BY <3>3, <1>6
  <2>2. m0 \in messages' /\ m0.of = t /\ m0.complete
    BY <2>1, <1>1, <1>12 DEF Chain, Message
  <2> QED BY <2>1, <2>2, <1>12, <1>13
<1>20. Sessions'
  BY <1>8, <1>14, <1>17 DEF Sessions, Keys
<1>21. ProgressInv'
  BY <1>8, <1>18, <1>19, <1>6 DEF ProgressInv, ReceivedIsComplete, Told, Keys
<1> QED BY <1>3, <1>6, <1>20, <1>21 DEF Exact, BusStep

\* A packet that is lost changes no session; an ISO-TP session will notice.
LEMMA PacketLostExact ==
    ASSUME Exact, NEW l \in Links, NEW q, SentUpTo(l, q), l \in Ids => q > upto[l],
           arrived' = arrived, lost \subseteq lost', UNCHANGED receiver
    PROVE  Exact'
<1>1. BusInv /\ Good /\ Good'
  BY GoodUnchanged DEF Exact
<1>2. OnAir(l)
  <2>1. 0 \in Nat /\ 0 <= q
    BY DEF SentUpTo
  <2> QED BY <1>1, <2>1, PacketBus
<1>3. /\ tp' = tp /\ isotp' = isotp /\ messages' = messages /\ flushed' = flushed
      /\ aborted' = aborted /\ transfers' = transfers
  BY DEF receiver, SentUpTo
<1>4. \A u : Quiet(u)
  BY DEF Quiet
<1>5. /\ \A k \in Keys \ {l} : TpInv(k)' /\ TpFollows(k)'
      /\ \A i \in Ids \ {l} : ChainInv(i)' /\ ChainFollows(i)'
      /\ \A u \in 1 .. Len(transfers) : Told(u)'
  BY <1>2, <1>3, <1>4, ElsewhereStays DEF OnAir
<1>6. l \in Keys => TpInv(l)' /\ TpFollows(l)'
  <2> SUFFICES ASSUME l \in Keys PROVE TpInv(l)' /\ TpFollows(l)'
    OBVIOUS
  <2>1. TpInv(l) /\ TpFollows(l)
    BY DEF Exact, Sessions, ProgressInv
  <2>2. TpInv(l)'
    BY <2>1, <1>2, <1>3, TpInvStays DEF OnAir
  <2> QED BY <2>1, <2>2, <1>2, <1>3, <1>4, TpFollowsStays DEF OnAir
<1>7. l \in Ids => ChainInv(l)' /\ ChainFollows(l)'
  <2> SUFFICES ASSUME l \in Ids PROVE ChainInv(l)' /\ ChainFollows(l)'
    OBVIOUS
  <2>1. ChainInv(l)
    BY DEF Exact, Sessions
  <2>2. ChainInv(l)'
    BY <2>1, <1>1, <1>2, <1>3, ChainInvStays DEF OnAir
  <2>3. upto[l] \in Nat /\ upto'[l] = q /\ q \in 0 .. q /\ q > upto[l]
    BY <1>1 DEF SentUpTo, BusInv, BusTypeOK
  <2>4. <<sending[l], q>> \notin arrived'
    <3>1. \A a \in arrived : a[1] = sending[l] => a[2] <= upto[l]
      BY <1>1 DEF BusInv, SenderInv, SentUpTo
    <3> QED BY <3>1, <2>3
  <2> QED BY <2>2, <2>3, <2>4, <1>2 DEF ChainFollows, OnAir
<1>8. \A m \in messages' : MessageInv(m)'
  BY <1>2, <1>3, Stays DEF Exact, Sessions, OnAir, BusStep, BusInv
<1>9. Sessions'
  BY <1>5, <1>6, <1>7, <1>8 DEF Sessions, Keys
<1>10. ProgressInv'
  BY <1>3, <1>5, <1>6, <1>7 DEF ProgressInv, ReceivedIsComplete, Told, Keys
<1> QED BY <1>1, <1>2, <1>9, <1>10 DEF Exact, OnAir, BusStep

\* The places and the packets of chunks that are in their places.
InPlace(S, t) == {<<n, n, t>> : n \in S}

\* The two numbers of such a chunk are one.
LEMMA InPlaceParts ==
    ASSUME NEW S, NEW t
    PROVE  /\ \A c \in InPlace(S, t) : c[1] \in S /\ c[2] \in S
           /\ \A n \in S : \E c \in InPlace(S, t) : c[1] = n /\ c[2] = n
<1> PICK C : C = InPlace(S, t)
  OBVIOUS
<1>1. \A c \in C : \E n \in S : c = <<n, n, t>>
  BY DEF InPlace
<1>2. \A c \in C : c[1] \in S /\ c[2] \in S
  <2> SUFFICES ASSUME NEW c \in C PROVE c[1] \in S /\ c[2] \in S
    OBVIOUS
  <2>1. PICK n \in S : c = <<n, n, t>>
    BY <1>1
  <2> QED BY <2>1
<1>3. \A n \in S : \E c \in C : c[1] = n /\ c[2] = n
  <2> SUFFICES ASSUME NEW n \in S PROVE \E c \in C : c[1] = n /\ c[2] = n
    OBVIOUS
  <2>1. <<n, n, t>> \in C
    BY DEF InPlace
  <2> QED BY <2>1
<1> QED BY <1>2, <1>3

\* Chunks that are in their places have the numbers of their set.
LEMMA NumbersOf ==
    ASSUME NEW t, NEW R, NEW C, C = InPlace(R, t)
    PROVE  {c[1] : c \in C} = R
<1>1. /\ \A c \in C : c[1] \in R
      /\ \A r \in R : \E c \in C : c[1] = r
  BY InPlaceParts
<1> QED BY <1>1

\* _feed_dt stores a packet, and returns the message of a session it completes.
LEMMA FeedDtExact ==
    ASSUME Exact, Ticks, NEW k \in Keys, NEW q, SentUpTo(k, q), NEW p \in 1 .. q,
           FeedDt(k[1], k[2], p, sending[k]),
           arrived' = arrived \cup {<<sending[k], p>>}, lost' = lost
    PROVE  Exact'
<1> PICK t : t = sending[k]
  OBVIOUS
<1> PICK s : s = Stored(tp[k], p, t)
  OBVIOUS
<1> DEFINE open == IsOpen(tp[k])
           full == AllPresent(s)
<1> PICK m0 : m0 = TpMessage(k, s, TpComplete(s), {})
  OBVIOUS
<1>1. /\ Good /\ BusInv /\ tp \in [Keys -> TpSession] /\ k \in Links /\ k \notin Ids
      /\ p \in Nat /\ p >= 1 /\ p <= q /\ q \in Nat
  BY LinksAssumption DEF Exact, Good, ReceiverTypeOK, Links, SentUpTo
<1>2. OnAir(k)
  BY <1>1, PacketBus
<1>3. /\ BusStep /\ SentOn(t, k) /\ t \in 1 .. Len(transfers)
      /\ sending'[k] = t /\ aborted' = aborted /\ transfers' = transfers
      /\ t \in Nat
  <2>1. t \in 1 .. Len(transfers) /\ Len(transfers) \in Nat
    BY <1>1, <1>2 DEF OnAir, BusInv, BusTypeOK
  <2> QED BY <2>1, <1>2 DEF OnAir, SentUpTo
<1>4. Good'
  BY <1>1, <1>3, FeedDtGood
<1>5. /\ isotp' = isotp /\ flushed' = flushed /\ messages \subseteq messages'
      /\ \A j \in Keys \ {k} : tp'[j] = tp[j]
  BY <1>1, KeyOf DEF FeedDt, Ticks
<1>6. /\ ~open => messages' = messages \cup {Orphan(k)} /\ tp'[k] = tp[k]
      /\ open /\ ~full => messages' = messages /\ tp'[k] = s
      /\ open /\ full => messages' = messages \cup {m0} /\ tp'[k] = NoSession
  BY <1>1, KeyOf DEF FeedDt
<1>7. /\ \A j \in Keys \ {k} : TpInv(j)' /\ TpFollows(j)'
      /\ \A i \in Ids : ChainInv(i)' /\ ChainFollows(i)'
      /\ \A u \in 1 .. Len(transfers) : u # t => Told(u)'
  <2>1. \A i \in Ids : i # k /\ isotp'[i] = isotp[i]
    BY <1>1, <1>5
  <2> QED BY <2>1, <1>2, <1>3, <1>5, ElsewhereStays DEF OnAir
<1>8. open => TpSound(k, tp[k])
  BY DEF Exact, Sessions, TpInv, NoSession, IsOpen
<1>9. tp[k].count \in Nat /\ tp[k].size \in Nat /\ tp[k].chunks \in Chunks
  BY <1>1 DEF TpSession
<1>10. s.count = tp[k].count /\ s.size = tp[k].size /\ s.of = tp[k].of /\ s.chunks \in Chunks
  <2>1. <<p, p, t>> \in Nat \X Nat \X Nat
    BY <1>1, <1>3
  <2> QED BY <2>1, <1>9, ChunksGrow DEF Stored
<1>11. open => TpSound(k, s)
  BY <1>3, <1>8, StoredSound
<1>12. open => TpSound(k, s)'
  BY <1>3, <1>11, TpSoundStays
<1>13. TpInv(k)'
  <2>1. CASE ~open
    BY <2>1, <1>3, <1>6, TpInvStays DEF Exact, Sessions
  <2>2. CASE open /\ ~full
    BY <2>2, <1>6, <1>12 DEF TpInv, TpSound
  <2>3. CASE open /\ full
    BY <2>3, <1>6 DEF TpInv
  <2> QED BY <2>1, <2>2, <2>3
<1>14. open /\ full => MessageInv(m0)
  BY <1>1, <1>9, <1>10, <1>11, TpMessageExact DEF BusInv
<1>15. MessageInv(Orphan(k))
  BY DEF MessageInv, Orphan, Message
<1>16. \A m \in messages' : MessageInv(m)'
  <2>1. \A m \in messages' : MessageInv(m)
    BY <1>6, <1>14, <1>15 DEF Exact, Sessions
  <2> QED BY <2>1, <1>3, Stays DEF BusStep, BusInv
\* While the transfer is not received, its session holds what arrived of it.
<1>17. ASSUME ~flushed, <<t, 0>> \in arrived, WellFormed(t), t \notin aborted, ~Received(t)
       PROVE  /\ open /\ s.of = t /\ s.errors \cap Invalid = {}
              /\ s.chunks = {<<n, n, t>> : n \in {r \in 1 .. LastPacket(t) : <<t, r>> \in arrived'}}
              /\ s.count = LastPacket(t) /\ LastPacket(t) = Packets(s.size)
              /\ s.count * PacketBytes >= s.size
              /\ Whole(t) = {<<n, n, t>> : n \in 1 .. LastPacket(t)}
  <2>1. /\ open /\ tp[k].of = t /\ tp[k].errors \cap Invalid = {} /\ t # 0
        /\ tp[k].chunks = {<<n, n, t>> : n \in {r \in 1 .. LastPacket(t) : <<t, r>> \in arrived}}
    BY <1>3, <1>17 DEF Exact, ProgressInv, TpFollows
  <2>2. tp[k].size = transfers[t].size /\ tp[k].count = transfers[t].count /\ transfers[t].link = k
    BY <2>1, <1>8, <1>3 DEF TpSound, SentOn
  <2>3. HeaderErrors(tp[k].size, tp[k].count) = {}
    BY <2>2, <1>1, <1>17 DEF WellFormed
  <2>4. /\ tp[k].count = Packets(tp[k].size) /\ tp[k].count * PacketBytes >= tp[k].size
    BY <2>3, <1>9, NoHeaderErrors
  <2>5. LastPacket(t) = Packets(tp[k].size)
    BY <2>2, <1>1 DEF LastPacket
  <2>6. p \in 1 .. LastPacket(t) /\ p \in 1 .. tp[k].count
    <3>1. LastPacket(t) \in Nat /\ q <= LastPacket(t)
      BY <1>1, <1>3, LastPacketType DEF SentUpTo, BusInv
    <3> QED BY <3>1, <1>1, <2>4, <2>5
  <2>7. s.errors \cap Invalid = {}
    BY <2>1, <2>6 DEF Stored, Invalid
  <2>8. s.chunks = tp[k].chunks \cup {<<p, p, t>>}
    <3>1. ASSUME NEW c \in tp[k].chunks, c[1] = p
          PROVE  <<p, p, t>> \in tp[k].chunks
      BY <2>1, <3>1
    <3> QED BY <3>1, <2>6 DEF Stored
  <2>9. s.chunks = {<<n, n, t>> : n \in {r \in 1 .. LastPacket(t) : <<t, r>> \in arrived'}}
    <3>1. \A n : <<t, n>> \in arrived' <=> <<t, n>> \in arrived \/ n = p
      OBVIOUS
    <3>2. {r \in 1 .. LastPacket(t) : <<t, r>> \in arrived'}
             = {r \in 1 .. LastPacket(t) : <<t, r>> \in arrived} \cup {p}
      BY <3>1, <2>6
    <3> QED BY <3>2, <2>1, <2>8
  <2>10. Whole(t) = {<<n, n, t>> : n \in 1 .. LastPacket(t)}
    BY <2>2, <2>5, <1>1 DEF Whole
  <2> QED BY <2>1, <2>4, <2>5, <2>7, <2>9, <2>10, <1>10
<1>18. Whole(t)' = Whole(t) /\ LastPacket(t)' = LastPacket(t) /\ (WellFormed(t)' <=> WellFormed(t))
  BY <1>3, Stays DEF BusStep, BusInv
<1>19. Received(t) => Received(t)'
  BY <1>18 DEF Received
<1>20. <<t, 0>> \in arrived' => <<t, 0>> \in arrived
  BY <1>1
\* A full session is a received transfer.
<1>21. ASSUME ~flushed, <<t, 0>> \in arrived, WellFormed(t), t \notin aborted, ~Received(t)
       PROVE  full <=> Received(t)'
  <2>1. /\ s.chunks = {<<n, n, t>> : n \in {r \in 1 .. LastPacket(t) : <<t, r>> \in arrived'}}
        /\ s.count = LastPacket(t)
        /\ Whole(t)' = {<<n, n, t>> : n \in 1 .. LastPacket(t)}
    BY <1>17, <1>18, <1>21
  <2>2. PICK R : R = {r \in 1 .. LastPacket(t) : <<t, r>> \in arrived'}
    OBVIOUS
  <2>3. {c[1] : c \in s.chunks} = R
    <3>1. s.chunks = InPlace(R, t)
      BY <2>1, <2>2 DEF InPlace
    <3> QED BY <3>1, NumbersOf
  <2>4. full <=> \A n \in 1 .. LastPacket(t) : <<t, n>> \in arrived'
    BY <2>1, <2>2, <2>3 DEF AllPresent
  <2>5. Received(t)' <=> \A n \in 1 .. LastPacket(t) : <<t, n>> \in arrived'
    <3>1. PICK W : W = Whole(t)'
      OBVIOUS
    <3>2. PICK N : N = 1 .. LastPacket(t)
      OBVIOUS
    <3>3. W = InPlace(N, t)
      BY <2>1, <3>1, <3>2 DEF InPlace
    <3>4. /\ \A c \in W : c[2] \in N
          /\ \A n \in N : \E c \in W : c[2] = n
      BY <3>3, InPlaceParts
    <3>5. Received(t)' <=> \A c \in W : <<t, c[2]>> \in arrived'
      BY <3>1, <1>21 DEF Received
    <3> QED BY <3>2, <3>4, <3>5
  <2> QED BY <2>4, <2>5
<1>22. TpFollows(k)'
  <2> SUFFICES ASSUME ~flushed, <<t, 0>> \in arrived, WellFormed(t), t \notin aborted, ~Received(t)'
               PROVE  /\ IsOpen(tp'[k]) /\ tp'[k].of = t /\ tp'[k].errors \cap Invalid = {}
                      /\ tp'[k].chunks =
                            {<<n, n, t>> : n \in {r \in 1 .. LastPacket(t) : <<t, r>> \in arrived'}}
    <3>1. /\ (WellFormed(sending[k])' <=> WellFormed(t)') /\ (Received(sending[k])' <=> Received(t)')
          /\ LastPacket(sending[k])' = LastPacket(t)'
      BY <1>3 DEF WellFormed, Received, LastPacket, Whole
    <3> QED BY <3>1, <1>3, <1>5, <1>18, <1>20 DEF TpFollows, IsOpen
  <2>1. ~Received(t)
    BY <1>19
  <2>2. open /\ ~full
    BY <2>1, <1>17, <1>21
  <2>3. tp'[k] = s /\ IsOpen(s)
    BY <2>2, <1>6 DEF IsOpen, Stored
  <2> QED BY <2>1, <2>3, <1>17
<1>23. Told(t)'
  <2>1. CASE Received(t)
    <3>1. Told(t)
      BY <1>3 DEF Exact, ProgressInv, ReceivedIsComplete, Told
    <3> QED BY <2>1, <3>1, <1>3, <1>5, <1>18 DEF Told
  <2>2. CASE ~Received(t)
    <3> SUFFICES ASSUME Received(t)', WellFormed(t), t \notin aborted
                 PROVE  \E m \in messages' : m.of = t /\ m.complete /\ m.payload = Whole(t)
      BY <1>3, <1>18 DEF Told
    <3>1. <<t, 0>> \in arrived /\ ~flushed
      BY <1>20 DEF Received, Ticks
    <3>2. /\ open /\ s.of = t /\ s.errors \cap Invalid = {}
          /\ s.count = LastPacket(t) /\ LastPacket(t) = Packets(s.size)
          /\ s.count * PacketBytes >= s.size
          /\ Whole(t) = {<<n, n, t>> : n \in 1 .. LastPacket(t)}
      BY <2>2, <3>1, <1>17
    <3>3. s.chunks = {<<n, n, t>> : n \in {r \in 1 .. LastPacket(t) : <<t, r>> \in arrived'}}
      BY <2>2, <3>1, <1>17
    <3>4. full
      BY <2>2, <3>1, <1>21
    <3>5. s.chunks = Whole(t)
      <4>1. PICK N : N = 1 .. LastPacket(t)
        OBVIOUS
      <4>2. Whole(t) = InPlace(N, t)
        BY <3>2, <4>1 DEF InPlace
      <4>3. \A n \in 1 .. LastPacket(t) : <<t, n>> \in arrived'
        <5>1. \A c \in Whole(t) : <<t, c[2]>> \in arrived'
          BY <1>18 DEF Received
        <5>2. \A n \in N : \E c \in Whole(t) : c[2] = n
          BY <4>2, InPlaceParts
        <5> QED BY <4>1, <5>1, <5>2
      <4> QED BY <3>2, <3>3, <4>3
    <3>6. Joined(s) = s.chunks
      <4>1. Joined(s) = {c \in s.chunks : c[1] <= Packets(s.size)}
        BY <3>2, <3>4, <1>9, <1>10, <1>11, JoinedIsCut
      <4>2. \A c \in s.chunks : c[1] \in 1 .. s.count
        BY <3>2, <1>11 DEF TpSound
      <4>3. s.count \in Nat /\ s.count = Packets(s.size)
        BY <3>2, <1>9, <1>10
      <4> QED BY <4>1, <4>2, <4>3
    <3>7. m0 \in messages' /\ m0.of = t /\ m0.payload = Joined(s) /\ m0.complete = TpComplete(s)
      BY <3>2, <3>4, <1>6 DEF TpMessage, Message
    <3>8. TpComplete(s)
      BY <3>2 DEF TpComplete
    <3> QED BY <3>5, <3>6, <3>7, <3>8
  <2> QED BY <2>1, <2>2
<1>24. Sessions'
  BY <1>7, <1>13, <1>16 DEF Sessions, Keys
<1>25. ProgressInv'
  BY <1>3, <1>7, <1>22, <1>23 DEF ProgressInv, ReceivedIsComplete, Told, Keys
<1> QED BY <1>3, <1>4, <1>24, <1>25 DEF Exact, BusStep

\* _consecutive_frame extends a session, ends it with an error, or completes it.
LEMMA FeedConsecutiveExact ==
    ASSUME Exact, Ticks, NEW i \in Ids, NEW p, p = upto[i] + 1, SentUpTo(i, p),
           FeedConsecutive(i, p, sending[i]),
           arrived' = arrived \cup {<<sending[i], p>>}, lost' = lost
    PROVE  Exact'
<1>1. PICK t, s0 : t = sending[i] /\ s0 = isotp[i]
  OBVIOUS
<1>2. PICK s : s = Extended(s0, p, t)
  OBVIOUS
<1>3. PICK m0, m1 : /\ m0 = Chain(i, [s0 EXCEPT !.frames = @ \cup {Number}], FALSE, {"mismatch"})
                    /\ m1 = Chain(i, s, TRUE, {})
  OBVIOUS
<1> DEFINE open == IsOpen(s0)
           next == p % Modulus = s0.expected
           big == ChainBytes(s) >= s.size
<1>4. /\ Good /\ BusInv /\ s0 \in IsoTpSession /\ i \in Links /\ i \notin Keys
      /\ p \in Nat /\ p >= 1 /\ upto'[i] = p /\ upto[i] \in Nat /\ p <= LastPacket(t)
      /\ isotp \in [Ids -> IsoTpSession]
  BY <1>1, LinksAssumption
     DEF Exact, Good, BusInv, BusTypeOK, ReceiverTypeOK, Links, SentUpTo
<1>5. OnAir(i)
  BY <1>4, PacketBus
<1>6. /\ BusStep /\ SentOn(t, i) /\ t \in 1 .. Len(transfers)
      /\ sending'[i] = t /\ aborted' = aborted /\ transfers' = transfers
      /\ t \in Nat
  <2>1. t \in 1 .. Len(transfers) /\ Len(transfers) \in Nat
    BY <1>1, <1>4, <1>5 DEF OnAir, BusInv, BusTypeOK
  <2> QED BY <2>1, <1>1, <1>5 DEF OnAir, SentUpTo
<1>7. Good'
  BY <1>1, <1>4, <1>6, FeedConsecutiveGood
<1>8. /\ tp' = tp /\ flushed' = flushed /\ messages \subseteq messages'
      /\ \A j \in Ids \ {i} : isotp'[j] = isotp[j]
  BY <1>4 DEF FeedConsecutive, Ticks
<1>9. /\ ~open => messages' = messages \cup {Orphan(i)} /\ isotp'[i] = s0
      /\ open /\ ~next => messages' = messages \cup {m0} /\ isotp'[i] = NoChain
      /\ open /\ next /\ ~big => messages' = messages /\ isotp'[i] = s
      /\ open /\ next /\ big => messages' = messages \cup {m1} /\ isotp'[i] = NoChain
  <2>1. ChainBytes(s) < s.size <=> ~big
    <3>1. s.size \in Nat /\ s.chunks \in Chunks
      <4>1. <<Cardinality(s0.chunks), p, t>> \in Nat \X Nat \X Nat /\ s0.chunks \in Chunks
        BY <1>4, <1>6, FS_CardinalityType DEF IsoTpSession, Chunks
      <4> QED BY <4>1, <1>2, <1>4, ChunksGrow DEF Extended, IsoTpSession
    <3>2. Cardinality(s.chunks) \in Nat
      BY <3>1, FS_CardinalityType DEF Chunks
    <3>3. ChainBytes(s) \in Int
      BY <3>2, BytesAssumption DEF ChainBytes
    <3> QED BY <3>1, <3>3
  <2> QED BY <2>1, <1>1, <1>2, <1>3, <1>4 DEF FeedConsecutive
<1>10. /\ \A k \in Keys : TpInv(k)' /\ TpFollows(k)'
       /\ \A j \in Ids \ {i} : ChainInv(j)' /\ ChainFollows(j)'
       /\ \A u \in 1 .. Len(transfers) : u # t => Told(u)'
  <2>1. \A k \in Keys : k # i /\ tp'[k] = tp[k]
    BY <1>4, <1>8
  <2> QED BY <2>1, <1>1, <1>5, <1>6, <1>8, ElsewhereStays DEF OnAir
<1>11. /\ s.of = s0.of /\ s.size = s0.size /\ s.expected = (s0.expected + 1) % Modulus
       /\ s.chunks = s0.chunks \cup {<<Cardinality(s0.chunks), p, t>>}
       /\ s0.chunks \in Chunks /\ s0.size \in Nat /\ s.chunks \in Chunks
  <2>1. <<Cardinality(s0.chunks), p, t>> \in Nat \X Nat \X Nat /\ s0.chunks \in Chunks
    BY <1>4, <1>6, FS_CardinalityType DEF IsoTpSession, Chunks
  <2> QED BY <2>1, <1>2, <1>4, ChunksGrow DEF Extended, IsoTpSession
<1>12. open => ChainSound(i, s0)
  BY <1>1 DEF Exact, Sessions, ChainInv, NoChain, IsOpen
<1>13. open => ChainSound(i, s)' /\ \E c \in s.chunks : c[3] = t
  BY <1>1, <1>4, <1>6, <1>11, <1>12, ExtendedSound DEF BusInv
<1>14. ChainInv(i)'
  <2>1. CASE ~open
    <3>1. isotp'[i] = isotp[i] /\ ChainInv(i)
      BY <2>1, <1>1, <1>9 DEF Exact, Sessions
    <3> QED BY <3>1, <1>4, <1>5, ChainInvStays DEF OnAir
  <2>2. CASE open /\ next /\ ~big
    BY <2>2, <1>9, <1>13 DEF ChainInv, ChainSound
  <2>3. CASE open /\ ~(next /\ ~big)
    BY <2>3, <1>9 DEF ChainInv
  <2> QED BY <2>1, <2>2, <2>3
<1>15. open => MessageInv(m0)'
  <2>1. open => MessageInv(m0)
    <3>1. [s0 EXCEPT !.frames = @ \cup {Number}].chunks = s0.chunks
      BY <1>4 DEF IsoTpSession
    <3> QED BY <3>1, <1>3, <1>12, ChainCutExact
  <2> QED BY <2>1, <1>6, Stays DEF BusStep, BusInv
<1>16. open /\ big => MessageInv(m1)'
  <2>1. SenderInv(i)' /\ BusTypeOK'
    BY <1>4, <1>6 DEF BusStep, BusInv, Links
  <2> QED BY <2>1, <1>3, <1>6, <1>11, <1>13, ChainMessageExact
<1>17. open => MessageInv(m0)' /\ (big => MessageInv(m1)')
  BY <1>15, <1>16
<1>18. \A m \in messages' : MessageInv(m)'
  <2> SUFFICES ASSUME NEW m \in messages' PROVE MessageInv(m)'
    OBVIOUS
  <2>1. CASE m \in messages
    BY <2>1, <1>6, Stays DEF Exact, Sessions, BusStep, BusInv
  <2>2. CASE m \notin messages
    <3>1. CASE ~open
      <4>1. m = Orphan(i)
        BY <2>2, <3>1, <1>9
      <4> QED BY <4>1 DEF MessageInv, Orphan, Message
    <3>2. CASE open
      <4>1. m = m0 \/ (big /\ m = m1)
        BY <2>2, <3>2, <1>9
      <4> QED BY <3>2, <4>1, <1>17
    <3> QED BY <3>1, <3>2
  <2> QED BY <2>1, <2>2
\* A chain without a gap goes on without one.
<1>19. ASSUME ~flushed, \A j \in 0 .. p : <<t, j>> \in arrived'
       PROVE  /\ open /\ next /\ s.of = t
              /\ s.expected = (p + 1) % Modulus
              /\ s.chunks = {<<j, j, t>> : j \in 0 .. p}
              /\ big <=> p >= Consecutive(transfers[t].size)
  <2>1. \A j \in 0 .. upto[i] : <<t, j>> \in arrived
    <3> SUFFICES ASSUME NEW j \in 0 .. upto[i] PROVE <<t, j>> \in arrived
      OBVIOUS
    <3>1. j \in 0 .. p /\ j # p
      BY <1>4
    <3> QED BY <3>1, <1>19, <1>1
  <2>2. t # 0 /\ upto[i] < LastPacket(t)
    <3>1. LastPacket(t) \in Nat
      BY <1>4, <1>6, LastPacketType DEF BusInv
    <3> QED BY <3>1, <1>4, <1>6
  <2>3. /\ open /\ s0.of = t /\ s0.expected = (upto[i] + 1) % Modulus
        /\ s0.chunks = {<<j, j, t>> : j \in 0 .. upto[i]}
    BY <2>1, <2>2, <1>1, <1>19 DEF Exact, ProgressInv, ChainFollows
  <2>4. Cardinality(s0.chunks) = p
    <3>1. {c[1] : c \in s0.chunks} = 0 .. Cardinality(s0.chunks) - 1
      BY <2>3, <1>12 DEF ChainSound
    <3>2. PICK n \in Nat : n = Cardinality(s0.chunks)
      BY <1>11, FS_CardinalityType DEF Chunks
    <3>3. PICK N : N = 0 .. upto[i]
      OBVIOUS
    <3>4. {c[1] : c \in s0.chunks} = N
      <4>1. s0.chunks = InPlace(N, t)
        BY <2>3, <3>3 DEF InPlace
      <4> QED BY <4>1, NumbersOf
    <3>5. 0 .. upto[i] = 0 .. n - 1
      BY <3>1, <3>2, <3>3, <3>4
    <3>6. upto[i] \in 0 .. n - 1
      BY <3>5, <1>4
    <3>7. n - 1 \in 0 .. upto[i]
      BY <3>5, <3>6, <3>2
    <3> QED BY <3>2, <3>6, <3>7, <1>4
  <2>5. s.chunks = {<<j, j, t>> : j \in 0 .. p}
    <3>1. 0 .. p = (0 .. upto[i]) \cup {p}
      BY <1>4
    <3>2. s.chunks = {<<j, j, t>> : j \in 0 .. upto[i]} \cup {<<p, p, t>>}
      BY <2>3, <2>4, <1>11
    <3> QED BY <3>1, <3>2
  <2>6. next /\ s.expected = (p + 1) % Modulus
    BY <2>3, <1>4, <1>11, NextNumber
  <2>7. big <=> p >= Consecutive(transfers[t].size)
    <3>1. Cardinality(s.chunks) = p + 1
      <4>1. <<p, p, t>> \notin s0.chunks
        <5> SUFFICES ASSUME <<p, p, t>> \in s0.chunks PROVE FALSE
          OBVIOUS
        <5>1. PICK j \in 0 .. upto[i] : <<p, p, t>> = <<j, j, t>>
          BY <2>3
        <5>2. p = j
          BY <5>1
        <5> QED BY <5>2, <1>4
      <4>2. IsFiniteSet(s0.chunks)
        BY <1>11 DEF Chunks
      <4>3. s.chunks = s0.chunks \cup {<<p, p, t>>}
        BY <2>4, <1>11
      <4> QED BY <4>1, <4>2, <4>3, <2>4, FS_AddElement
    <3>2. ChainBytes(s) = FirstBytes + p * PacketBytes
      BY <3>1, <1>4 DEF ChainBytes
    <3>3. s.size = transfers[t].size
      BY <2>3, <1>11, <1>12 DEF ChainSound
    <3>4. FirstBytes + p * PacketBytes >= s.size <=> p >= Consecutive(s.size)
      BY <1>4, <1>11, ConsecutiveLeast
    <3> QED BY <3>2, <3>3, <3>4
  <2> QED BY <2>3, <2>5, <2>6, <2>7, <1>11
<1>20. /\ Whole(t)' = Whole(t) /\ LastPacket(t)' = LastPacket(t) /\ (WellFormed(t)' <=> WellFormed(t))
       /\ LastPacket(t) = Consecutive(transfers[t].size)
       /\ Whole(t) = {<<j, j, t>> : j \in 0 .. LastPacket(t)}
       /\ LastPacket(t) \in Nat
  <2>1. /\ Whole(t)' = Whole(t) /\ LastPacket(t)' = LastPacket(t)
        /\ WellFormed(t)' <=> WellFormed(t)
    BY <1>6, Stays DEF BusStep, BusInv
  <2>2. transfers[t].link \in Ids
    BY <1>6 DEF SentOn
  <2>3. LastPacket(t) \in Nat
    BY <1>4, <1>6, LastPacketType DEF BusInv
  <2> QED BY <2>1, <2>2, <2>3 DEF LastPacket, Whole
<1>21. ChainFollows(i)'
  <2> SUFFICES ASSUME ~flushed, p < LastPacket(t), \A j \in 0 .. p : <<t, j>> \in arrived'
               PROVE  /\ IsOpen(isotp'[i]) /\ isotp'[i].of = t
                      /\ isotp'[i].expected = (p + 1) % Modulus
                      /\ isotp'[i].chunks = {<<j, j, t>> : j \in 0 .. p}
    <3>1. LastPacket(sending[i])' = LastPacket(t)'
      BY <1>6 DEF LastPacket
    <3> QED BY <3>1, <1>4, <1>6, <1>8, <1>20 DEF ChainFollows, IsOpen
  <2>1. open /\ next /\ ~big
    BY <1>4, <1>19, <1>20
  <2>2. isotp'[i] = s /\ IsOpen(s)
    BY <2>1, <1>2, <1>9 DEF IsOpen, Extended
  <2> QED BY <2>2, <1>19
<1>22. Told(t)'
  <2>1. CASE Received(t)
    <3>1. Told(t)
      BY <1>6 DEF Exact, ProgressInv, ReceivedIsComplete, Told
    <3> QED BY <2>1, <3>1, <1>6, <1>8, <1>20 DEF Told
  <2>2. CASE ~Received(t)
    <3> SUFFICES ASSUME Received(t)'
                 PROVE  \E m \in messages' : m.of = t /\ m.complete /\ m.payload = Whole(t)
      BY <1>20 DEF Told
    <3>1. PICK N : N = 0 .. LastPacket(t)
      OBVIOUS
    <3>2. \A j \in N : <<t, j>> \in arrived'
      <4>1. Whole(t) = InPlace(N, t)
        BY <3>1, <1>20 DEF InPlace
      <4>2. \A c \in Whole(t) : <<t, c[2]>> \in arrived'
        BY <1>20 DEF Received
      <4> QED BY <4>1, <4>2, InPlaceParts
    <3>3. p = LastPacket(t)
      <4>1. <<t, LastPacket(t)>> \in arrived'
        BY <3>1, <3>2, <1>20
      <4>2. LastPacket(t) <= upto'[i]
        <5>1. \A a \in arrived' : a[1] = t => a[2] <= upto'[i]
          BY <1>4, <1>6 DEF BusStep, BusInv, SenderInv, Links
        <5> QED BY <4>1, <5>1
      <4> QED BY <4>2, <1>4, <1>20
    <3>4. \A j \in 0 .. p : <<t, j>> \in arrived'
      BY <3>1, <3>2, <3>3
    <3>5. ~flushed
      BY DEF Ticks
    <3>6. open /\ next /\ big /\ s.of = t /\ s.chunks = Whole(t)
      BY <3>3, <3>4, <3>5, <1>4, <1>19, <1>20
    <3>7. m1 \in messages' /\ m1.of = t /\ m1.complete /\ m1.payload = Whole(t)
      BY <3>6, <1>3, <1>9 DEF Chain, Message
    <3> QED BY <3>7
  <2> QED BY <2>1, <2>2
<1>23. Sessions'
  BY <1>10, <1>14, <1>18 DEF Sessions, Keys
<1>24. ProgressInv'
  BY <1>6, <1>10, <1>21, <1>22 DEF ProgressInv, ReceivedIsComplete, Told, Keys
<1> QED BY <1>6, <1>7, <1>23, <1>24 DEF Exact, BusStep

\* A message of a J1939 session that ended early says nothing of a payload.
LEMMA TpCutExact ==
    ASSUME NEW k, NEW s, TpSound(k, s), NEW r, r.chunks = s.chunks, NEW e
    PROVE  MessageInv(TpMessage(k, r, FALSE, e))
BY DEF MessageInv, TpMessage, Message, Joined, TpSound, Fits

\* Nothing is sent.
LEMMA BusUnchanged ==
    ASSUME BusInv, UNCHANGED <<transfers, sending, upto, arrived, lost>>
    PROVE  BusStep /\ \A u : Quiet(u)
<1>1. BusTypeOK' /\ Grown
  BY DEF BusInv, BusTypeOK, Grown, Links, Keys
<1>2. \A l \in Links : SenderInv(l)'
  BY DEF BusInv, SenderInv, SentOn, LastPacket
<1>3. BusInv'
  BY <1>1, <1>2 DEF BusInv, Links, Keys
<1> QED BY <1>1, <1>3 DEF BusStep, Quiet

\* Messages that are no payload leave everything as it was.
LEMMA AloneExact ==
    ASSUME Exact, Good', UNCHANGED <<transfers, sending, upto, arrived, lost, aborted>>,
           tp' = tp, isotp' = isotp, flushed' = flushed,
           messages \subseteq messages', \A m \in messages' \ messages : m.payload = {}
    PROVE  Exact'
<1>1. BusStep /\ \A u : Quiet(u)
  BY BusUnchanged DEF Exact
<1>2. \A m \in Links : upto[m] \in Nat
  BY <1>1 DEF BusStep, BusInv, BusTypeOK
<1>3. \A k \in Keys : TpInv(k)' /\ TpFollows(k)'
  BY <1>1, TpInvStays, TpFollowsStays DEF Exact, Sessions, ProgressInv
<1>4. \A i \in Ids : ChainInv(i)' /\ ChainFollows(i)'
  <2> SUFFICES ASSUME NEW i \in Ids PROVE ChainInv(i)' /\ ChainFollows(i)'
    OBVIOUS
  <2>1. Good /\ ChainInv(i) /\ ChainFollows(i) /\ upto'[i] >= upto[i]
    BY <1>2 DEF Exact, Sessions, ProgressInv, Links
  <2> QED BY <1>1, <2>1, ChainInvStays, ChainFollowsStays
<1>5. \A u \in 1 .. Len(transfers) : Told(u)'
  <2> SUFFICES ASSUME NEW u \in 1 .. Len(transfers) PROVE Told(u)'
    OBVIOUS
  <2>1. Told(u)
    BY DEF Exact, ProgressInv, ReceivedIsComplete, Told
  <2> QED BY <1>1, <2>1, ToldStays
<1>6. \A m \in messages' : MessageInv(m)'
  <2> SUFFICES ASSUME NEW m \in messages' PROVE MessageInv(m)'
    OBVIOUS
  <2>1. CASE m \in messages
    BY <2>1, <1>1, Stays DEF Exact, Sessions, BusStep, BusInv
  <2>2. CASE m \notin messages
    BY <2>2 DEF MessageInv
  <2> QED BY <2>1, <2>2
<1>7. Sessions' /\ ProgressInv'
  BY <1>3, <1>4, <1>5, <1>6 DEF Sessions, ProgressInv, ReceivedIsComplete, Told, Keys
<1> QED BY <1>1, <1>7 DEF Exact, BusStep

\* flush() leaves no session, and no message that claims a payload.
LEMMA FlushExact ==
    ASSUME Exact, Good', Flush
    PROVE  Exact'
<1>1. /\ BusStep /\ (\A u : Quiet(u)) /\ aborted' = aborted /\ transfers' = transfers
      /\ flushed'
  BY BusUnchanged DEF Exact, Flush, bus
<1>2. /\ \A k \in Keys : tp'[k] = NoSession
      /\ \A i \in Ids : isotp'[i] = NoChain
      /\ messages \subseteq messages'
      /\ \A m \in messages' :
            \/ m \in messages
            \/ \E k \in Keys : IsOpen(tp[k]) /\ m = TpMessage(k, tp[k], FALSE, {"ended"})
            \/ \E i \in Ids : IsOpen(isotp[i]) /\ m = Chain(i, isotp[i], FALSE, {"ended"})
  BY DEF Flush
<1>3. \A k \in Keys : TpInv(k)' /\ TpFollows(k)'
  BY <1>1, <1>2 DEF TpInv, TpFollows
<1>4. \A i \in Ids : ChainInv(i)' /\ ChainFollows(i)'
  BY <1>1, <1>2 DEF ChainInv, ChainFollows
<1>5. \A u \in 1 .. Len(transfers) : Told(u)'
  <2> SUFFICES ASSUME NEW u \in 1 .. Len(transfers) PROVE Told(u)'
    OBVIOUS
  <2>1. Told(u)
    BY DEF Exact, ProgressInv, ReceivedIsComplete, Told
  <2> QED BY <1>1, <1>2, <2>1, ToldStays
<1>6. \A m \in messages' : MessageInv(m)'
  <2> SUFFICES ASSUME NEW m \in messages' PROVE MessageInv(m)
    BY <1>1, Stays DEF BusStep, BusInv
  <2>1. CASE m \in messages
    BY <2>1 DEF Exact, Sessions
  <2>2. ASSUME NEW k \in Keys, IsOpen(tp[k]), m = TpMessage(k, tp[k], FALSE, {"ended"})
        PROVE  MessageInv(m)
    <3>1. TpSound(k, tp[k])
      BY <2>2 DEF Exact, Sessions, TpInv, NoSession, IsOpen
    <3> QED BY <2>2, <3>1, TpCutExact
  <2>3. ASSUME NEW i \in Ids, IsOpen(isotp[i]), m = Chain(i, isotp[i], FALSE, {"ended"})
        PROVE  MessageInv(m)
    <3>1. ChainSound(i, isotp[i])
      BY <2>3 DEF Exact, Sessions, ChainInv, NoChain, IsOpen
    <3> QED BY <2>3, <3>1, ChainCutExact
  <2> QED BY <2>1, <2>2, <2>3, <1>2
<1>7. Sessions' /\ ProgressInv'
  BY <1>1, <1>3, <1>4, <1>5, <1>6 DEF Sessions, ProgressInv, ReceivedIsComplete, Told, Keys
<1> QED BY <1>1, <1>7 DEF Exact, BusStep

\* _feed_cm with CM_ABORT ends a session of the two addresses, and both their
\* transfers count as aborted.
LEMMA SendAbortExact ==
    ASSUME Exact, Good', NEW k \in Keys, SendAbort(k)
    PROVE  Exact'
<1>1. PICK by \in {k, <<k[2], k[1]>>} :
         /\ k[2] # Global /\ FeedAbort(by[1], by[2]) /\ flushed' = flushed
         /\ aborted' = aborted \cup {sending[k], sending[<<k[2], k[1]>>]}
         /\ sending' = [sending EXCEPT ![k] = 0]
         /\ UNCHANGED <<transfers, upto, arrived, lost>>
  BY DEF SendAbort, Fed
<1>2. PICK back : back = <<k[2], k[1]>>
  OBVIOUS
<1>3. PICK V : V = AbortVictims(by[1], by[2])
  OBVIOUS
<1>4. /\ by \in Keys /\ back \in Keys /\ k \in Links /\ k \notin Ids
      /\ V \subseteq {k, back} /\ \A j \in V : IsOpen(tp[j])
  <2>1. /\ by \in Keys /\ back \in Keys /\ <<by[2], by[1]>> \in {k, back}
        /\ k = <<k[1], k[2]>> /\ by = <<by[1], by[2]>>
    BY <1>1, <1>2 DEF Keys
  <2>2. V \subseteq {k, back} /\ \A j \in V : IsOpen(tp[j])
    BY <2>1, <1>1, <1>2, <1>3 DEF AbortVictims, TpKey
  <2> QED BY <2>1, <2>2, LinksAssumption DEF Links
<1>5. /\ \A j \in Keys : tp'[j] = IF j \in V THEN NoSession ELSE tp[j]
      /\ isotp' = isotp /\ messages \subseteq messages'
      /\ \A m \in messages' :
            \/ m \in messages
            \/ m.payload = {} /\ ~m.complete
            \/ \E j \in V : m = TpMessage(j, [tp[j] EXCEPT !.frames = @ \cup {Number}],
                                           FALSE, {"aborted"})
  <2>1. /\ tp' = [j \in Keys |-> IF j \in V THEN NoSession ELSE tp[j]]
        /\ messages' = messages \cup
              IF V = {} THEN {Orphan(TpKey(by[1], by[2]))}
              ELSE {TpMessage(j, [tp[j] EXCEPT !.frames = @ \cup {Number}],
                              FALSE, {"aborted"}) : j \in V}
        /\ isotp' = isotp
    BY <1>1, <1>3 DEF FeedAbort
  <2>2. \A l : Orphan(l).payload = {} /\ ~Orphan(l).complete
    BY DEF Orphan, Message
  <2> QED BY <2>1, <2>2
<1>6. /\ Good /\ BusInv /\ tp \in [Keys -> TpSession]
      /\ sending \in [Links -> 0 .. Len(transfers)] /\ upto \in [Links -> Nat]
      /\ Len(transfers) \in Nat
  <2>1. Good /\ BusInv
    BY DEF Exact
  <2>2. tp \in [Keys -> TpSession]
    BY <2>1 DEF Good, ReceiverTypeOK
  <2>3. /\ sending \in [Links -> 0 .. Len(transfers)] /\ upto \in [Links -> Nat]
        /\ Len(transfers) \in Nat
    BY <2>1 DEF BusInv, BusTypeOK
  <2> QED BY <2>1, <2>2, <2>3
<1>7. sending'[k] = 0 /\ \A l \in Links \ {k} : sending'[l] = sending[l]
  BY <1>1, <1>4, <1>6
<1>8. BusStep /\ \A u : Quiet(u)
  <2>1. BusTypeOK' /\ Grown
    <3>1. sending' \in [Links -> 0 .. Len(transfers)]
      BY <1>1, <1>4, <1>6
    <3> QED BY <3>1, <1>1, <1>6 DEF BusInv, BusTypeOK, Grown, Links, Keys
  <2>2. \A l \in Links : SenderInv(l)'
    <3> SUFFICES ASSUME NEW l \in Links, l # k PROVE SenderInv(l)'
      BY <1>7 DEF SenderInv
    <3>1. SenderInv(l) /\ sending'[l] = sending[l]
      BY <1>6, <1>7 DEF BusInv
    <3> QED BY <3>1, <1>1 DEF SenderInv, SentOn, LastPacket
  <2>3. BusInv'
    BY <2>1, <2>2, <1>1, <1>6 DEF BusInv, Links, Keys
  <2> QED BY <2>1, <2>3, <1>1, <1>6 DEF BusStep, Quiet
<1>9. \A j \in Keys : TpInv(j)' /\ TpFollows(j)'
  <2> SUFFICES ASSUME NEW j \in Keys PROVE TpInv(j)' /\ TpFollows(j)'
    BY DEF Keys
  <2>1. sending'[j] \in {0, sending[j]} /\ TpInv(j) /\ TpFollows(j)
    BY <1>7 DEF Links, Exact, Sessions, ProgressInv
  <2>2. TpInv(j)'
    <3>1. CASE j \in V
      BY <3>1, <1>5 DEF TpInv
    <3>2. CASE j \notin V
      <4>1. tp'[j] = tp[j]
        BY <3>2, <1>5
      <4> QED BY <4>1, <2>1, <1>8, TpInvStays
    <3> QED BY <3>1, <3>2
  <2>3. TpFollows(j)'
    <3>1. CASE j = k
      BY <3>1, <1>7 DEF TpFollows
    <3>2. CASE j = back /\ j # k
      <4>1. sending'[j] \in aborted'
        BY <3>2, <1>1, <1>2, <1>7 DEF Links
      <4> QED BY <4>1 DEF TpFollows
    <3>3. CASE j # back /\ j # k
      <4>1. tp'[j] = tp[j] /\ aborted \subseteq aborted'
        BY <3>3, <1>1, <1>4, <1>5
      <4> QED BY <4>1, <2>1, <1>1, <1>8, TpFollowsStays
    <3> QED BY <3>1, <3>2, <3>3
  <2> QED BY <2>2, <2>3
<1>10. \A i \in Ids : ChainInv(i)' /\ ChainFollows(i)'
  <2> SUFFICES ASSUME NEW i \in Ids PROVE ChainInv(i)' /\ ChainFollows(i)'
    OBVIOUS
  <2>1. /\ ChainInv(i) /\ ChainFollows(i) /\ i \in Links /\ sending'[i] = sending[i]
        /\ upto'[i] = upto[i] /\ upto'[i] >= upto[i] /\ isotp'[i] = isotp[i]
    BY <1>1, <1>4, <1>5, <1>6, <1>7 DEF Links, Exact, Sessions, ProgressInv
  <2>2. ChainInv(i)'
    BY <2>1, <1>6, <1>8, ChainInvStays
  <2> QED BY <2>1, <2>2, <1>1, <1>8, ChainFollowsStays
<1>11. \A u \in 1 .. Len(transfers) : Told(u)'
  <2> SUFFICES ASSUME NEW u \in 1 .. Len(transfers) PROVE Told(u)'
    OBVIOUS
  <2>1. Told(u) /\ aborted \subseteq aborted'
    BY <1>1 DEF Exact, ProgressInv, ReceivedIsComplete, Told
  <2> QED BY <2>1, <1>5, <1>8, ToldStays
<1>12. \A m \in messages' : MessageInv(m)'
  <2> SUFFICES ASSUME NEW m \in messages' PROVE MessageInv(m)
    BY <1>8, Stays DEF BusStep, BusInv
  <2>1. CASE m \in messages
    BY <2>1 DEF Exact, Sessions
  <2>2. CASE m.payload = {}
    BY <2>2 DEF MessageInv
  <2>3. ASSUME NEW j \in V,
               m = TpMessage(j, [tp[j] EXCEPT !.frames = @ \cup {Number}], FALSE, {"aborted"})
        PROVE  MessageInv(m)
    <3>1. j \in Keys /\ IsOpen(tp[j])
      BY <1>4
    <3>2. TpSound(j, tp[j])
      BY <3>1 DEF Exact, Sessions, TpInv, NoSession, IsOpen
    <3>3. [tp[j] EXCEPT !.frames = @ \cup {Number}].chunks = tp[j].chunks
      BY <1>6, <3>1 DEF TpSession
    <3> QED BY <2>3, <3>2, <3>3, TpCutExact
  <2> QED BY <2>1, <2>2, <2>3, <1>5
<1>13. Sessions' /\ ProgressInv'
  BY <1>1, <1>9, <1>10, <1>11, <1>12 DEF Sessions, ProgressInv, ReceivedIsComplete, Told, Keys
<1> QED BY <1>8, <1>13 DEF Exact, BusStep

\* Nothing is sent or received at first.
LEMMA InitExact == Init => Exact
<1> SUFFICES ASSUME Init PROVE Exact
  OBVIOUS
<1>1. Good /\ BusTypeOK
  BY InitGood
<1>2. BusInv
  BY <1>1 DEF Init, BusInv, SenderInv, Links
<1>3. Sessions
  BY DEF Init, Sessions, TpInv, ChainInv
<1>4. ProgressInv
  BY DEF Init, ProgressInv, TpFollows, ChainFollows, ReceivedIsComplete, Links
<1> QED BY <1>1, <1>2, <1>3, <1>4 DEF Exact

\* Every action keeps the payloads exact, whether its frame arrives or is lost.
LEMMA NextExact ==
    ASSUME Exact, Next
    PROVE  Exact'
<1>1. Good /\ BusInv /\ BusTypeOK /\ Good'
  <2>1. Good /\ BusInv /\ BusTypeOK
    BY DEF Exact, BusInv
  <2> QED BY <2>1, NextGood
<1>2. /\ Keys \subseteq Links /\ Ids \subseteq Links /\ Sizes \subseteq Nat
      /\ Keys \cap Ids = {}
  BY BytesAssumption, LinksAssumption DEF Links
<1>3. \A l \in Links : upto[l] \in Nat
  BY <1>1 DEF BusTypeOK
<1>4. ASSUME NEW k \in Keys, NEW size \in Nat, NEW count \in Nat,
             Announce(k, size, count, StartSession(k[1], k[2], Len(transfers) + 1, size, count))
      PROVE  Exact'
  <2>1. PICK t : t = Len(transfers) + 1
    OBVIOUS
  <2>2. Announced(k, size, count, t)
    BY <1>4, <2>1 DEF Announce, Announced
  <2>3. CASE /\ Fed(StartSession(k[1], k[2], Len(transfers) + 1, size, count))
             /\ arrived' = arrived \cup {<<t, 0>>} /\ lost' = lost
    BY <2>1, <2>2, <2>3, StartSessionExact DEF Fed, Ticks, Number
  <2>4. CASE arrived' = arrived /\ lost' = lost \cup {<<t, 0>>} /\ UNCHANGED receiver
    BY <1>2, <2>2, <2>4, HeaderLostExact
  <2> QED BY <1>4, <2>1, <2>3, <2>4 DEF Announce, Carried
<1>5. ASSUME NEW k \in Keys, NEW q, SentUpTo(k, q), NEW p \in 1 .. q,
             Carried(sending[k], p, FeedDt(k[1], k[2], p, sending[k]))
      PROVE  Exact'
  <2>1. CASE /\ Fed(FeedDt(k[1], k[2], p, sending[k]))
             /\ arrived' = arrived \cup {<<sending[k], p>>} /\ lost' = lost
    BY <1>5, <2>1, FeedDtExact DEF Fed, Ticks, Number
  <2>2. CASE /\ lost' = lost \cup {<<sending[k], p>>} /\ UNCHANGED <<receiver, arrived>>
    BY <1>2, <1>5, <2>2, PacketLostExact
  <2> QED BY <1>5, <2>1, <2>2 DEF Carried
<1>6. ASSUME NEW k \in Keys, SendTpHeader(k)
      PROVE  Exact'
  BY <1>2, <1>4, <1>6, PacketsType DEF SendTpHeader
<1>7. ASSUME NEW k \in Keys, SendBadHeader(k)
      PROVE  Exact'
  <2>1. PICK size \in Sizes \cup {0} : \E count \in 0 .. Packets(size) + 1 :
           Announce(k, size, count,
               StartSession(k[1], k[2], Len(transfers) + 1, size, count))
    BY <1>7 DEF SendBadHeader
  <2>2. PICK count \in 0 .. Packets(size) + 1 :
           Announce(k, size, count,
               StartSession(k[1], k[2], Len(transfers) + 1, size, count))
    BY <2>1
  <2>3. size \in Nat
    BY <1>2
  <2>4. count \in Nat
    BY <2>3, PacketsType
  <2> QED BY <2>2, <2>3, <2>4, <1>4
<1>8. ASSUME NEW k \in Keys, SendDt(k)
      PROVE  Exact'
  <2>1. PICK p : p = upto[k] + 1
    OBVIOUS
  <2>2. /\ Sends(k, Packets(transfers[sending[k]].size))
        /\ Carried(sending[k], p, FeedDt(k[1], k[2], p, sending[k]))
    BY <1>8, <2>1 DEF SendDt
  <2>3. /\ sending[k] # 0 /\ SentOn(sending[k], k)
        /\ LastPacket(sending[k]) = Packets(transfers[sending[k]].size)
        /\ LastPacket(sending[k]) \in Nat
    <3>1. sending[k] # 0 /\ SentOn(sending[k], k)
      BY <2>2, <1>1, <1>2 DEF Sends, BusInv, SenderInv
    <3>2. LastPacket(sending[k]) \in Nat
      BY <3>1, <1>1, LastPacketType DEF SentOn
    <3> QED BY <3>1, <3>2, <1>2 DEF LastPacket, SentOn
  <2>4. SentUpTo(k, p) /\ p \in 1 .. p
    BY <2>1, <2>2, <2>3, <1>2, <1>3 DEF Sends, SentUpTo
  <2> QED BY <2>2, <2>4, <1>5
<1>9. ASSUME NEW k \in Keys, RepeatDt(k)
      PROVE  Exact'
  <2>1. PICK p \in 1 .. upto[k] :
           /\ sending[k] # 0
           /\ Carried(sending[k], p, FeedDt(k[1], k[2], p, sending[k]))
           /\ UNCHANGED <<transfers, sending, upto, aborted>>
    BY <1>9 DEF RepeatDt
  <2>2. PICK q : q = upto[k]
    OBVIOUS
  <2>3. SentUpTo(k, q)
    <3>1. upto' = [upto EXCEPT ![k] = q]
      BY <2>1, <2>2, <1>1, <1>2 DEF BusTypeOK
    <3>2. q <= LastPacket(sending[k])
      BY <2>1, <2>2, <1>1, <1>2 DEF BusInv, SenderInv
    <3> QED BY <3>1, <3>2, <2>1, <2>2, <1>2, <1>3 DEF SentUpTo
  <2> QED BY <2>1, <2>2, <2>3, <1>5
<1>10. ASSUME NEW i \in Ids, SendFirst(i)
       PROVE  Exact'
  <2>1. PICK size \in Sizes :
           Announce(i, size, 0, FeedFirst(i, Len(transfers) + 1, size))
    BY <1>10 DEF SendFirst
  <2>2. PICK t : t = Len(transfers) + 1
    OBVIOUS
  <2>3. Announced(i, size, 0, t) /\ size \in Nat
    BY <1>2, <2>1, <2>2 DEF Announce, Announced
  <2>4. CASE /\ Fed(FeedFirst(i, Len(transfers) + 1, size))
             /\ arrived' = arrived \cup {<<t, 0>>} /\ lost' = lost
    BY <2>2, <2>3, <2>4, FeedFirstExact DEF Fed, Ticks, Number
  <2>5. CASE arrived' = arrived /\ lost' = lost \cup {<<t, 0>>} /\ UNCHANGED receiver
    BY <1>2, <2>3, <2>5, HeaderLostExact
  <2> QED BY <2>1, <2>2, <2>4, <2>5 DEF Announce, Carried
<1>11. ASSUME NEW i \in Ids, SendConsecutive(i)
       PROVE  Exact'
  <2>1. PICK p : p = upto[i] + 1
    OBVIOUS
  <2>2. /\ Sends(i, Consecutive(transfers[sending[i]].size))
        /\ Carried(sending[i], p, FeedConsecutive(i, p, sending[i]))
    BY <1>11, <2>1 DEF SendConsecutive
  <2>3. /\ sending[i] # 0 /\ SentOn(sending[i], i)
        /\ LastPacket(sending[i]) = Consecutive(transfers[sending[i]].size)
        /\ LastPacket(sending[i]) \in Nat
    <3>1. sending[i] # 0 /\ SentOn(sending[i], i)
      BY <2>2, <1>1, <1>2 DEF Sends, BusInv, SenderInv
    <3>2. LastPacket(sending[i]) \in Nat
      BY <3>1, <1>1, LastPacketType DEF SentOn
    <3> QED BY <3>1, <3>2, <1>2 DEF LastPacket, SentOn
  <2>4. SentUpTo(i, p) /\ p > upto[i]
    BY <2>1, <2>2, <2>3, <1>2, <1>3 DEF Sends, SentUpTo
  <2>5. CASE /\ Fed(FeedConsecutive(i, p, sending[i]))
             /\ arrived' = arrived \cup {<<sending[i], p>>} /\ lost' = lost
    BY <2>1, <2>4, <2>5, FeedConsecutiveExact DEF Fed, Ticks, Number
  <2>6. CASE /\ lost' = lost \cup {<<sending[i], p>>} /\ UNCHANGED <<receiver, arrived>>
    BY <1>2, <2>4, <2>6, PacketLostExact
  <2> QED BY <2>2, <2>5, <2>6 DEF Carried
<1>12. ASSUME SendAlone
       PROVE  Exact'
  <2>1. PICK m \in {Orphan(l) : l \in Keys \cup Ids} \cup
                   {Message(i, 0, {Number}, {}, TRUE, {}) : i \in Ids} :
           Fed(FeedAlone({m}) /\ UNCHANGED ignored)
    BY <1>12 DEF SendAlone
  <2>2. m.payload = {}
    BY <2>1 DEF Orphan, Message
  <2> QED BY <1>1, <1>12, <2>1, <2>2, AloneExact DEF SendAlone, Fed, FeedAlone
<1>13. ASSUME SendControl
       PROVE  Exact'
  BY <1>1, <1>13, AloneExact DEF SendControl, Fed, FeedAlone
<1>14. CASE Flush
  BY <1>1, <1>14, FlushExact
<1> QED BY <1>1, <1>6, <1>7, <1>8, <1>9, <1>10, <1>11, <1>12, <1>13, <1>14, SendAbortExact DEF Next

\* The reassemblers keep what makes their messages exact and complete.
THEOREM ReassemblyInvariant == Spec => []TransportIInv
<1>1. Init => Exact
  BY InitExact
<1>2. Exact /\ [Next]_vars => Exact'
  <2>1. CASE Next
    BY <2>1, NextExact
  <2>2. ASSUME Exact, UNCHANGED vars PROVE Exact'
    <3>1. Good'
      BY <2>2, GoodUnchanged DEF vars, Exact
    <3> QED BY <2>2, <3>1, AloneExact DEF vars, receiver, bus
  <2> QED BY <2>1, <2>2, NextExact
<1>3. Exact => TransportIInv
  BY DEF Exact, Good, BusInv, Sessions, TransportIInv, PayloadInv
<1> QED BY <1>1, <1>2, <1>3, PTL DEF Spec

\* A message that is marked complete has the payload of one transfer, and no
\* message or session mixes links (_build_message, _consecutive_frame), for
\* every mixture of transfers, repeats, aborts and losses.
THEOREM CompleteMeansExact == Spec => []PayloadsAreExact
<1>1. TransportIInv => PayloadsAreExact
  <2> SUFFICES ASSUME TransportIInv PROVE PayloadsAreExact
    OBVIOUS
  <2>1. CompleteIsExact
    BY DEF TransportIInv, PayloadInv, MessageInv, CompleteIsExact
  <2>2. \A m \in messages : \A c \in m.payload : transfers[c[3]].link = m.link
    BY DEF TransportIInv, PayloadInv, MessageInv, SentOn
  <2>3. \A k \in Keys : \A c \in tp[k].chunks : transfers[c[3]].link = k
    BY DEF TransportIInv, PayloadInv, TpInv, TpSound, Fits, SentOn, NoSession
  <2>4. \A i \in Ids : \A c \in isotp[i].chunks : transfers[c[3]].link = i
    BY DEF TransportIInv, PayloadInv, ChainInv, ChainSound, Fits, SentOn, NoChain
  <2> QED BY <2>1, <2>2, <2>3, <2>4 DEF PayloadsAreExact, LinksKeptApart
<1> QED BY <1>1, ReassemblyInvariant, PTL

\* A transfer that was received in full is reported as a complete message by
\* the frame that completes it (_feed_dt, _consecutive_frame).
THEOREM NothingReceivedIsMissed == Spec => []ReceivedIsComplete
<1>1. TransportIInv => ReceivedIsComplete
  BY DEF TransportIInv, ProgressInv
<1> QED BY <1>1, ReassemblyInvariant, PTL

=============================================================================
