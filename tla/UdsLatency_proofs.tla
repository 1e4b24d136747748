-------------------------- MODULE UdsLatency_proofs --------------------------
(***************************************************************************)
(* Proofs about UdsLatency, for every session, timeout and limit of the    *)
(* evidence.                                                               *)
(*                                                                         *)
(* UdsIInv is inductive: a section for each conjunct, and before them what *)
(* the steps do.  Frames only add messages (Grows).  A request leaves the  *)
(* open ones without an answer (Drops) or with one (Pairs), in either case *)
(* as Leaves says, or stays with one more (Pends).  That a first request   *)
(* fits, and that a transaction ranks below the others, need an induction; *)
(* LeastNat takes it from the well-founded order of finite sets.           *)
(***************************************************************************)
EXTENDS UdsLatency, FiniteSetTheorems, SequenceTheorems, WellFoundedInduction, TLAPS

-----------------------------------------------------------------------------
(* Least elements.                                                          *)

(* A set of natural numbers that is not empty has a least element.          *)
LEMMA LeastNat ==
  ASSUME NEW T, T \subseteq Nat, T # {}
  PROVE  \E x \in T : \A y \in T : x <= y
  <1> DEFINE R == StrictSubsetOrdering(Nat)
             S == FiniteSubsetsOf(Nat)
             F == {0 .. n : n \in T}
  <1>1. IsWellFoundedOn(R, S)
    BY FS_StrictSubsetOrderingWellFounded
  <1>2. \A n \in Nat : 0 .. n \in S
    BY FS_Interval DEF FiniteSubsetsOf
  <1>3. ASSUME NEW m \in Nat, NEW n \in Nat, m < n
        PROVE  <<0 .. m, 0 .. n>> \in R
    <2>1. 0 .. m \subseteq 0 .. n /\ n \in 0 .. n /\ n \notin 0 .. m
      BY <1>3
    <2>2. 0 .. m # 0 .. n
      BY <2>1
    <2> QED
      BY <1>2, <2>1, <2>2 DEF StrictSubsetOrdering, FiniteSubsetsOf
  <1>4. F \subseteq S /\ F # {}
    BY <1>2
  <1> HIDE DEF R, S
  <1>5. \E x \in F : \A y \in F : ~ (<<y, x>> \in R)
    BY <1>1, <1>4, WFMin, Zenon
  <1>6. PICK n \in T : \A m \in T : ~ (<<0 .. m, 0 .. n>> \in R)
    BY <1>5
  <1>7. \A m \in T : ~ (m < n)
    BY <1>3, <1>6, Zenon
  <1> QED
    BY <1>7

(* Below orders triples of natural numbers strictly and totally.            *)
RankType == Nat \X Nat \X Nat

LEMMA BelowIsStrict ==
  /\ \A a, b, c \in RankType : Below(a, b) /\ Below(b, c) => Below(a, c)
  /\ \A a, b \in RankType : a[3] # b[3] => Below(a, b) \/ Below(b, a)
  /\ \A a, b \in RankType : ~ (Below(a, b) /\ Below(b, a))
  BY DEF Below, RankType

(* Among entries of different ranks one ranks below the others.             *)
LEMMA LowestRank ==
  ASSUME NEW E, E # {}, NEW K \in [E -> RankType],
         \A e, f \in E : e # f => K[e][3] # K[f][3]
  PROVE  \E e \in E : \A f \in E \ {e} : Below(K[e], K[f])
  <1> DEFINE P == {K[e][1] : e \in E}
  <1>1. PICK p \in P : \A q \in P : p <= q
    <2>1. P \subseteq Nat /\ P # {}
      BY DEF RankType
    <2> QED
      BY <2>1, LeastNat
  <1> DEFINE L == {K[e][2] : e \in {f \in E : K[f][1] = p}}
  <1>2. PICK l \in L : \A q \in L : l <= q
    <2>1. L \subseteq Nat /\ L # {}
      BY DEF RankType
    <2> QED
      BY <2>1, LeastNat
  <1> DEFINE N == {K[e][3] : e \in {f \in E : K[f][1] = p /\ K[f][2] = l}}
  <1>3. PICK n \in N : \A q \in N : n <= q
    <2>1. N \subseteq Nat /\ N # {}
      BY <1>2 DEF RankType
    <2> QED
      BY <2>1, LeastNat
  <1>4. PICK e \in E : K[e][1] = p /\ K[e][2] = l /\ K[e][3] = n
    BY <1>3
  <1>5. ASSUME NEW f \in E \ {e} PROVE Below(K[e], K[f])
    <2>1. K[f] \in RankType /\ K[e] \in RankType /\ K[f][3] # K[e][3]
      BY <1>5
    <2>2. /\ p <= K[f][1]
          /\ K[f][1] = p => l <= K[f][2]
          /\ K[f][1] = p /\ K[f][2] = l => n <= K[f][3]
      BY <1>1, <1>2, <1>3, <1>5
    <2> QED
      BY <1>4, <2>1, <2>2 DEF Below, RankType
  <1> QED
    BY <1>5

-----------------------------------------------------------------------------
(* Sequences.                                                               *)

LEMMA SeqFacts ==
  ASSUME NEW S, NEW s \in Seq(S)
  PROVE  /\ Len(s) \in Nat /\ DOMAIN s = 1 .. Len(s)
         /\ \A i \in DOMAIN s : s[i] \in S
  BY LenProperties, ElementOfSeq

LEMMA AppendFacts ==
  ASSUME NEW S, NEW s \in Seq(S), NEW e \in S
  PROVE  /\ Append(s, e) \in Seq(S) /\ Len(Append(s, e)) = Len(s) + 1
         /\ DOMAIN Append(s, e) = 1 .. Len(s) + 1
         /\ \A i \in 1 .. Len(s) : Append(s, e)[i] = s[i]
         /\ Append(s, e)[Len(s) + 1] = e
         /\ Items(Append(s, e)) = Items(s) \cup {e}
  <1>1. /\ Append(s, e) \in Seq(S) /\ Len(Append(s, e)) = Len(s) + 1
        /\ \A i \in 1 .. Len(s) : Append(s, e)[i] = s[i]
        /\ Append(s, e)[Len(s) + 1] = e
    BY AppendProperties
  <1>2. Len(s) \in Nat /\ DOMAIN s = 1 .. Len(s) /\ DOMAIN Append(s, e) = 1 .. Len(s) + 1
    BY <1>1, LenProperties
  <1>3. 1 .. Len(s) + 1 = (1 .. Len(s)) \cup {Len(s) + 1}
    BY <1>2
  <1> QED
    BY <1>1, <1>2, <1>3 DEF Items

LEMMA ConcatFacts ==
  ASSUME NEW S, NEW s \in Seq(S), NEW t \in Seq(S)
  PROVE  /\ s \o t \in Seq(S) /\ Len(s \o t) = Len(s) + Len(t)
         /\ DOMAIN (s \o t) = 1 .. Len(s) + Len(t)
         /\ \A i \in 1 .. Len(s) : (s \o t)[i] = s[i]
         /\ \A i \in 1 .. Len(t) : (s \o t)[Len(s) + i] = t[i]
  <1>1. Len(s) \in Nat /\ Len(t) \in Nat
    BY LenProperties
  <1>2. /\ s \o t \in Seq(S) /\ Len(s \o t) = Len(s) + Len(t)
        /\ \A i \in 1 .. Len(s) + Len(t) :
              (s \o t)[i] = IF i <= Len(s) THEN s[i] ELSE t[i - Len(s)]
    BY ConcatProperties
  <1>3. ASSUME NEW i \in 1 .. Len(t) PROVE (s \o t)[Len(s) + i] = t[i]
    <2>1. Len(s) + i \in 1 .. Len(s) + Len(t) /\ ~ (Len(s) + i <= Len(s))
          /\ (Len(s) + i) - Len(s) = i
      BY <1>1
    <2> QED
      BY <1>2, <2>1
  <1>4. DOMAIN (s \o t) = 1 .. Len(s) + Len(t)
    BY <1>2, LenProperties
  <1> QED
    BY <1>1, <1>2, <1>3, <1>4

(* Where an element of a sequence was before one was taken out.             *)
Was(i, j) == IF j < i THEN j ELSE j + 1

LEMMA WithoutFacts ==
  ASSUME NEW S, NEW s \in Seq(S), NEW i \in DOMAIN s
  PROVE  /\ Without(s, i) \in Seq(S) /\ Len(Without(s, i)) = Len(s) - 1
         /\ \A j \in 1 .. Len(s) - 1 : Without(s, i)[j] = s[Was(i, j)]
  <1>1. Len(s) \in Nat /\ DOMAIN s = 1 .. Len(s) /\ i \in 1 .. Len(s)
    BY LenProperties
  <1>2. \A j \in 1 .. Len(s) : s[j] \in S
    BY ElementOfSeq
  <1> DEFINE a == SubSeq(s, 1, i - 1)
             b == SubSeq(s, i + 1, Len(s))
  <1>3. /\ a \in Seq(S) /\ Len(a) = i - 1
        /\ \A j \in 1 .. i - 1 : a[j] = s[j]
    <2>1. \A j \in 1 .. i - 1 : s[j] \in S
      BY <1>1, <1>2
    <2>2. /\ a \in Seq(S) /\ Len(a) = IF 1 <= i - 1 THEN (i - 1) - 1 + 1 ELSE 0
          /\ \A j \in 1 .. (i - 1) - 1 + 1 : a[j] = s[1 + j - 1]
      BY <1>1, <2>1, SubSeqProperties
    <2> HIDE DEF a
    <2> QED
      BY <1>1, <2>2
  <1>4. /\ b \in Seq(S) /\ Len(b) = Len(s) - i
        /\ \A j \in 1 .. Len(s) - i : b[j] = s[i + j]
    <2>1. \A j \in i + 1 .. Len(s) : s[j] \in S
      BY <1>1, <1>2
    <2>2. /\ b \in Seq(S) /\ Len(b) = IF i + 1 <= Len(s) THEN Len(s) - (i + 1) + 1 ELSE 0
          /\ \A j \in 1 .. Len(s) - (i + 1) + 1 : b[j] = s[i + 1 + j - 1]
      BY <1>1, <2>1, SubSeqProperties
    <2> HIDE DEF b
    <2>3. Len(b) = Len(s) - i
      BY <1>1, <2>2
    <2>4. ASSUME NEW j \in 1 .. Len(s) - i PROVE b[j] = s[i + j]
      <3>1. j \in 1 .. Len(s) - (i + 1) + 1 /\ i + 1 + j - 1 = i + j
        BY <1>1
      <3> QED
        BY <2>2, <3>1
    <2> QED
      BY <2>2, <2>3, <2>4
  <1> HIDE DEF a, b
  <1>5. /\ a \o b \in Seq(S) /\ Len(a \o b) = Len(s) - 1
        /\ \A j \in 1 .. Len(s) - 1 : (a \o b)[j] = IF j <= i - 1 THEN a[j] ELSE b[j - (i - 1)]
    <2>1. Len(a) + Len(b) = Len(s) - 1
      BY <1>1, <1>3, <1>4
    <2>2. /\ a \o b \in Seq(S) /\ Len(a \o b) = Len(a) + Len(b)
          /\ \A j \in 1 .. Len(a) + Len(b) :
                (a \o b)[j] = IF j <= Len(a) THEN a[j] ELSE b[j - Len(a)]
      BY <1>3, <1>4, ConcatProperties
    <2>3. Len(a) = i - 1
      BY <1>3
    <2> QED
      BY <2>1, <2>2, <2>3, Zenon
  <1>6. ASSUME NEW j \in 1 .. Len(s) - 1 PROVE (a \o b)[j] = s[Was(i, j)]
    <2>1. CASE j < i
      BY <1>1, <1>3, <1>5, <2>1 DEF Was
    <2>2. CASE ~ (j < i)
      <3>1. j - (i - 1) \in 1 .. Len(s) - i /\ i + (j - (i - 1)) = j + 1
        BY <1>1, <2>2
      <3>2. b[j - (i - 1)] = s[i + (j - (i - 1))]
        BY <1>4, <3>1
      <3>3. (a \o b)[j] = b[j - (i - 1)]
        <4>1. ~ (j <= i - 1)
          BY <1>1, <2>2
        <4> QED
          BY <1>5, <4>1
      <3>4. Was(i, j) = j + 1
        BY <2>2 DEF Was
      <3> QED
        BY <3>1, <3>2, <3>3, <3>4
    <2> QED
      BY <2>1, <2>2
  <1>7. Without(s, i) = a \o b
    BY DEF Without, a, b
  <1> QED
    BY <1>5, <1>6, <1>7

LEMMA TailIsWithout ==
  ASSUME NEW S, NEW s \in Seq(S), s # <<>>
  PROVE  1 \in DOMAIN s /\ Head(s) = s[1] /\ Tail(s) = Without(s, 1)
  <1>1. Len(s) \in Nat /\ DOMAIN s = 1 .. Len(s) /\ Len(s) # 0
    BY LenProperties, EmptySeq
  <1>2. 1 \in DOMAIN s
    BY <1>1
  <1>3. /\ Tail(s) \in Seq(S) /\ Len(Tail(s)) = Len(s) - 1
        /\ \A j \in 1 .. Len(Tail(s)) : Tail(s)[j] = s[j + 1]
    BY HeadTailProperties
  <1>4. /\ Without(s, 1) \in Seq(S) /\ Len(Without(s, 1)) = Len(s) - 1
        /\ \A j \in 1 .. Len(s) - 1 : Without(s, 1)[j] = s[j + 1]
    <2>1. /\ Without(s, 1) \in Seq(S) /\ Len(Without(s, 1)) = Len(s) - 1
          /\ \A j \in 1 .. Len(s) - 1 : Without(s, 1)[j] = s[Was(1, j)]
      BY <1>2, WithoutFacts
    <2>2. \A j \in 1 .. Len(s) - 1 : Was(1, j) = j + 1
      BY <1>1 DEF Was
    <2> QED
      BY <2>1, <2>2
  <1>5. Tail(s) = Without(s, 1)
    BY <1>1, <1>3, <1>4, SeqEqual
  <1> QED
    BY <1>2, <1>5

-----------------------------------------------------------------------------
(* Types.                                                                   *)

LEMMA ContentFacts ==
  ASSUME NEW link \in Links, NEW c \in Contents(link)
  PROVE  c \in ContentType /\ (link = "response" => c.answer \in Answers)
  BY DEF Contents, ContentType, NoContent, Answers, Links, UdsAssumption

LEMMA NoContentType == NoContent \in ContentType
  BY DEF ContentType, NoContent

(* Messages that end with the frame that was just read.                     *)
Fresh(ms) ==
  /\ ms \in Seq(MessageType)
  /\ \A i \in DOMAIN ms :
        /\ ms[i].first <= clock /\ ms[i].last = clock
        /\ ms[i].complete /\ ms[i].link = "response" => ms[i].content.answer \in Answers

(* What a frame of the file does: messages are appended that end now.       *)
Grows(ms) ==
  /\ phase = "frames" /\ next = Len(messages) + 1 /\ phase' \in {"frames", "flushed"}
  /\ clock' \in clock .. MaxClock
  /\ begun' \in [Links -> [first : Nat, busy : BOOLEAN]]
  /\ \A l \in Links : begun'[l].first <= clock'
  /\ Fresh(ms) /\ messages' = messages \o ms
  /\ UNCHANGED <<next, open, results, unmatched>>

LEMMA MessageFacts ==
  ASSUME TypeOK, NEW link \in Links, NEW c, NEW first \in Nat, first <= clock,
         NEW complete \in BOOLEAN, c \in Contents(link) \/ (c = NoContent /\ ~complete)
  PROVE  Fresh(<<Message(link, c, first, complete)>>)
  <1> DEFINE m == Message(link, c, first, complete)
  <1>1. c \in ContentType /\ (complete /\ link = "response" => c.answer \in Answers)
    BY ContentFacts, NoContentType
  <1>2. /\ m \in MessageType /\ m.first = first /\ m.last = clock
        /\ m.complete = complete /\ m.link = link /\ m.content = c
    BY <1>1 DEF TypeOK, Message, MessageType, UdsAssumption
  <1> HIDE DEF m
  <1>3. <<m>> \in Seq(MessageType) /\ DOMAIN <<m>> = {1} /\ <<m>>[1] = m
    BY <1>2
  <1>4. \A i \in DOMAIN <<m>> :
           /\ <<m>>[i].first <= clock /\ <<m>>[i].last = clock
           /\ <<m>>[i].complete /\ <<m>>[i].link = "response"
                 => <<m>>[i].content.answer \in Answers
    BY <1>1, <1>2, <1>3
  <1> QED
    BY <1>3, <1>4 DEF m, Fresh

LEMMA BrokenMessages ==
  ASSUME TypeOK, MessagesInv, NEW link \in Links
  PROVE  Fresh(Broken(link))
  <1>1. begun[link].first \in Nat /\ begun[link].first <= clock
    BY DEF TypeOK, MessagesInv
  <1>2. CASE begun[link].busy
    BY <1>1, <1>2, MessageFacts DEF Broken
  <1>3. CASE ~begun[link].busy
    <2>1. Broken(link) = <<>> /\ <<>> \in Seq(MessageType) /\ DOMAIN <<>> = {}
      BY <1>3 DEF Broken
    <2> QED
      BY <2>1 DEF Fresh
  <1> QED
    BY <1>2, <1>3

LEMMA ConcatMessages ==
  ASSUME TypeOK, NEW a \in Seq(MessageType), NEW b \in Seq(MessageType), NEW P,
         \A i \in DOMAIN a : a[i] \in P, \A i \in DOMAIN b : b[i] \in P
  PROVE  a \o b \in Seq(MessageType) /\ \A i \in DOMAIN (a \o b) : (a \o b)[i] \in P
  <1>1. /\ Len(a) \in Nat /\ DOMAIN a = 1 .. Len(a)
        /\ Len(b) \in Nat /\ DOMAIN b = 1 .. Len(b)
    BY LenProperties
  <1>2. /\ a \o b \in Seq(MessageType) /\ DOMAIN (a \o b) = 1 .. Len(a) + Len(b)
        /\ \A i \in 1 .. Len(a) : (a \o b)[i] = a[i]
        /\ \A i \in 1 .. Len(b) : (a \o b)[Len(a) + i] = b[i]
    BY ConcatFacts
  <1>3. ASSUME NEW i \in DOMAIN (a \o b) PROVE (a \o b)[i] \in P
    <2>1. CASE i \in 1 .. Len(a)
      BY <1>1, <1>2, <2>1
    <2>2. CASE i \notin 1 .. Len(a)
      <3>1. PICK k \in 1 .. Len(b) : i = Len(a) + k
        <4>1. i - Len(a) \in 1 .. Len(b) /\ i = Len(a) + (i - Len(a))
          BY <1>1, <1>2, <2>2
        <4> QED
          BY <4>1
      <3> QED
        BY <1>1, <1>2, <3>1
    <2> QED
      BY <2>1, <2>2
  <1> QED
    BY <1>2, <1>3

(* Every frame of the file, and the end of it, is growth.                   *)
LEMMA FrameGrows ==
  ASSUME TypeOK, MessagesInv, Frame
  PROVE  \E ms : Grows(ms)
  <1>1. Reading
    BY DEF Frame, Elapse, EndOfCapture, SingleFrame, FirstFrame, LastFrame, WrongFrame,
           StrayFrame
  <1>2. phase = "frames" /\ next = Len(messages) + 1
    <2>1. Len(messages) \in Nat
      BY LenProperties DEF TypeOK
    <2> QED
      BY <1>1, <2>1 DEF Reading, TypeOK
  <1>3. /\ clock \in Nat /\ MaxClock \in Nat /\ clock <= MaxClock /\ clock <= clock
        /\ \A l \in Links : begun[l].first \in Nat /\ begun[l].first <= clock
    BY UdsAssumption DEF TypeOK, MessagesInv
  <1>4. CASE Elapse
    <2>1. /\ Fresh(<<>>) /\ messages' = messages \o <<>> /\ phase' = phase
          /\ UNCHANGED <<next, open, results, unmatched>>
      <3>1. <<>> \in Seq(MessageType) /\ DOMAIN <<>> = {}
        OBVIOUS
      <3>2. messages \o <<>> = messages
        BY ConcatEmptySeq DEF TypeOK
      <3> QED
        BY <1>4, <3>1, <3>2 DEF Elapse, Fresh
    <2>2. /\ clock' \in clock .. MaxClock /\ begun' = begun
          /\ \A l \in Links : begun'[l].first <= clock'
      BY <1>3, <1>4 DEF Elapse
    <2>3. Grows(<<>>)
      BY <1>2, <2>1, <2>2 DEF Grows, TypeOK
    <2> QED
      BY <2>3
  <1>5. ASSUME NEW ms, Fresh(ms), Reads(ms), UNCHANGED clock,
               begun' \in [Links -> [first : Nat, busy : BOOLEAN]],
               \A l \in Links : begun'[l].first <= clock
        PROVE  \E s : Grows(s)
    <2>1. Grows(ms)
      BY <1>2, <1>3, <1>5 DEF Grows, Reads
    <2> QED
      BY <2>1
  <1>6. ASSUME NEW link \in Links, SingleFrame(link) PROVE \E ms : Grows(ms)
    <2>1. PICK c \in Contents(link) : Reads(<<Message(link, c, clock, TRUE)>>)
      BY <1>6 DEF SingleFrame
    <2>2. Fresh(<<Message(link, c, clock, TRUE)>>)
      BY <1>3, MessageFacts
    <2> QED
      BY <1>3, <1>5, <1>6, <2>1, <2>2 DEF SingleFrame, TypeOK
  <1>7. ASSUME NEW link \in Links, FirstFrame(link) PROVE \E ms : Grows(ms)
    <2>1. Fresh(Broken(link)) /\ Reads(Broken(link))
      BY <1>7, BrokenMessages DEF FirstFrame
    <2>2. /\ begun' \in [Links -> [first : Nat, busy : BOOLEAN]]
          /\ \A l \in Links : begun'[l].first <= clock
      BY <1>3, <1>7 DEF FirstFrame, TypeOK
    <2> QED
      BY <1>5, <1>7, <2>1, <2>2 DEF FirstFrame
  <1>8. ASSUME NEW link \in Links, begun' = [begun EXCEPT ![link] = NoSession]
        PROVE  /\ begun' \in [Links -> [first : Nat, busy : BOOLEAN]]
               /\ \A l \in Links : begun'[l].first <= clock
    BY <1>3, <1>8 DEF NoSession, TypeOK
  <1>9. ASSUME NEW link \in Links, LastFrame(link) PROVE \E ms : Grows(ms)
    <2>1. PICK c \in Contents(link) : Reads(<<Message(link, c, begun[link].first, TRUE)>>)
      BY <1>9 DEF LastFrame
    <2>2. Fresh(<<Message(link, c, begun[link].first, TRUE)>>)
      BY <1>3, MessageFacts
    <2> QED
      BY <1>5, <1>8, <1>9, <2>1, <2>2 DEF LastFrame
  <1>10. ASSUME NEW link \in Links, WrongFrame(link) PROVE \E ms : Grows(ms)
    <2>1. Fresh(Broken(link)) /\ Reads(Broken(link))
      BY <1>10, BrokenMessages DEF WrongFrame
    <2> QED
      BY <1>5, <1>8, <1>10, <2>1 DEF WrongFrame
  <1>11. ASSUME NEW link \in Links, StrayFrame(link) PROVE \E ms : Grows(ms)
    <2>1. Fresh(<<Message(link, NoContent, clock, FALSE)>>)
      BY <1>3, MessageFacts
    <2> QED
      BY <1>3, <1>5, <1>11, <2>1 DEF StrayFrame, TypeOK
  <1>12. CASE EndOfCapture
    <2> DEFINE a == Broken("request")
               b == Broken("response")
               P == {m \in MessageType :
                       /\ m.first <= clock /\ m.last = clock
                       /\ m.complete /\ m.link = "response" => m.content.answer \in Answers}
    <2>1. /\ a \in Seq(MessageType) /\ b \in Seq(MessageType)
          /\ \A i \in DOMAIN a : a[i] \in P
          /\ \A i \in DOMAIN b : b[i] \in P
      <3>1. ASSUME NEW link \in Links
            PROVE  /\ Broken(link) \in Seq(MessageType)
                   /\ \A i \in DOMAIN Broken(link) : Broken(link)[i] \in P
        BY BrokenMessages, SeqFacts DEF Fresh
      <3> QED
        BY <3>1 DEF Links
    <2>2. a \o b \in Seq(MessageType) /\ \A i \in DOMAIN (a \o b) : (a \o b)[i] \in P
      <3> HIDE DEF a, b, P
      <3> QED
        BY <2>1, ConcatMessages
    <2>3. Fresh(a \o b)
      <3> HIDE DEF a, b
      <3> QED
        BY <2>2 DEF Fresh
    <2>4. messages' = messages \o (a \o b)
      <3>1. messages' = (messages \o a) \o b
        BY <1>12 DEF EndOfCapture
      <3>2. messages \in Seq(MessageType)
        BY DEF TypeOK
      <3> HIDE DEF a, b
      <3> QED
        BY <2>1, <3>1, <3>2, ConcatAssociative
    <2>5. /\ begun' \in [Links -> [first : Nat, busy : BOOLEAN]]
          /\ \A l \in Links : begun'[l].first <= clock
      BY <1>3, <1>12 DEF EndOfCapture, NoSession
    <2>6. /\ phase' = "flushed" /\ clock' = clock
          /\ UNCHANGED <<next, open, results, unmatched>>
      BY <1>12 DEF EndOfCapture
    <2>7. clock' \in clock .. MaxClock /\ \A l \in Links : begun'[l].first <= clock'
      BY <1>3, <2>5, <2>6
    <2>8. Grows(a \o b)
      <3> HIDE DEF a, b
      <3> QED
        BY <1>2, <2>3, <2>4, <2>5, <2>6, <2>7 DEF Grows
    <2> QED
      BY <2>8
  <1> QED
    BY <1>4, <1>6, <1>7, <1>9, <1>10, <1>11, <1>12 DEF Frame

LEMMA GrowthFacts ==
  ASSUME TypeOK, NEW ms, Grows(ms)
  PROVE  /\ messages' \in Seq(MessageType)
         /\ Len(messages) \in Nat /\ Len(messages') \in Nat
         /\ Len(messages) <= Len(messages')
         /\ DOMAIN messages = 1 .. Len(messages) /\ DOMAIN messages' = 1 .. Len(messages')
         /\ \A i \in 1 .. Len(messages) : messages'[i] = messages[i]
         /\ \A i \in Len(messages) + 1 .. Len(messages') :
               /\ messages'[i].first <= clock /\ messages'[i].last = clock
               /\ messages'[i].complete /\ messages'[i].link = "response"
                    => messages'[i].content.answer \in Answers
  <1>1. messages \in Seq(MessageType) /\ ms \in Seq(MessageType)
    BY DEF TypeOK, Grows, Fresh
  <1>2. /\ Len(messages) \in Nat /\ DOMAIN messages = 1 .. Len(messages)
        /\ Len(ms) \in Nat /\ DOMAIN ms = 1 .. Len(ms)
    BY <1>1, LenProperties
  <1>3. /\ messages' \in Seq(MessageType) /\ Len(messages') = Len(messages) + Len(ms)
        /\ DOMAIN messages' = 1 .. Len(messages) + Len(ms)
        /\ \A i \in 1 .. Len(messages) : messages'[i] = messages[i]
        /\ \A i \in 1 .. Len(ms) : messages'[Len(messages) + i] = ms[i]
    BY <1>1, ConcatFacts DEF Grows
  <1>4. ASSUME NEW i \in Len(messages) + 1 .. Len(messages')
        PROVE  \E k \in DOMAIN ms : messages'[i] = ms[k]
    <2>1. i - Len(messages) \in 1 .. Len(ms) /\ Len(messages) + (i - Len(messages)) = i
      BY <1>2, <1>3
    <2> QED
      BY <1>2, <1>3, <2>1
  <1>5. \A k \in DOMAIN ms :
           /\ ms[k].first <= clock /\ ms[k].last = clock
           /\ ms[k].complete /\ ms[k].link = "response" => ms[k].content.answer \in Answers
    BY DEF Grows, Fresh
  <1> QED
    BY <1>2, <1>3, <1>4, <1>5

LEMMA GrowsType ==
  ASSUME TypeOK, NEW ms, Grows(ms)
  PROVE  TypeOK'
  <1>1. clock' \in 0 .. MaxClock /\ phase' \in {"frames", "flushed", "done"}
    BY UdsAssumption DEF TypeOK, Grows
  <1>2. messages' \in Seq(MessageType) /\ next' \in 1 .. Len(messages') + 1
    <2>1. next' = next /\ next \in 1 .. Len(messages) + 1
      BY DEF TypeOK, Grows
    <2>2. /\ messages' \in Seq(MessageType) /\ Len(messages) \in Nat
          /\ Len(messages') \in Nat /\ Len(messages) <= Len(messages')
      BY GrowthFacts
    <2> QED
      BY <2>1, <2>2
  <1> QED
    BY <1>1, <1>2 DEF TypeOK, Grows, results

(* A transaction that is finalized: its request leaves the open ones.       *)
Leaves(i, t) ==
  /\ i \in DOMAIN open /\ open' = Without(open, i)
  /\ t \in DoneType /\ done' = Append(done, t)
  /\ t.request = open[i].request /\ t.pendings = open[i].pendings
  /\ t.reference = open[i].reference
  /\ tally' = [tally EXCEPT ![t.status] = @ + 1,
                            !["slow"] = IF t.pendings # <<>> THEN @ + 1 ELSE @]
  /\ Retain(t, Len(done) + 1)
  /\ UNCHANGED <<session, phase, unmatched>>

(* Without an answer, because the time is over or the capture is.           *)
Drops(i, t) ==
  /\ Leaves(i, t) /\ next' = next /\ t.first = open[i].first /\ t.final = 0
  /\ t.status \in {"timeout", "ended", "suppressed"}
  /\ t.status = "suppressed" => t.first = 0
  /\ t.status = "timeout" => clock >= t.reference + Timeout
  /\ t.status = "ended" => clock < t.reference + Timeout /\ phase # "frames"
  /\ \/ next <= Len(messages) /\ messages[next].first >= t.reference + Timeout
     \/ next = Len(messages) + 1 /\ phase # "frames"

(* With one.                                                                *)
Pairs(i, t) ==
  /\ Leaves(i, t) /\ Response /\ Fits(i) /\ t.final = next
  /\ t.first = IF open[i].first = 0 THEN next ELSE open[i].first
  /\ t.status = messages[next].content.answer /\ t.status # "pending"

LEMMA TransactionFacts ==
  ASSUME NEW o \in OpenType, NEW status \in Statuses, NEW final \in Nat
  PROVE  LET t == Transaction(o, status, final)
         IN  /\ t \in DoneType /\ t.request = o.request /\ t.pendings = o.pendings
             /\ t.reference = o.reference /\ t.first = o.first
             /\ t.final = final /\ t.status = status
  BY DEF Transaction, OpenType, DoneType

LEMMA FinalizeLeaves ==
  ASSUME TypeOK, NEW i \in DOMAIN open, NEW o \in OpenType,
         o.request = open[i].request, o.pendings = open[i].pendings,
         o.reference = open[i].reference, NEW status \in Statuses, NEW final \in Nat,
         Finalize(o, status, final), open' = Without(open, i),
         UNCHANGED <<session, phase, unmatched>>
  PROVE  Leaves(i, Transaction(o, status, final))
  <1> DEFINE t == Transaction(o, status, final)
  <1>1. /\ t \in DoneType /\ t.request = o.request /\ t.pendings = o.pendings
        /\ t.reference = o.reference /\ t.status = status
    BY TransactionFacts
  <1>2. done' = Append(done, t) /\ tally' = Counted(o, status) /\ Retain(t, Len(done) + 1)
    BY DEF Finalize
  <1> HIDE DEF t
  <1>3. tally' = [tally EXCEPT ![t.status] = @ + 1,
                               !["slow"] = IF t.pendings # <<>> THEN @ + 1 ELSE @]
    BY <1>1, <1>2 DEF Counted
  <1>4. Leaves(i, t)
    BY <1>1, <1>2, <1>3 DEF Leaves
  <1> QED
    BY <1>4 DEF t

LEMMA OpenFacts ==
  ASSUME TypeOK
  PROVE  /\ Len(open) \in Nat /\ DOMAIN open = 1 .. Len(open)
         /\ \A i \in DOMAIN open : open[i] \in OpenType
         /\ Len(done) \in Nat /\ DOMAIN done = 1 .. Len(done)
         /\ \A n \in DOMAIN done : done[n] \in DoneType
         /\ Len(messages) \in Nat /\ DOMAIN messages = 1 .. Len(messages)
         /\ \A k \in DOMAIN messages : messages[k] \in MessageType
         /\ next \in Nat /\ next >= 1 /\ next <= Len(messages) + 1
         /\ clock \in Nat
  BY SeqFacts, UdsAssumption DEF TypeOK

LEMMA SilentFacts ==
  ASSUME NEW o
  PROVE  /\ Silent(o) \in {"suppressed", "timeout"}
         /\ Silent(o) = "suppressed" => o.first = 0
  BY DEF Silent

LEMMA ExpireDrops ==
  ASSUME TypeOK, MessagesInv, Expire
  PROVE  \E i, t : Drops(i, t)
  <1>1. PICK i \in DOMAIN open :
           /\ IsFirst(i, open, LAMBDA o : Overdue(o, messages[next].first))
           /\ Finalize(open[i], Silent(open[i]), 0)
           /\ open' = Without(open, i)
    BY DEF Expire
  <1>2. /\ open[i] \in OpenType /\ next \in DOMAIN messages /\ next <= Len(messages)
        /\ UNCHANGED <<session, next, phase, unmatched>>
    BY OpenFacts DEF Expire, Busy
  <1>3. Overdue(open[i], messages[next].first)
    BY <1>1 DEF IsFirst
  <1>4. /\ messages[next].first >= open[i].reference + Timeout
        /\ clock >= open[i].reference + Timeout
    <2>1. messages[next].first >= open[i].reference + Timeout
      BY <1>3 DEF Overdue
    <2>2. messages[next].first <= clock
      <3>1. /\ messages[next].first <= messages[next].last /\ messages[next].last <= clock
        BY <1>2 DEF MessagesInv
      <3>2. messages[next].first \in Nat /\ messages[next].last \in Nat /\ clock \in Nat
        BY <1>2, OpenFacts DEF MessageType
      <3> QED
        BY <3>1, <3>2
    <2>3. /\ messages[next].first \in Nat /\ clock \in Nat /\ open[i].reference \in Nat
          /\ Timeout \in Nat
      BY <1>2, OpenFacts, UdsAssumption DEF MessageType, OpenType
    <2> QED
      BY <2>1, <2>2, <2>3
  <1> DEFINE t == Transaction(open[i], Silent(open[i]), 0)
  <1>5. Silent(open[i]) \in Statuses
    BY SilentFacts DEF Statuses
  <1>6. /\ t.reference = open[i].reference /\ t.first = open[i].first
        /\ t.final = 0 /\ t.status = Silent(open[i])
    BY <1>2, <1>5, TransactionFacts
  <1>7. Leaves(i, t)
    BY <1>1, <1>2, <1>5, FinalizeLeaves
  <1> HIDE DEF t
  <1>8. Drops(i, t)
    BY <1>2, <1>4, <1>6, <1>7, SilentFacts DEF Drops
  <1> QED
    BY <1>8

LEMMA CloseDrops ==
  ASSUME TypeOK, Close
  PROVE  \E i, t : Drops(i, t)
  <1> DEFINE o == Head(open)
             status == IF Silent(o) = "timeout" /\ ~Overdue(o, clock) THEN "ended"
                                                                     ELSE Silent(o)
             t == Transaction(o, status, 0)
  <1>1. open # <<>> /\ phase = "flushed" /\ next = Len(messages) + 1
    BY OpenFacts DEF Close, Busy
  <1>2. 1 \in DOMAIN open /\ o = open[1] /\ Tail(open) = Without(open, 1)
    BY <1>1, TailIsWithout DEF TypeOK
  <1>3. o \in OpenType /\ status \in Statuses
    BY <1>2, OpenFacts, SilentFacts DEF Statuses
  <1>4. Finalize(o, status, 0) /\ open' = Without(open, 1)
        /\ UNCHANGED <<session, next, phase, unmatched>>
    BY <1>2 DEF Close
  <1> HIDE DEF status
  <1>5. /\ t.reference = o.reference /\ t.first = o.first
        /\ t.final = 0 /\ t.status = status
    BY <1>3, TransactionFacts
  <1>6. Leaves(1, t)
    BY <1>2, <1>3, <1>4, FinalizeLeaves
  <1>7. /\ status = "timeout" => clock >= o.reference + Timeout
        /\ status = "ended" => clock < o.reference + Timeout
    <2>1. clock \in Nat /\ o.reference \in Nat /\ Timeout \in Nat
      BY <1>3, OpenFacts, UdsAssumption DEF OpenType
    <2> QED
      BY <2>1, SilentFacts DEF status, Overdue
  <1>8. status \in {"timeout", "ended", "suppressed"} /\ (status = "suppressed" => o.first = 0)
    BY SilentFacts DEF status
  <1> HIDE DEF t, o
  <1>9. Drops(1, t)
    BY <1>1, <1>2, <1>4, <1>5, <1>6, <1>7, <1>8 DEF Drops
  <1> QED
    BY <1>9

LEMMA FinalAnswers ==
  ASSUME TypeOK, MessagesInv, FinalResponse
  PROVE  \E i, t : Pairs(i, t)
  <1>1. PICK i \in DOMAIN open :
           /\ Fits(i)
           /\ Finalize(Answered(open[i]), messages[next].content.answer, next)
           /\ open' = Without(open, i)
    BY DEF FinalResponse
  <1>2. /\ open[i] \in OpenType /\ next \in DOMAIN messages /\ next \in Nat
        /\ messages[next].content.answer \in {"positive", "negative"}
    <2>1. next \in DOMAIN messages /\ messages[next].complete /\ messages[next].link = "response"
      BY OpenFacts DEF FinalResponse, Response, Passes, Busy
    <2>2. messages[next].content.answer \in Answers
      BY <2>1 DEF MessagesInv
    <2> QED
      BY <2>1, <2>2, OpenFacts DEF FinalResponse, Answers
  <1> DEFINE o == Answered(open[i])
             t == Transaction(o, messages[next].content.answer, next)
  <1>3. /\ o \in OpenType /\ o.request = open[i].request /\ o.pendings = open[i].pendings
        /\ o.reference = open[i].reference
        /\ o.first = IF open[i].first = 0 THEN next ELSE open[i].first
    BY <1>2 DEF Answered, OpenType
  <1>4. messages[next].content.answer \in Statuses
    BY <1>2 DEF Statuses
  <1>5. UNCHANGED <<session, phase, unmatched>>
    BY DEF FinalResponse, Response, Passes
  <1> HIDE DEF o
  <1>6. Leaves(i, t)
    BY <1>1, <1>2, <1>3, <1>4, <1>5, FinalizeLeaves DEF o
  <1>7. t.first = o.first /\ t.final = next /\ t.status = messages[next].content.answer
    BY <1>2, <1>3, <1>4, TransactionFacts
  <1>8. Response
    BY DEF FinalResponse
  <1> HIDE DEF t
  <1>9. Pairs(i, t)
    BY <1>1, <1>2, <1>3, <1>6, <1>7, <1>8 DEF Pairs
  <1> QED
    BY <1>9

(* The places of the open requests and of the transactions after one has    *)
(* left.                                                                    *)
LEMMA LeavesPlaces ==
  ASSUME TypeOK, NEW i, NEW t, Leaves(i, t)
  PROVE  /\ i \in 1 .. Len(open) /\ t \in DoneType
         /\ open' \in Seq(OpenType) /\ Len(open') = Len(open) - 1
         /\ DOMAIN open' = 1 .. Len(open) - 1
         /\ \A j \in DOMAIN open' :
               Was(i, j) \in DOMAIN open /\ Was(i, j) # i /\ open'[j] = open[Was(i, j)]
         /\ \A j, k \in DOMAIN open' :
               /\ j < k => Was(i, j) < Was(i, k)
               /\ j # k => Was(i, j) # Was(i, k)
         /\ \A k \in DOMAIN open : k # i => \E j \in DOMAIN open' : open'[j] = open[k]
         /\ done' \in Seq(DoneType) /\ Len(done') = Len(done) + 1
         /\ DOMAIN done' = 1 .. Len(done) + 1
         /\ \A n \in DOMAIN done : n \in DOMAIN done' /\ done'[n] = done[n]
         /\ Len(done) + 1 \in DOMAIN done' /\ done'[Len(done) + 1] = t
         /\ \A n \in DOMAIN done' : n \in DOMAIN done \/ n = Len(done) + 1
         /\ Len(done) + 1 \notin DOMAIN done
  <1>1. open \in Seq(OpenType) /\ done \in Seq(DoneType)
    BY DEF TypeOK
  <1>2. /\ Len(open) \in Nat /\ DOMAIN open = 1 .. Len(open)
        /\ Len(done) \in Nat /\ DOMAIN done = 1 .. Len(done)
    BY OpenFacts
  <1>3. i \in DOMAIN open /\ t \in DoneType /\ open' = Without(open, i) /\ done' = Append(done, t)
    BY DEF Leaves
  <1>4. /\ open' \in Seq(OpenType) /\ Len(open') = Len(open) - 1
        /\ \A j \in 1 .. Len(open) - 1 : open'[j] = open[Was(i, j)]
    BY <1>1, <1>3, WithoutFacts
  <1>5. DOMAIN open' = 1 .. Len(open) - 1
    BY <1>2, <1>4, LenProperties
  <1>6. \A j \in 1 .. Len(open) - 1 : Was(i, j) \in DOMAIN open /\ Was(i, j) # i
    BY <1>2, <1>3 DEF Was
  <1>7. \A j, k \in 1 .. Len(open) - 1 :
           /\ j < k => Was(i, j) < Was(i, k)
           /\ j # k => Was(i, j) # Was(i, k)
    BY <1>2, <1>3 DEF Was
  <1>8. ASSUME NEW k \in DOMAIN open, k # i
        PROVE  \E j \in 1 .. Len(open) - 1 : Was(i, j) = k
    <2>1. CASE k < i
      <3>1. k \in 1 .. Len(open) - 1 /\ Was(i, k) = k
        BY <1>2, <1>3, <2>1 DEF Was
      <3> QED
        BY <3>1
    <2>2. CASE ~ (k < i)
      <3>1. k - 1 \in 1 .. Len(open) - 1 /\ Was(i, k - 1) = k
        BY <1>2, <1>3, <1>8, <2>2 DEF Was
      <3> QED
        BY <3>1
    <2> QED
      BY <2>1, <2>2
  <1>9. /\ done' \in Seq(DoneType) /\ Len(done') = Len(done) + 1
        /\ DOMAIN done' = 1 .. Len(done) + 1
        /\ \A n \in 1 .. Len(done) : done'[n] = done[n]
        /\ done'[Len(done) + 1] = t
    BY <1>1, <1>3, AppendFacts
  <1>10. /\ \A n \in DOMAIN done : n \in 1 .. Len(done) + 1
         /\ \A n \in 1 .. Len(done) + 1 : n \in DOMAIN done \/ n = Len(done) + 1
         /\ Len(done) + 1 \in 1 .. Len(done) + 1
         /\ Len(done) + 1 \notin DOMAIN done
    BY <1>2
  <1>11. /\ \A j \in DOMAIN open' :
               Was(i, j) \in DOMAIN open /\ Was(i, j) # i /\ open'[j] = open[Was(i, j)]
         /\ \A k \in DOMAIN open : k # i => \E j \in DOMAIN open' : open'[j] = open[k]
    BY <1>4, <1>5, <1>6, <1>8
  <1>12. \A n \in DOMAIN done : done'[n] = done[n]
    BY <1>2, <1>9
  <1> QED
    BY <1>2, <1>3, <1>4, <1>5, <1>7, <1>9, <1>10, <1>11, <1>12

LEMMA RetainType ==
  ASSUME TypeOK, NEW t, NEW n, Retain(t, n)
  PROVE  evidence' \subseteq evidence \cup {n} /\ truncated' \in BOOLEAN
  BY DEF Retain, TypeOK

LEMMA TallyType ==
  ASSUME TypeOK, NEW status \in Statuses, NEW b \in BOOLEAN,
         tally' = [tally EXCEPT ![status] = @ + 1, !["slow"] = IF b THEN @ + 1 ELSE @]
  PROVE  /\ tally' \in [Counters -> Nat]
         /\ \A s \in Statuses : tally'[s] = IF s = status THEN tally[s] + 1 ELSE tally[s]
         /\ tally'["slow"] = IF b THEN tally["slow"] + 1 ELSE tally["slow"]
         /\ \A c \in {"requests", "pending", "unmatched", "incomplete"} : tally'[c] = tally[c]
  <1>1. tally \in [Counters -> Nat] /\ Statuses \subseteq Counters
    BY DEF TypeOK, Counters, Statuses
  <1>2. /\ "slow" \in Counters /\ "slow" \notin Statuses
        /\ \A c \in {"requests", "pending", "unmatched", "incomplete"} :
              c \in Counters /\ c \notin Statuses /\ c # "slow"
    BY DEF Counters, Statuses
  <1>3. status # "slow" /\ status \in Counters
    BY <1>1, <1>2
  <1>4. tally' \in [Counters -> Nat]
    BY <1>1, <1>2, <1>3
  <1>5. tally'["slow"] = IF b THEN tally["slow"] + 1 ELSE tally["slow"]
    BY <1>1, <1>2, <1>3
  <1>6. tally'[status] = tally[status] + 1
    BY <1>1, <1>2, <1>3
  <1>7. \A c \in Counters : c # status /\ c # "slow" => tally'[c] = tally[c]
    BY <1>1, <1>2, <1>3
  <1> QED
    BY <1>1, <1>2, <1>3, <1>4, <1>5, <1>6, <1>7

LEMMA LeavesType ==
  ASSUME TypeOK, NEW i, NEW t, Leaves(i, t), next' \in 1 .. Len(messages) + 1
  PROVE  TypeOK'
  <1>1. UNCHANGED <<clock, begun, messages, phase, unmatched>>
    BY DEF Leaves, session
  <1>2. open' \in Seq(OpenType) /\ done' \in Seq(DoneType)
    BY LeavesPlaces
  <1>3. tally' \in [Counters -> Nat]
    <2>1. t.status \in Statuses
      BY DEF Leaves, DoneType
    <2>2. tally' = [tally EXCEPT ![t.status] = @ + 1,
                                 !["slow"] = IF t.pendings # <<>> THEN @ + 1 ELSE @]
      BY DEF Leaves
    <2> QED
      BY <2>1, <2>2, TallyType
  <1>4. evidence' \subseteq DOMAIN done' /\ truncated' \in BOOLEAN
    <2>1. evidence' \subseteq evidence \cup {Len(done) + 1} /\ truncated' \in BOOLEAN
      BY RetainType DEF Leaves
    <2>2. evidence \subseteq DOMAIN done
      BY DEF TypeOK
    <2>3. DOMAIN done \subseteq DOMAIN done' /\ Len(done) + 1 \in DOMAIN done'
      BY LeavesPlaces
    <2> QED
      BY <2>1, <2>2, <2>3
  <1> QED
    BY <1>1, <1>2, <1>3, <1>4 DEF TypeOK

LEMMA InitType == Init => TypeOK
  <1> SUFFICES ASSUME Init PROVE TypeOK
    OBVIOUS
  <1>1. <<>> \in Seq(MessageType) /\ <<>> \in Seq(OpenType) /\ <<>> \in Seq(DoneType)
        /\ <<>> \in Seq(Nat) /\ Len(<<>>) = 0
    OBVIOUS
  <1>2. NoCounts \in [Counters -> Nat]
    BY DEF NoCounts, Counters
  <1>3. [l \in Links |-> NoSession] \in [Links -> [first : Nat, busy : BOOLEAN]]
    BY DEF NoSession
  <1>4. clock \in 0 .. MaxClock /\ next \in 1 .. Len(messages) + 1
    BY <1>1, UdsAssumption DEF Init
  <1> QED
    BY <1>1, <1>2, <1>3, <1>4 DEF Init, TypeOK

(* What opening and answering with a pending response do to the open ones.  *)
LEMMA OpensPlaces ==
  ASSUME TypeOK, OpenRequest
  PROVE  /\ open' \in Seq(OpenType) /\ Len(open') = Len(open) + 1
         /\ DOMAIN open' = 1 .. Len(open) + 1
         /\ \A j \in DOMAIN open : j \in DOMAIN open' /\ open'[j] = open[j]
         /\ Len(open) + 1 \in DOMAIN open'
         /\ open'[Len(open) + 1] = [request |-> next, reference |-> messages[next].last,
                                    first |-> 0, pendings |-> <<>>]
         /\ \A j \in DOMAIN open' : j \in DOMAIN open \/ j = Len(open) + 1
         /\ Len(open) + 1 \notin DOMAIN open
  <1> DEFINE o == [request |-> next, reference |-> messages[next].last,
                   first |-> 0, pendings |-> <<>>]
  <1>1. open' = Append(open, o)
    BY DEF OpenRequest
  <1>2. o \in OpenType
    <2>1. next \in DOMAIN messages /\ next \in Nat
      BY OpenFacts DEF OpenRequest, Passes, Busy
    <2>2. messages[next] \in MessageType
      BY <2>1, OpenFacts
    <2>3. messages[next].last \in Nat /\ <<>> \in Seq(Nat)
      BY <2>2 DEF MessageType
    <2> QED
      BY <2>1, <2>3 DEF OpenType
  <1> HIDE DEF o
  <1>3. /\ open' \in Seq(OpenType) /\ Len(open') = Len(open) + 1
        /\ DOMAIN open' = 1 .. Len(open) + 1
        /\ \A j \in 1 .. Len(open) : open'[j] = open[j]
        /\ open'[Len(open) + 1] = o
    BY <1>1, <1>2, AppendFacts DEF TypeOK
  <1>4. Len(open) \in Nat /\ DOMAIN open = 1 .. Len(open)
    BY OpenFacts
  <1>5. /\ \A j \in 1 .. Len(open) : j \in 1 .. Len(open) + 1
        /\ \A j \in 1 .. Len(open) + 1 : j \in 1 .. Len(open) \/ j = Len(open) + 1
        /\ Len(open) + 1 \in 1 .. Len(open) + 1 /\ Len(open) + 1 \notin 1 .. Len(open)
    BY <1>4
  <1> QED
    BY <1>3, <1>4, <1>5 DEF o

Pends(i) ==
  /\ Response /\ Fits(i) /\ i \in DOMAIN open
  /\ messages[next].content.answer = "pending"
  /\ open' \in Seq(OpenType) /\ Len(open') = Len(open) /\ DOMAIN open' = DOMAIN open
  /\ \A j \in DOMAIN open : j # i => open'[j] = open[j]
  /\ open'[i].request = open[i].request
  /\ open'[i].first = IF open[i].first = 0 THEN next ELSE open[i].first
  /\ Items(open'[i].pendings) = Items(open[i].pendings) \cup {next}
  /\ open'[i].pendings # <<>>
  /\ tally' = [tally EXCEPT !["pending"] = @ + 1]
  /\ UNCHANGED <<done, evidence, truncated, unmatched>>

LEMMA PendingPends ==
  ASSUME TypeOK, ResponsePending
  PROVE  \E i : Pends(i)
  <1>1. PICK i \in DOMAIN open :
          /\ Fits(i)
          /\ open' = [open EXCEPT ![i] =
                [Answered(open[i]) EXCEPT !.pendings = Append(@, next),
                                          !.reference = messages[next].first]]
    BY DEF ResponsePending
  <1> DEFINE o == Answered(open[i])
             p == [o EXCEPT !.pendings = Append(@, next), !.reference = messages[next].first]
  <1>2. /\ open[i] \in OpenType /\ next \in Nat /\ messages[next].first \in Nat
    <2>1. next \in DOMAIN messages /\ next \in Nat
      BY OpenFacts DEF ResponsePending, Response, Passes, Busy
    <2>2. messages[next] \in MessageType
      BY <2>1, OpenFacts
    <2> QED
      BY <2>1, <2>2, OpenFacts DEF MessageType
  <1>3. /\ o \in OpenType /\ o.request = open[i].request /\ o.pendings = open[i].pendings
        /\ o.first = IF open[i].first = 0 THEN next ELSE open[i].first
    BY <1>2 DEF Answered, OpenType
  <1>4. open[i].pendings \in Seq(Nat)
    BY <1>2 DEF OpenType
  <1>5. /\ Append(open[i].pendings, next) \in Seq(Nat)
        /\ Items(Append(open[i].pendings, next)) = Items(open[i].pendings) \cup {next}
        /\ Append(open[i].pendings, next) # <<>>
    <2>1. Len(Append(open[i].pendings, next)) = Len(open[i].pendings) + 1
          /\ Len(open[i].pendings) \in Nat
      BY <1>2, <1>4, AppendFacts, LenProperties
    <2>2. Append(open[i].pendings, next) # <<>>
      BY <2>1
    <2> QED
      BY <1>2, <1>4, <2>2, AppendFacts
  <1> HIDE DEF o
  <1>6. /\ p \in OpenType /\ p.request = o.request /\ p.first = o.first
        /\ p.pendings = Append(o.pendings, next)
    BY <1>2, <1>3, <1>5 DEF OpenType
  <1>7. open' = [open EXCEPT ![i] = p]
    BY <1>1 DEF o
  <1> HIDE DEF p
  <1>8. /\ open' \in Seq(OpenType) /\ Len(open') = Len(open)
        /\ \A j \in 1 .. Len(open) : open'[j] = IF j = i THEN p ELSE open[j]
    <2>1. open \in Seq(OpenType) /\ i \in 1 .. Len(open)
      BY OpenFacts DEF TypeOK
    <2> QED
      BY <1>6, <1>7, <2>1, ExceptSeq
  <1>9. DOMAIN open' = DOMAIN open /\ DOMAIN open = 1 .. Len(open)
    BY <1>8, OpenFacts, LenProperties
  <1>10. tally' = [tally EXCEPT !["pending"] = @ + 1]
         /\ UNCHANGED <<done, evidence, truncated, unmatched>>
         /\ Response /\ messages[next].content.answer = "pending"
    BY DEF ResponsePending
  <1>11. Pends(i)
    BY <1>1, <1>3, <1>5, <1>6, <1>8, <1>9, <1>10 DEF Pends
  <1> QED
    BY <1>11

(* One more of one counter.                                                 *)
LEMMA OneMore ==
  ASSUME TypeOK, NEW c \in Counters, tally' = [tally EXCEPT ![c] = @ + 1]
  PROVE  /\ tally' \in [Counters -> Nat] /\ tally'[c] = tally[c] + 1
         /\ \A d \in Counters : d # c => tally'[d] = tally[d]
  BY DEF TypeOK

LEMMA PassesFacts ==
  ASSUME TypeOK, Passes
  PROVE  /\ next \in DOMAIN messages /\ next \in Nat /\ next >= 1 /\ next <= Len(messages)
         /\ next' = next + 1 /\ next' \in 1 .. Len(messages) + 1
         /\ UNCHANGED <<clock, begun, messages, phase>>
  BY OpenFacts DEF Passes, Busy, session

LEMMA NextType == TypeOK /\ MessagesInv /\ [Next]_vars => TypeOK'
  <1> SUFFICES ASSUME TypeOK, MessagesInv, [Next]_vars PROVE TypeOK'
    OBVIOUS
  <1>1. CASE Frame
    BY <1>1, FrameGrows, GrowsType
  <1>2. CASE Expire
    <2>1. PICK i, t : Drops(i, t)
      BY <1>2, ExpireDrops
    <2> QED
      BY <2>1, LeavesType DEF Drops, TypeOK
  <1>3. CASE CountIncomplete
    <2>1. "incomplete" \in Counters /\ tally' = [tally EXCEPT !["incomplete"] = @ + 1]
      BY <1>3 DEF CountIncomplete, Counters
    <2> QED
      BY <1>3, <2>1, OneMore, PassesFacts DEF CountIncomplete, TypeOK
  <1>4. CASE SkipUnknown
    BY <1>4, PassesFacts DEF SkipUnknown, results, TypeOK
  <1>5. CASE OpenRequest
    <2>1. "requests" \in Counters /\ tally' = [tally EXCEPT !["requests"] = @ + 1]
      BY <1>5 DEF OpenRequest, Counters
    <2> QED
      BY <1>5, <2>1, OneMore, PassesFacts, OpensPlaces DEF OpenRequest, TypeOK
  <1>6. CASE ResponsePending
    <2>1. PICK i : Pends(i)
      BY <1>6, PendingPends
    <2>2. "pending" \in Counters
      BY DEF Counters
    <2> QED
      BY <2>1, <2>2, OneMore, PassesFacts DEF Pends, Response, TypeOK
  <1>7. CASE FinalResponse
    <2>1. PICK i, t : Pairs(i, t)
      BY <1>7, FinalAnswers
    <2> QED
      BY <2>1, PassesFacts, LeavesType DEF Pairs, Response
  <1>8. CASE UnmatchedResponse
    <2>1. "unmatched" \in Counters /\ tally' = [tally EXCEPT !["unmatched"] = @ + 1]
      BY <1>8 DEF UnmatchedResponse, Counters
    <2>2. Passes
      BY <1>8 DEF UnmatchedResponse, Response
    <2>3. unmatched' \in Seq(Nat)
      BY <1>8, <2>2, PassesFacts, AppendFacts DEF UnmatchedResponse, TypeOK
    <2> QED
      BY <1>8, <2>1, <2>2, <2>3, OneMore, PassesFacts DEF UnmatchedResponse, TypeOK
  <1>9. CASE Close
    <2>1. PICK i, t : Drops(i, t)
      BY <1>9, CloseDrops
    <2> QED
      BY <2>1, LeavesType DEF Drops, TypeOK
  <1>10. CASE Finish
    BY <1>10 DEF Finish, session, results, TypeOK
  <1>11. CASE UNCHANGED vars
    BY <1>11 DEF vars, session, results, TypeOK
  <1> QED
    BY <1>1, <1>2, <1>3, <1>4, <1>5, <1>6, <1>7, <1>8, <1>9, <1>10, <1>11
       DEF Next, Analyze

-----------------------------------------------------------------------------
(* Messages.                                                                *)

LEMMA InitMessages == Init => MessagesInv
  BY DEF Init, MessagesInv, NoSession, Links

LEMMA GrowsMessages ==
  ASSUME TypeOK, MessagesInv, NEW ms, Grows(ms)
  PROVE  MessagesInv'
  <1>1. \A l \in Links : begun'[l].first <= clock'
    BY DEF Grows
  <1>2. /\ clock \in Nat /\ clock' \in Nat /\ clock <= clock'
    BY UdsAssumption DEF Grows, TypeOK
  <1>3. ASSUME NEW i \in DOMAIN messages'
        PROVE  /\ messages'[i].first <= messages'[i].last /\ messages'[i].last <= clock
               /\ messages'[i].first \in Nat /\ messages'[i].last \in Nat
               /\ messages'[i].complete /\ messages'[i].link = "response"
                    => messages'[i].content.answer \in Answers
               /\ i \in 1 .. Len(messages) => messages'[i] = messages[i]
               /\ i \notin 1 .. Len(messages) => messages'[i].last = clock
    <2>1. messages'[i] \in MessageType
      BY GrowthFacts, ElementOfSeq
    <2>2. messages'[i].first \in Nat /\ messages'[i].last \in Nat
      BY <2>1 DEF MessageType
    <2>3. CASE i \in 1 .. Len(messages)
      <3>1. messages'[i] = messages[i] /\ i \in DOMAIN messages
        BY <2>3, GrowthFacts
      <3> QED
        BY <2>2, <2>3, <3>1 DEF MessagesInv
    <2>4. CASE i \notin 1 .. Len(messages)
      <3>1. i \in Len(messages) + 1 .. Len(messages')
        BY <2>4, GrowthFacts
      <3> QED
        BY <1>2, <2>2, <2>4, <3>1, GrowthFacts
    <2> QED
      BY <2>3, <2>4
  <1>4. ASSUME NEW i \in DOMAIN messages', NEW j \in DOMAIN messages', i <= j
        PROVE  messages'[i].last <= messages'[j].last
    <2>1. CASE j \in 1 .. Len(messages)
      <3>1. i \in 1 .. Len(messages) /\ i \in DOMAIN messages /\ j \in DOMAIN messages
        BY <1>4, <2>1, GrowthFacts
      <3>2. messages[i].last <= messages[j].last
        BY <1>4, <3>1 DEF MessagesInv
      <3> QED
        BY <1>3, <2>1, <3>1, <3>2
    <2>2. CASE j \notin 1 .. Len(messages)
      BY <1>3, <2>2
    <2> QED
      BY <2>1, <2>2
  <1>5. ASSUME NEW i \in DOMAIN messages'
        PROVE  messages'[i].last <= clock'
    BY <1>2, <1>3
  <1> QED
    BY <1>1, <1>3, <1>4, <1>5 DEF MessagesInv

LEMMA AnalyzeKeeps ==
  ASSUME Analyze \/ UNCHANGED vars
  PROVE  UNCHANGED <<clock, begun, messages>>
  BY DEF Analyze, Expire, CountIncomplete, SkipUnknown, OpenRequest, ResponsePending,
         FinalResponse, Response, Passes, UnmatchedResponse, Close, Finish, session, vars

LEMMA NextMessages == TypeOK /\ MessagesInv /\ [Next]_vars => MessagesInv'
  <1> SUFFICES ASSUME TypeOK, MessagesInv, [Next]_vars PROVE MessagesInv'
    OBVIOUS
  <1>1. CASE Frame
    BY <1>1, FrameGrows, GrowsMessages
  <1>2. CASE Analyze \/ UNCHANGED vars
    BY <1>2, AnalyzeKeeps DEF MessagesInv
  <1> QED
    BY <1>1, <1>2 DEF Next

LEMMA MessagesOrder ==
  ASSUME TypeOK, MessagesInv, NEW i \in DOMAIN messages
  PROVE  /\ messages[i].first \in Nat /\ messages[i].last \in Nat /\ clock \in Nat
         /\ messages[i].first <= messages[i].last /\ messages[i].last <= clock
         /\ messages[i].first <= clock
         /\ \A j \in DOMAIN messages : i <= j =>
               messages[i].last <= messages[j].last /\ messages[j].last \in Nat
  <1>1. \A j \in DOMAIN messages :
           messages[j].first \in Nat /\ messages[j].last \in Nat /\ clock \in Nat
    BY OpenFacts DEF MessageType
  <1>2. messages[i].first <= messages[i].last /\ messages[i].last <= clock
    BY DEF MessagesInv
  <1>3. \A j \in DOMAIN messages : i <= j => messages[i].last <= messages[j].last
    BY DEF MessagesInv
  <1> QED
    BY <1>1, <1>2, <1>3

-----------------------------------------------------------------------------
(* Requests: each is open or done.                                          *)

LEMMA SeenFacts ==
  ASSUME TypeOK
  PROVE  /\ \A r \in Requests : r \in DOMAIN messages /\ r \in Nat /\ r < next
         /\ \A r \in Responses : r \in DOMAIN messages /\ r \in Nat /\ r < next /\ r # 0
         /\ next \notin Requests /\ next \notin Responses
         /\ IsFiniteSet(Requests) /\ IsFiniteSet(Responses)
  <1>1. \A r \in Seen : r \in DOMAIN messages /\ r \in Nat /\ r < next /\ r # 0
    BY OpenFacts DEF Seen
  <1>2. Requests \subseteq Seen /\ Responses \subseteq Seen
    BY DEF Requests, Responses
  <1>3. next \notin Seen
    BY OpenFacts DEF Seen
  <1>4. IsFiniteSet(1 .. next - 1) /\ Seen \subseteq 1 .. next - 1
    <2>1. 1 \in Int /\ next - 1 \in Int
      BY OpenFacts
    <2> QED
      BY <2>1, FS_Interval DEF Seen
  <1>5. IsFiniteSet(Requests) /\ IsFiniteSet(Responses)
    BY <1>2, <1>4, FS_Subset
  <1> QED
    BY <1>1, <1>2, <1>3, <1>5

(* What is passed does not change while the file is read.                   *)
LEMMA GrowsSeen ==
  ASSUME TypeOK, NEW ms, Grows(ms)
  PROVE  /\ Requests' = Requests /\ Responses' = Responses
         /\ \A i \in DOMAIN messages : i \in DOMAIN messages' /\ messages'[i] = messages[i]
  <1>1. /\ \A i \in DOMAIN messages : i \in DOMAIN messages' /\ messages'[i] = messages[i]
        /\ \A i \in 1 .. next - 1 : i \in DOMAIN messages
    BY GrowthFacts, OpenFacts
  <1>2. next' = next
    BY DEF Grows
  <1>3. Seen' = Seen
    BY <1>1, <1>2 DEF Seen
  <1>4. \A i \in Seen : messages'[i] = messages[i]
    BY <1>1 DEF Seen
  <1> QED
    BY <1>1, <1>3, <1>4 DEF Requests, Responses, ServiceOf

LEMMA SameSeen ==
  ASSUME UNCHANGED <<messages, next>>
  PROVE  Requests' = Requests /\ Responses' = Responses
  BY DEF Requests, Responses, Seen, ServiceOf

LEMMA PassesSeen ==
  ASSUME TypeOK, Passes
  PROVE  /\ Requests' = Requests \cup
              (IF /\ messages[next].complete /\ messages[next].link = "request"
                  /\ ServiceOf(next) # Unknown THEN {next} ELSE {})
         /\ Responses' = Responses \cup
              (IF messages[next].complete /\ messages[next].link = "response"
                 THEN {next} ELSE {})
  <1>1. next \in Nat /\ next >= 1 /\ next' = next + 1 /\ messages' = messages
    BY PassesFacts
  <1>2. 1 .. next' - 1 = (1 .. next - 1) \cup {next}
    BY <1>1
  <1>3. Seen' = Seen \cup (IF messages[next].complete THEN {next} ELSE {})
    BY <1>1, <1>2 DEF Seen
  <1> QED
    BY <1>1, <1>3 DEF Requests, Responses, ServiceOf

LEMMA InitRequests == Init => RequestsInv
  <1> SUFFICES ASSUME Init PROVE RequestsInv
    OBVIOUS
  <1>1. Seen = {} /\ Requests = {} /\ Cardinality(Requests) = 0
    <2>1. 1 .. next - 1 = {}
      BY DEF Init
    <2>2. Requests = {}
      BY <2>1 DEF Seen, Requests
    <2> QED
      BY <2>1, <2>2, FS_EmptySet DEF Seen
  <1>2. open = <<>> /\ done = <<>> /\ tally["requests"] = 0
    BY DEF Init, NoCounts
  <1>3. Len(open) = 0 /\ Len(done) = 0 /\ DOMAIN open = {} /\ DOMAIN done = {}
    BY <1>2
  <1> QED
    BY <1>1, <1>2, <1>3 DEF RequestsInv

LEMMA SameRequests ==
  ASSUME RequestsInv, Requests' = Requests, UNCHANGED <<open, done>>,
         tally'["requests"] = tally["requests"]
  PROVE  RequestsInv'
  BY DEF RequestsInv

LEMMA LeavesRequests ==
  ASSUME TypeOK, RequestsInv, NEW i, NEW t, Leaves(i, t), Requests' = Requests
  PROVE  RequestsInv'
  <1>1. t.request = open[i].request /\ i \in DOMAIN open
    BY DEF Leaves
  <1>2. \A j \in DOMAIN open' : open'[j].request \in Requests
    BY LeavesPlaces DEF RequestsInv
  <1>3. \A n \in DOMAIN done' : done'[n].request \in Requests
    <2> SUFFICES ASSUME NEW n \in DOMAIN done' PROVE done'[n].request \in Requests
      OBVIOUS
    <2>1. CASE n \in DOMAIN done
      BY <2>1, LeavesPlaces DEF RequestsInv
    <2>2. CASE n = Len(done) + 1
      BY <1>1, <2>2, LeavesPlaces DEF RequestsInv
    <2> QED
      BY <2>1, <2>2, LeavesPlaces
  <1>4. \A j, k \in DOMAIN open' : j < k => open'[j].request < open'[k].request
    <2> SUFFICES ASSUME NEW j \in DOMAIN open', NEW k \in DOMAIN open', j < k
                 PROVE  open'[j].request < open'[k].request
      OBVIOUS
    <2>1. /\ open'[j] = open[Was(i, j)] /\ open'[k] = open[Was(i, k)]
          /\ Was(i, j) \in DOMAIN open /\ Was(i, k) \in DOMAIN open
          /\ Was(i, j) < Was(i, k)
      BY LeavesPlaces
    <2> QED
      BY <2>1 DEF RequestsInv
  <1>5. \A n, k \in DOMAIN done' : n # k => done'[n].request # done'[k].request
    <2>1. \A n \in DOMAIN done : done[n].request # t.request
      BY <1>1 DEF RequestsInv
    <2> SUFFICES ASSUME NEW n \in DOMAIN done', NEW k \in DOMAIN done', n # k
                 PROVE  done'[n].request # done'[k].request
      OBVIOUS
    <2>2. CASE n \in DOMAIN done /\ k \in DOMAIN done
      BY <2>2, LeavesPlaces DEF RequestsInv
    <2>3. CASE n \in DOMAIN done /\ k = Len(done) + 1
      BY <2>1, <2>3, LeavesPlaces
    <2>4. CASE n = Len(done) + 1 /\ k \in DOMAIN done
      BY <2>1, <2>4, LeavesPlaces
    <2> QED
      BY <2>2, <2>3, <2>4, LeavesPlaces
  <1>6. \A j \in DOMAIN open', n \in DOMAIN done' : open'[j].request # done'[n].request
    <2> SUFFICES ASSUME NEW j \in DOMAIN open', NEW n \in DOMAIN done'
                 PROVE  open'[j].request # done'[n].request
      OBVIOUS
    <2>1. /\ open'[j] = open[Was(i, j)] /\ Was(i, j) \in DOMAIN open /\ Was(i, j) # i
      BY LeavesPlaces
    <2>2. open[Was(i, j)].request # open[i].request
      <3>1. Was(i, j) < i \/ i < Was(i, j)
        BY <1>1, <2>1, OpenFacts
      <3>2. open[Was(i, j)].request \in Nat /\ open[i].request \in Nat
        BY <1>1, <2>1, OpenFacts DEF OpenType
      <3>3. \/ open[Was(i, j)].request < open[i].request
            \/ open[i].request < open[Was(i, j)].request
        BY <1>1, <2>1, <3>1 DEF RequestsInv
      <3> QED
        BY <3>2, <3>3
    <2>3. CASE n \in DOMAIN done
      BY SMTT(30), <2>1, <2>3, LeavesPlaces DEF RequestsInv
    <2>4. CASE n = Len(done) + 1
      BY <1>1, <2>1, <2>2, <2>4, LeavesPlaces
    <2> QED
      BY <2>3, <2>4, LeavesPlaces
  <1>7. \A r \in Requests : \/ \E j \in DOMAIN open' : open'[j].request = r
                            \/ \E n \in DOMAIN done' : done'[n].request = r
    <2> SUFFICES ASSUME NEW r \in Requests
                 PROVE  \/ \E j \in DOMAIN open' : open'[j].request = r
                        \/ \E n \in DOMAIN done' : done'[n].request = r
      OBVIOUS
    <2>1. CASE \E n \in DOMAIN done : done[n].request = r
      BY <2>1, LeavesPlaces
    <2>2. ASSUME NEW k \in DOMAIN open, open[k].request = r
          PROVE  \/ \E j \in DOMAIN open' : open'[j].request = r
                 \/ \E n \in DOMAIN done' : done'[n].request = r
      <3>1. CASE k = i
        BY <1>1, <2>2, <3>1, LeavesPlaces
      <3>2. CASE k # i
        BY <2>2, <3>2, LeavesPlaces
      <3> QED
        BY <3>1, <3>2
    <2> QED
      BY <2>1, <2>2 DEF RequestsInv
  <1>8. Len(open') + Len(done') = Len(open) + Len(done)
    <2>1. Len(open) \in Nat /\ Len(done) \in Nat
      BY OpenFacts
    <2>2. Len(open') = Len(open) - 1 /\ Len(done') = Len(done) + 1
      BY LeavesPlaces
    <2> QED
      BY <2>1, <2>2
  <1>9. tally'["requests"] = tally["requests"]
    <2>1. t.status \in Statuses
      BY DEF Leaves, DoneType
    <2>2. tally' = [tally EXCEPT ![t.status] = @ + 1,
                                 !["slow"] = IF t.pendings # <<>> THEN @ + 1 ELSE @]
      BY DEF Leaves
    <2> QED
      BY <2>1, <2>2, TallyType
  <1> QED
    BY <1>2, <1>3, <1>4, <1>5, <1>6, <1>7, <1>8, <1>9 DEF RequestsInv

LEMMA OpensRequests ==
  ASSUME TypeOK, RequestsInv, OpenRequest
  PROVE  RequestsInv'
  <1>1. Passes /\ done' = done /\ tally' = [tally EXCEPT !["requests"] = @ + 1]
    BY DEF OpenRequest
  <1>2. Requests' = Requests \cup {next}
    BY <1>1, PassesSeen DEF OpenRequest
  <1>3. /\ \A r \in Requests : r \in Nat /\ r < next
        /\ next \notin Requests /\ next \in Nat /\ IsFiniteSet(Requests)
    BY SeenFacts, OpenFacts
  <1>4. open'[Len(open) + 1].request = next
    BY OpensPlaces
  <1>5. \A j \in DOMAIN open' : open'[j].request \in Requests'
    BY <1>2, <1>4, OpensPlaces DEF RequestsInv
  <1>6. \A n \in DOMAIN done' : done'[n].request \in Requests'
    BY <1>1, <1>2 DEF RequestsInv
  <1>7. \A j, k \in DOMAIN open' : j < k => open'[j].request < open'[k].request
    <2> SUFFICES ASSUME NEW j \in DOMAIN open', NEW k \in DOMAIN open', j < k
                 PROVE  open'[j].request < open'[k].request
      OBVIOUS
    <2>1. j \in DOMAIN open
      BY OpenFacts, OpensPlaces
    <2>2. CASE k \in DOMAIN open
      BY <2>1, <2>2, OpensPlaces DEF RequestsInv
    <2>3. CASE k = Len(open) + 1
      <3>1. open'[j] = open[j] /\ open[j].request \in Requests
        BY <2>1, OpensPlaces DEF RequestsInv
      <3> QED
        BY <1>3, <1>4, <2>3, <3>1
    <2> QED
      BY <2>2, <2>3, OpensPlaces
  <1>8. \A n, k \in DOMAIN done' : n # k => done'[n].request # done'[k].request
    BY <1>1 DEF RequestsInv
  <1>9. \A j \in DOMAIN open', n \in DOMAIN done' : open'[j].request # done'[n].request
    <2>1. \A n \in DOMAIN done : done[n].request # next
      BY <1>3 DEF RequestsInv
    <2> QED
      BY <1>1, <1>4, <2>1, OpensPlaces DEF RequestsInv
  <1>10. \A r \in Requests' : \/ \E j \in DOMAIN open' : open'[j].request = r
                              \/ \E n \in DOMAIN done' : done'[n].request = r
    <2>1. \A r \in Requests : \/ \E j \in DOMAIN open' : open'[j].request = r
                              \/ \E n \in DOMAIN done' : done'[n].request = r
      BY <1>1, OpensPlaces DEF RequestsInv
    <2>2. \E j \in DOMAIN open' : open'[j].request = next
      BY <1>4, OpensPlaces
    <2> QED
      BY <1>2, <2>1, <2>2
  <1>11. Len(open') = Len(open) + 1 /\ Len(open) \in Nat /\ Len(done) \in Nat
    BY OpensPlaces, OpenFacts
  <1>12. Cardinality(Requests') = Len(open') + Len(done')
    <2>1. Cardinality(Requests') = Cardinality(Requests) + 1
      BY <1>2, <1>3, FS_AddElement
    <2> QED
      BY <1>1, <1>11, <2>1 DEF RequestsInv
  <1>13. tally'["requests"] = Len(open') + Len(done')
    <2>1. tally'["requests"] = tally["requests"] + 1
      BY <1>1, OneMore DEF Counters
    <2> QED
      BY <1>1, <1>11, <2>1 DEF RequestsInv
  <1> QED
    BY <1>5, <1>6, <1>7, <1>8, <1>9, <1>10, <1>12, <1>13 DEF RequestsInv

LEMMA PendsRequests ==
  ASSUME TypeOK, RequestsInv, NEW i, Pends(i)
  PROVE  RequestsInv'
  <1>1. Passes /\ messages[next].link = "response"
    BY DEF Pends, Response
  <1>2. Requests' = Requests
    BY <1>1, PassesSeen
  <1>3. /\ DOMAIN open' = DOMAIN open /\ Len(open') = Len(open) /\ done' = done
        /\ \A j \in DOMAIN open : open'[j].request = open[j].request
    BY DEF Pends
  <1>4. tally'["requests"] = tally["requests"]
    <2>1. "pending" \in Counters /\ "requests" \in Counters
      BY DEF Counters
    <2>2. tally' = [tally EXCEPT !["pending"] = @ + 1]
      BY DEF Pends
    <2> QED
      BY <2>1, <2>2, OneMore
  <1> QED
    BY <1>2, <1>3, <1>4 DEF RequestsInv

LEMMA NextRequests ==
  TypeOK /\ MessagesInv /\ RequestsInv /\ [Next]_vars => RequestsInv'
  <1> SUFFICES ASSUME TypeOK, MessagesInv, RequestsInv, [Next]_vars PROVE RequestsInv'
    OBVIOUS
  <1>1. CASE Frame
    <2>1. PICK ms : Grows(ms)
      BY <1>1, FrameGrows
    <2> QED
      BY <2>1, GrowsSeen, SameRequests DEF Grows, results
  <1>2. CASE Expire \/ Close
    <2>1. PICK i, t : Drops(i, t)
      BY <1>2, ExpireDrops, CloseDrops
    <2> QED
      BY <2>1, LeavesRequests, SameSeen DEF Drops, Leaves, session
  <1>3. CASE CountIncomplete
    <2>1. tally'["requests"] = tally["requests"]
      <3>1. "incomplete" \in Counters /\ "requests" \in Counters
            /\ tally' = [tally EXCEPT !["incomplete"] = @ + 1]
        BY <1>3 DEF CountIncomplete, Counters
      <3> QED
        BY <3>1, OneMore
    <2>2. Requests' = Requests
      BY <1>3, PassesSeen DEF CountIncomplete
    <2> QED
      BY <1>3, <2>1, <2>2, SameRequests DEF CountIncomplete
  <1>4. CASE SkipUnknown
    <2>1. Requests' = Requests
      BY <1>4, PassesSeen DEF SkipUnknown
    <2> QED
      BY <1>4, <2>1, SameRequests DEF SkipUnknown, results
  <1>5. CASE OpenRequest
    BY <1>5, OpensRequests
  <1>6. CASE ResponsePending
    BY <1>6, PendingPends, PendsRequests
  <1>7. CASE FinalResponse
    <2>1. PICK i, t : Pairs(i, t)
      BY <1>7, FinalAnswers
    <2>2. Requests' = Requests
      BY <2>1, PassesSeen DEF Pairs, Response
    <2> QED
      BY <2>1, <2>2, LeavesRequests DEF Pairs
  <1>8. CASE UnmatchedResponse
    <2>1. tally'["requests"] = tally["requests"]
      <3>1. "unmatched" \in Counters /\ "requests" \in Counters
            /\ tally' = [tally EXCEPT !["unmatched"] = @ + 1]
        BY <1>8 DEF UnmatchedResponse, Counters
      <3> QED
        BY <3>1, OneMore
    <2>2. Requests' = Requests
      BY <1>8, PassesSeen DEF UnmatchedResponse, Response
    <2> QED
      BY <1>8, <2>1, <2>2, SameRequests DEF UnmatchedResponse
  <1>9. CASE Finish \/ UNCHANGED vars
    BY <1>9, SameSeen, SameRequests DEF Finish, vars, session, results
  <1> QED
    BY <1>1, <1>2, <1>3, <1>4, <1>5, <1>6, <1>7, <1>8, <1>9 DEF Next, Analyze

-----------------------------------------------------------------------------
(* Responses: each belongs to one transaction or to none.                   *)

LEMMA AnswersFacts ==
  /\ \A o \in OpenType : AnswersOf(o) = Items(o.pendings)
  /\ \A t \in DoneType :
        AnswersOf(t) = Items(t.pendings) \cup (IF t.final # 0 THEN {t.final} ELSE {})
  <1>1. ASSUME NEW o \in OpenType PROVE AnswersOf(o) = Items(o.pendings)
    <2>1. DOMAIN o = {"request", "reference", "first", "pendings"}
      BY DEF OpenType
    <2>2. "final" \notin DOMAIN o
      BY <2>1
    <2> QED
      BY <2>2 DEF AnswersOf
  <1>2. ASSUME NEW t \in DoneType
        PROVE  AnswersOf(t) = Items(t.pendings) \cup (IF t.final # 0 THEN {t.final} ELSE {})
    <2>1. DOMAIN t = {"request", "first", "final", "pendings", "reference", "status"}
      BY DEF DoneType
    <2>2. "final" \in DOMAIN t
      BY <2>1
    <2> QED
      BY <2>2 DEF AnswersOf
  <1> QED
    BY <1>1, <1>2

LEMMA InitAnswers == Init => AnswersInv
  <1> SUFFICES ASSUME Init PROVE AnswersInv
    OBVIOUS
  <1>1. Responses = {}
    <2>1. 1 .. next - 1 = {}
      BY DEF Init
    <2> QED
      BY <2>1 DEF Seen, Responses
  <1>2. DOMAIN open = {} /\ DOMAIN done = {} /\ Items(unmatched) = {}
    BY DEF Init, Items
  <1> QED
    BY <1>1, <1>2 DEF AnswersInv

LEMMA SameAnswers ==
  ASSUME AnswersInv, Responses' = Responses, UNCHANGED <<open, done, unmatched>>
  PROVE  AnswersInv'
  BY DEF AnswersInv

(* A transaction takes the answers of its request with it, and the new one. *)
LEMMA LeavesAnswers ==
  ASSUME TypeOK, AnswersInv, NEW i, NEW t, Leaves(i, t), NEW new,
         AnswersOf(t) = AnswersOf(open[i]) \cup new,
         Responses' = Responses \cup new, Responses \cap new = {}
  PROVE  AnswersInv'
  <1>1. i \in DOMAIN open /\ unmatched' = unmatched
    BY DEF Leaves
  <1> DEFINE O(j) == AnswersOf(open[j])
             D(n) == AnswersOf(done[n])
             U == Items(unmatched)
  <1>2. /\ \A j \in DOMAIN open : O(j) \subseteq Responses
        /\ \A n \in DOMAIN done : D(n) \subseteq Responses
        /\ U \subseteq Responses
        /\ \A j, k \in DOMAIN open : j # k => O(j) \cap O(k) = {}
        /\ \A n, k \in DOMAIN done : n # k => D(n) \cap D(k) = {}
        /\ \A j \in DOMAIN open, n \in DOMAIN done : O(j) \cap D(n) = {}
        /\ \A j \in DOMAIN open : O(j) \cap U = {}
        /\ \A n \in DOMAIN done : D(n) \cap U = {}
    BY DEF AnswersInv
  <1>3. \A r \in Responses : \/ \E j \in DOMAIN open : r \in O(j)
                             \/ \E n \in DOMAIN done : r \in D(n)
                             \/ r \in U
    BY DEF AnswersInv
  <1>4. /\ \A j \in DOMAIN open' :
              /\ Was(i, j) \in DOMAIN open /\ Was(i, j) # i
              /\ AnswersOf(open'[j]) = O(Was(i, j))
        /\ \A j, k \in DOMAIN open' : j # k => Was(i, j) # Was(i, k)
        /\ \A k \in DOMAIN open : k # i => \E j \in DOMAIN open' : AnswersOf(open'[j]) = O(k)
    BY LeavesPlaces
  <1>5. /\ \A n \in DOMAIN done : n \in DOMAIN done' /\ AnswersOf(done'[n]) = D(n)
        /\ Len(done) + 1 \in DOMAIN done' /\ AnswersOf(done'[Len(done) + 1]) = O(i) \cup new
        /\ \A n \in DOMAIN done' : n \in DOMAIN done \/ n = Len(done) + 1
    BY LeavesPlaces
  <1>6. Items(unmatched') = U
    BY <1>1
  <1> HIDE DEF O, D, U
  <1>7. \A j \in DOMAIN open' : AnswersOf(open'[j]) \subseteq Responses'
    BY <1>2, <1>4
  <1>8. \A n \in DOMAIN done' : AnswersOf(done'[n]) \subseteq Responses'
    BY <1>1, <1>2, <1>5
  <1>9. \A r \in Responses' : \/ \E j \in DOMAIN open' : r \in AnswersOf(open'[j])
                              \/ \E n \in DOMAIN done' : r \in AnswersOf(done'[n])
                              \/ r \in Items(unmatched')
    <2> SUFFICES ASSUME NEW r \in Responses'
                 PROVE  \/ \E j \in DOMAIN open' : r \in AnswersOf(open'[j])
                        \/ \E n \in DOMAIN done' : r \in AnswersOf(done'[n])
                        \/ r \in Items(unmatched')
      OBVIOUS
    <2>1. CASE r \in new
      BY <1>5, <2>1
    <2>2. CASE r \in O(i)
      BY <1>5, <2>2
    <2>3. CASE r \in U
      BY <1>6, <2>3
    <2>4. ASSUME NEW n \in DOMAIN done, r \in D(n)
          PROVE  \E m \in DOMAIN done' : r \in AnswersOf(done'[m])
      BY <1>5, <2>4
    <2>5. ASSUME NEW k \in DOMAIN open, k # i, r \in O(k)
          PROVE  \E j \in DOMAIN open' : r \in AnswersOf(open'[j])
      BY <1>4, <2>5
    <2> QED
      BY <1>3, <2>1, <2>2, <2>3, <2>4, <2>5
  <1>10. \A j, k \in DOMAIN open' : j # k => AnswersOf(open'[j]) \cap AnswersOf(open'[k]) = {}
    BY <1>2, <1>4
  <1>11. \A n, k \in DOMAIN done' : n # k => AnswersOf(done'[n]) \cap AnswersOf(done'[k]) = {}
    <2>1. \A n \in DOMAIN done : D(n) \cap (O(i) \cup new) = {}
      BY <1>1, <1>2
    <2> SUFFICES ASSUME NEW n \in DOMAIN done', NEW k \in DOMAIN done', n # k
                 PROVE  AnswersOf(done'[n]) \cap AnswersOf(done'[k]) = {}
      OBVIOUS
    <2>2. CASE n \in DOMAIN done /\ k \in DOMAIN done
      BY <1>2, <1>5, <2>2
    <2>3. CASE n \in DOMAIN done /\ k = Len(done) + 1
      BY <1>5, <2>1, <2>3
    <2>4. CASE n = Len(done) + 1 /\ k \in DOMAIN done
      BY <1>5, <2>1, <2>4
    <2> QED
      BY <1>5, <2>2, <2>3, <2>4
  <1>12. \A j \in DOMAIN open', n \in DOMAIN done' :
            AnswersOf(open'[j]) \cap AnswersOf(done'[n]) = {}
    <2> SUFFICES ASSUME NEW j \in DOMAIN open', NEW n \in DOMAIN done'
                 PROVE  AnswersOf(open'[j]) \cap AnswersOf(done'[n]) = {}
      OBVIOUS
    <2>1. /\ Was(i, j) \in DOMAIN open /\ Was(i, j) # i
          /\ AnswersOf(open'[j]) = O(Was(i, j))
      BY <1>4
    <2>2. CASE n \in DOMAIN done
      BY <1>2, <1>5, <2>1, <2>2
    <2>3. CASE n = Len(done) + 1
      <3>1. O(Was(i, j)) \cap O(i) = {} /\ O(Was(i, j)) \cap new = {}
        BY <1>1, <1>2, <2>1
      <3> QED
        BY <1>5, <2>1, <2>3, <3>1
    <2> QED
      BY <1>5, <2>2, <2>3
  <1>13. \A j \in DOMAIN open' : AnswersOf(open'[j]) \cap Items(unmatched') = {}
    BY <1>2, <1>4, <1>6
  <1>14. \A n \in DOMAIN done' : AnswersOf(done'[n]) \cap Items(unmatched') = {}
    BY <1>1, <1>2, <1>5, <1>6
  <1>15. Items(unmatched') \subseteq Responses'
    BY <1>2, <1>6
  <1> QED
    BY <1>7, <1>8, <1>9, <1>10, <1>11, <1>12, <1>13, <1>14, <1>15 DEF AnswersInv

LEMMA DropsAnswers ==
  ASSUME TypeOK, AnswersInv, NEW i, NEW t, Drops(i, t)
  PROVE  AnswersInv'
  <1>1. /\ Leaves(i, t) /\ t \in DoneType /\ open[i] \in OpenType /\ t.final = 0
        /\ t.pendings = open[i].pendings
    BY OpenFacts DEF Drops, Leaves
  <1>2. AnswersOf(t) = AnswersOf(open[i]) \cup {}
    BY <1>1, AnswersFacts
  <1>3. Responses' = Responses \cup {} /\ Responses \cap {} = {}
    BY SameSeen DEF Drops, Leaves, session
  <1> QED
    BY <1>1, <1>2, <1>3, LeavesAnswers

LEMMA PairsAnswers ==
  ASSUME TypeOK, AnswersInv, NEW i, NEW t, Pairs(i, t)
  PROVE  AnswersInv'
  <1>1. /\ Leaves(i, t) /\ t \in DoneType /\ open[i] \in OpenType /\ t.final = next
        /\ t.pendings = open[i].pendings /\ next # 0
    BY OpenFacts DEF Pairs, Leaves
  <1>2. AnswersOf(t) = AnswersOf(open[i]) \cup {next}
    BY <1>1, AnswersFacts
  <1>3. Responses' = Responses \cup {next} /\ Responses \cap {next} = {}
    BY PassesSeen, SeenFacts DEF Pairs, Response
  <1> QED
    BY <1>1, <1>2, <1>3, LeavesAnswers

LEMMA PendsAnswers ==
  ASSUME TypeOK, AnswersInv, NEW i, Pends(i)
  PROVE  AnswersInv'
  <1>1. Responses' = Responses \cup {next} /\ next \notin Responses
    BY PassesSeen, SeenFacts DEF Pends, Response
  <1>2. /\ i \in DOMAIN open /\ DOMAIN open' = DOMAIN open /\ UNCHANGED <<done, unmatched>>
        /\ \A j \in DOMAIN open : j # i => AnswersOf(open'[j]) = AnswersOf(open[j])
    BY DEF Pends
  <1>3. AnswersOf(open'[i]) = AnswersOf(open[i]) \cup {next}
    <2>1. open[i] \in OpenType /\ open'[i] \in OpenType
      BY <1>2, OpenFacts, SeqFacts DEF Pends
    <2> QED
      BY <2>1, AnswersFacts DEF Pends
  <1> DEFINE O(j) == AnswersOf(open[j])
             P(j) == AnswersOf(open'[j])
             D(n) == AnswersOf(done[n])
             U == Items(unmatched)
  <1>4. /\ \A j \in DOMAIN open : O(j) \subseteq Responses
        /\ \A n \in DOMAIN done : D(n) \subseteq Responses
        /\ U \subseteq Responses
        /\ \A j, k \in DOMAIN open : j # k => O(j) \cap O(k) = {}
        /\ \A n, k \in DOMAIN done : n # k => D(n) \cap D(k) = {}
        /\ \A j \in DOMAIN open, n \in DOMAIN done : O(j) \cap D(n) = {}
        /\ \A j \in DOMAIN open : O(j) \cap U = {}
        /\ \A n \in DOMAIN done : D(n) \cap U = {}
    BY DEF AnswersInv
  <1>5. \A r \in Responses : \/ \E j \in DOMAIN open : r \in O(j)
                             \/ \E n \in DOMAIN done : r \in D(n)
                             \/ r \in U
    BY DEF AnswersInv
  <1>6. /\ \A j \in DOMAIN open : j # i => P(j) = O(j)
        /\ P(i) = O(i) \cup {next}
    BY <1>2, <1>3
  <1> HIDE DEF O, P, D, U
  <1>7. \A j \in DOMAIN open : P(j) \subseteq Responses'
    BY <1>1, <1>2, <1>4, <1>6
  <1>8. \A n \in DOMAIN done : D(n) \subseteq Responses'
    BY <1>1, <1>4
  <1>9. \A r \in Responses' : \/ \E j \in DOMAIN open : r \in P(j)
                              \/ \E n \in DOMAIN done : r \in D(n)
                              \/ r \in U
    <2>1. \A j \in DOMAIN open : O(j) \subseteq P(j)
      BY <1>6
    <2> QED
      BY <1>1, <1>2, <1>5, <1>6, <2>1
  <1>10. \A j, k \in DOMAIN open : j # k => P(j) \cap P(k) = {}
    BY <1>1, <1>4, <1>6
  <1>11. \A j \in DOMAIN open, n \in DOMAIN done : P(j) \cap D(n) = {}
    BY <1>1, <1>4, <1>6
  <1>12. \A j \in DOMAIN open : P(j) \cap U = {}
    BY <1>1, <1>4, <1>6
  <1>13. U \subseteq Responses'
    BY <1>1, <1>4
  <1> QED
    BY <1>2, <1>4, <1>7, <1>8, <1>9, <1>10, <1>11, <1>12, <1>13 DEF AnswersInv, P, D, U

LEMMA UnmatchedFacts ==
  ASSUME TypeOK, UnmatchedResponse
  PROVE  /\ Items(unmatched') = Items(unmatched) \cup {next}
         /\ Responses' = Responses \cup {next} /\ next \notin Responses
         /\ UNCHANGED <<open, done>>
  <1>1. unmatched' = Append(unmatched, next) /\ Response /\ UNCHANGED <<open, done>>
    BY DEF UnmatchedResponse
  <1>2. next \in Nat /\ unmatched \in Seq(Nat)
    BY OpenFacts DEF TypeOK
  <1>3. Items(unmatched') = Items(unmatched) \cup {next}
    BY <1>1, <1>2, AppendFacts
  <1> QED
    BY <1>1, <1>3, PassesSeen, SeenFacts DEF Response

LEMMA UnmatchedAnswers ==
  ASSUME TypeOK, AnswersInv, UnmatchedResponse
  PROVE  AnswersInv'
  <1>1. /\ Items(unmatched') = Items(unmatched) \cup {next}
        /\ Responses' = Responses \cup {next} /\ next \notin Responses
        /\ UNCHANGED <<open, done>>
    BY UnmatchedFacts
  <1> DEFINE O(j) == AnswersOf(open[j])
             D(n) == AnswersOf(done[n])
             U == Items(unmatched)
  <1>2. /\ \A j \in DOMAIN open : O(j) \subseteq Responses
        /\ \A n \in DOMAIN done : D(n) \subseteq Responses
        /\ U \subseteq Responses
        /\ \A j, k \in DOMAIN open : j # k => O(j) \cap O(k) = {}
        /\ \A n, k \in DOMAIN done : n # k => D(n) \cap D(k) = {}
        /\ \A j \in DOMAIN open, n \in DOMAIN done : O(j) \cap D(n) = {}
        /\ \A j \in DOMAIN open : O(j) \cap U = {}
        /\ \A n \in DOMAIN done : D(n) \cap U = {}
        /\ \A r \in Responses : \/ \E j \in DOMAIN open : r \in O(j)
                                \/ \E n \in DOMAIN done : r \in D(n)
                                \/ r \in U
    BY DEF AnswersInv
  <1>3. /\ \A j \in DOMAIN open' : AnswersOf(open'[j]) = O(j)
        /\ \A n \in DOMAIN done' : AnswersOf(done'[n]) = D(n)
        /\ DOMAIN open' = DOMAIN open /\ DOMAIN done' = DOMAIN done
        /\ Items(unmatched') = U \cup {next}
    BY <1>1
  <1> HIDE DEF O, D, U
  <1>4. /\ \A j \in DOMAIN open : O(j) \subseteq Responses'
        /\ \A n \in DOMAIN done : D(n) \subseteq Responses'
        /\ U \cup {next} \subseteq Responses'
    BY <1>1, <1>2
  <1>5. /\ \A j \in DOMAIN open : O(j) \cap (U \cup {next}) = {}
        /\ \A n \in DOMAIN done : D(n) \cap (U \cup {next}) = {}
    BY <1>1, <1>2
  <1>6. \A r \in Responses' : \/ \E j \in DOMAIN open : r \in O(j)
                              \/ \E n \in DOMAIN done : r \in D(n)
                              \/ r \in U \cup {next}
    BY <1>1, <1>2
  <1> QED
    BY <1>2, <1>3, <1>4, <1>5, <1>6 DEF AnswersInv

LEMMA NextAnswers ==
  TypeOK /\ MessagesInv /\ AnswersInv /\ [Next]_vars => AnswersInv'
  <1> SUFFICES ASSUME TypeOK, MessagesInv, AnswersInv, [Next]_vars PROVE AnswersInv'
    OBVIOUS
  <1>1. CASE Frame
    <2>1. PICK ms : Grows(ms)
      BY <1>1, FrameGrows
    <2> QED
      BY <2>1, GrowsSeen, SameAnswers DEF Grows, results
  <1>2. CASE Expire \/ Close
    BY <1>2, ExpireDrops, CloseDrops, DropsAnswers
  <1>3. CASE CountIncomplete
    <2>1. Responses' = Responses
      BY <1>3, PassesSeen DEF CountIncomplete
    <2> QED
      BY <1>3, <2>1, SameAnswers DEF CountIncomplete
  <1>4. CASE SkipUnknown
    <2>1. Responses' = Responses
      BY <1>4, PassesSeen DEF SkipUnknown
    <2> QED
      BY <1>4, <2>1, SameAnswers DEF SkipUnknown, results
  <1>5. CASE OpenRequest
    <2>1. Responses' = Responses /\ UNCHANGED <<done, unmatched>>
      BY <1>5, PassesSeen DEF OpenRequest
    <2>2. AnswersOf(open'[Len(open) + 1]) = {}
      <3> DEFINE o == open'[Len(open) + 1]
      <3>1. o \in OpenType
        BY <1>5, OpensPlaces, SeqFacts
      <3>2. o.pendings = <<>>
        BY <1>5, OpensPlaces
      <3>3. Items(<<>>) = {}
        BY DEF Items
      <3> QED
        BY <3>1, <3>2, <3>3, AnswersFacts
    <2>3. /\ \A j \in DOMAIN open : j \in DOMAIN open' /\ open'[j] = open[j]
          /\ \A j \in DOMAIN open' : j \in DOMAIN open \/ j = Len(open) + 1
      BY <1>5, OpensPlaces
    <2>4. /\ \A j \in DOMAIN open' : AnswersOf(open'[j]) \subseteq Responses
          /\ \A j \in DOMAIN open' : AnswersOf(open'[j]) \cap Items(unmatched) = {}
          /\ \A j \in DOMAIN open', n \in DOMAIN done :
                AnswersOf(open'[j]) \cap AnswersOf(done[n]) = {}
      BY <2>2, <2>3 DEF AnswersInv
    <2>5. \A j, k \in DOMAIN open' : j # k => AnswersOf(open'[j]) \cap AnswersOf(open'[k]) = {}
      BY <2>2, <2>3 DEF AnswersInv
    <2>6. \A r \in Responses : \/ \E j \in DOMAIN open' : r \in AnswersOf(open'[j])
                               \/ \E n \in DOMAIN done : r \in AnswersOf(done[n])
                               \/ r \in Items(unmatched)
      BY <2>3 DEF AnswersInv
    <2> QED
      BY <2>1, <2>4, <2>5, <2>6 DEF AnswersInv
  <1>6. CASE ResponsePending
    BY <1>6, PendingPends, PendsAnswers
  <1>7. CASE FinalResponse
    BY <1>7, FinalAnswers, PairsAnswers
  <1>8. CASE UnmatchedResponse
    BY <1>8, UnmatchedAnswers
  <1>9. CASE Finish \/ UNCHANGED vars
    BY <1>9, SameSeen, SameAnswers DEF Finish, vars, session, results
  <1> QED
    BY <1>1, <1>2, <1>3, <1>4, <1>5, <1>6, <1>7, <1>8, <1>9 DEF Next, Analyze

-----------------------------------------------------------------------------
(* The counters.                                                            *)

Places(status) == {n \in DOMAIN done : done[n].status = status}
SlowPlaces == {n \in DOMAIN done : done[n].pendings # <<>>}

LEMMA TallyFacts ==
  ASSUME TypeOK
  PROVE  /\ tally["positive"] \in Nat /\ tally["negative"] \in Nat
         /\ tally["pending"] \in Nat /\ tally["unmatched"] \in Nat
         /\ tally["slow"] \in Nat
         /\ \A s \in Statuses : tally[s] \in Nat
  BY DEF TypeOK, Counters, Statuses

LEMMA InitCounts == Init => CountsInv
  <1> SUFFICES ASSUME Init PROVE CountsInv
    OBVIOUS
  <1>1. Responses = {}
    <2>1. 1 .. next - 1 = {}
      BY DEF Init
    <2> QED
      BY <2>1 DEF Seen, Responses
  <1>2. DOMAIN done = {}
    BY DEF Init
  <1>3. /\ \A s \in Statuses : tally[s] = 0
        /\ tally["slow"] = 0 /\ tally["pending"] = 0 /\ tally["unmatched"] = 0
        /\ tally["positive"] = 0 /\ tally["negative"] = 0
    BY DEF Init, NoCounts, Statuses
  <1>4. /\ \A s \in Statuses : Ended(s) = 0
        /\ Cardinality({n \in DOMAIN done : done[n].pendings # <<>>}) = 0
        /\ Cardinality(Responses) = 0
    BY <1>1, <1>2, FS_EmptySet DEF Ended
  <1>5. tally["positive"] + tally["negative"] + tally["pending"] + tally["unmatched"] = 0
    BY <1>3
  <1> QED
    BY <1>3, <1>4, <1>5 DEF CountsInv

LEMMA SameCounts ==
  ASSUME CountsInv, Responses' = Responses, UNCHANGED done,
         \A c \in Counters \ {"requests", "incomplete"} : tally'[c] = tally[c]
  PROVE  CountsInv'
  <1>1. Counters \ {"requests", "incomplete"} =
          {"positive", "negative", "timeout", "ended", "suppressed", "slow", "pending",
           "unmatched"}
    BY DEF Counters
  <1>2. \A s \in Statuses : s \in Counters \ {"requests", "incomplete"}
    BY <1>1 DEF Statuses
  <1>3. \A s \in Statuses : tally'[s] = Ended(s) /\ Ended(s)' = Ended(s)
    BY <1>2 DEF CountsInv, Ended
  <1>4. tally'["slow"] = tally["slow"] /\ tally'["positive"] = tally["positive"]
        /\ tally'["negative"] = tally["negative"] /\ tally'["pending"] = tally["pending"]
        /\ tally'["unmatched"] = tally["unmatched"]
    BY <1>1
  <1> QED
    BY <1>3, <1>4 DEF CountsInv

(* A transaction more is one more of its status.                            *)
LEMMA LeavesCounts ==
  ASSUME TypeOK, CountsInv, NEW i, NEW t, Leaves(i, t)
  PROVE  /\ \A s \in Statuses : tally'[s] = Ended(s)'
         /\ tally'["slow"] = Cardinality({n \in DOMAIN done' : done'[n].pendings # <<>>})
         /\ \A s \in Statuses : tally'[s] = IF s = t.status THEN tally[s] + 1 ELSE tally[s]
         /\ tally'["pending"] = tally["pending"] /\ tally'["unmatched"] = tally["unmatched"]
  <1>1. t.status \in Statuses
    BY DEF Leaves, DoneType
  <1>2. tally' = [tally EXCEPT ![t.status] = @ + 1,
                               !["slow"] = IF t.pendings # <<>> THEN @ + 1 ELSE @]
    BY DEF Leaves
  <1>3. /\ \A s \in Statuses : tally'[s] = IF s = t.status THEN tally[s] + 1 ELSE tally[s]
        /\ tally'["slow"] = IF t.pendings # <<>> THEN tally["slow"] + 1 ELSE tally["slow"]
        /\ tally'["pending"] = tally["pending"] /\ tally'["unmatched"] = tally["unmatched"]
    BY <1>1, <1>2, TallyType
  <1> DEFINE new == Len(done) + 1
  <1>4. /\ new \notin DOMAIN done /\ new \in DOMAIN done' /\ done'[new] = t
        /\ \A n \in DOMAIN done : n \in DOMAIN done' /\ done'[n] = done[n]
        /\ \A n \in DOMAIN done' : n \in DOMAIN done \/ n = new
    BY LeavesPlaces
  <1> HIDE DEF new
  <1>5. ASSUME NEW S \in SUBSET DOMAIN done
        PROVE  /\ IsFiniteSet(S) /\ Cardinality(S) \in Nat
               /\ Cardinality(S \cup {new}) = Cardinality(S) + 1
    <2>1. IsFiniteSet(DOMAIN done)
      BY OpenFacts, FS_Interval
    <2>2. IsFiniteSet(S)
      BY <2>1, FS_Subset
    <2>3. new \notin S
      BY <1>4
    <2> QED
      BY <2>2, <2>3, FS_AddElement, FS_CardinalityType
  <1>6. ASSUME NEW s \in Statuses PROVE tally'[s] = Ended(s)'
    <2>1. Places(s)' = IF s = t.status THEN Places(s) \cup {new} ELSE Places(s)
      BY <1>4 DEF Places
    <2>2. Places(s) \in SUBSET DOMAIN done
      BY DEF Places
    <2>3. /\ Ended(s) = Cardinality(Places(s)) /\ Ended(s)' = Cardinality(Places(s)')
          /\ tally[s] = Ended(s)
      BY DEF Ended, Places, CountsInv
    <2>4. Cardinality(Places(s) \cup {new}) = Cardinality(Places(s)) + 1
      BY <1>5, <2>2
    <2> QED
      BY <1>3, <2>1, <2>3, <2>4
  <1>7. tally'["slow"] = Cardinality(SlowPlaces')
    <2>1. SlowPlaces' = IF t.pendings # <<>> THEN SlowPlaces \cup {new} ELSE SlowPlaces
      BY <1>4 DEF SlowPlaces
    <2>2. SlowPlaces \in SUBSET DOMAIN done /\ tally["slow"] = Cardinality(SlowPlaces)
      BY DEF SlowPlaces, CountsInv
    <2>3. Cardinality(SlowPlaces \cup {new}) = Cardinality(SlowPlaces) + 1
      BY <1>5, <2>2
    <2> QED
      BY <1>3, <2>1, <2>2, <2>3
  <1> QED
    BY <1>3, <1>6, <1>7 DEF SlowPlaces

LEMMA OneResponse ==
  ASSUME TypeOK, Responses' = Responses \cup {next}
  PROVE  Cardinality(Responses') = Cardinality(Responses) + 1 /\ Cardinality(Responses) \in Nat
  BY SeenFacts, FS_AddElement, FS_CardinalityType

LEMMA NextCounts ==
  TypeOK /\ MessagesInv /\ CountsInv /\ [Next]_vars => CountsInv'
  <1> SUFFICES ASSUME TypeOK, MessagesInv, CountsInv, [Next]_vars PROVE CountsInv'
    OBVIOUS
  <1>0. tally["positive"] + tally["negative"] + tally["pending"] + tally["unmatched"]
           = Cardinality(Responses)
    BY DEF CountsInv
  <1>1. CASE Frame
    <2>1. PICK ms : Grows(ms)
      BY <1>1, FrameGrows
    <2>2. Responses' = Responses /\ UNCHANGED <<done, tally>>
      BY <2>1, GrowsSeen DEF Grows, results
    <2> QED
      BY <2>2, SameCounts
  <1>2. CASE Expire \/ Close
    <2>1. PICK i, t : Drops(i, t)
      BY <1>2, ExpireDrops, CloseDrops
    <2>2. Leaves(i, t) /\ Responses' = Responses
      BY <2>1, SameSeen DEF Drops, Leaves, session
    <2>3. /\ tally'["positive"] = tally["positive"] /\ tally'["negative"] = tally["negative"]
          /\ tally'["pending"] = tally["pending"] /\ tally'["unmatched"] = tally["unmatched"]
      <3>1. t.status \notin {"positive", "negative"}
        BY <2>1 DEF Drops
      <3>2. "positive" \in Statuses /\ "negative" \in Statuses
        BY DEF Statuses
      <3> QED
        BY <2>2, <3>1, <3>2, LeavesCounts
    <2> QED
      BY <1>0, <2>2, <2>3, LeavesCounts DEF CountsInv
  <1>3. CASE CountIncomplete
    <2>1. \A c \in Counters \ {"requests", "incomplete"} : tally'[c] = tally[c]
      <3>1. "incomplete" \in Counters /\ tally' = [tally EXCEPT !["incomplete"] = @ + 1]
        BY <1>3 DEF CountIncomplete, Counters
      <3> QED
        BY <3>1, OneMore
    <2>2. Responses' = Responses
      BY <1>3, PassesSeen DEF CountIncomplete
    <2> QED
      BY <1>3, <2>1, <2>2, SameCounts DEF CountIncomplete
  <1>4. CASE SkipUnknown
    <2>1. Responses' = Responses
      BY <1>4, PassesSeen DEF SkipUnknown
    <2> QED
      BY <1>4, <2>1, SameCounts DEF SkipUnknown, results
  <1>5. CASE OpenRequest
    <2>1. \A c \in Counters \ {"requests", "incomplete"} : tally'[c] = tally[c]
      <3>1. "requests" \in Counters /\ tally' = [tally EXCEPT !["requests"] = @ + 1]
        BY <1>5 DEF OpenRequest, Counters
      <3> QED
        BY <3>1, OneMore
    <2>2. Responses' = Responses
      BY <1>5, PassesSeen DEF OpenRequest
    <2> QED
      BY <1>5, <2>1, <2>2, SameCounts DEF OpenRequest
  <1>6. ASSUME NEW c \in {"pending", "unmatched"}, UNCHANGED done,
               tally' = [tally EXCEPT ![c] = @ + 1], Responses' = Responses \cup {next}
        PROVE  CountsInv'
    <2>1. tally'[c] = tally[c] + 1 /\ \A d \in Counters : d # c => tally'[d] = tally[d]
      BY <1>6, OneMore DEF Counters
    <2>2. \A s \in Statuses : tally'[s] = tally[s] /\ Ended(s)' = Ended(s)
      BY <1>6, <2>1 DEF Statuses, Counters, Ended
    <2>3. tally'["slow"] = tally["slow"]
      BY <2>1 DEF Counters
    <2>4. Cardinality(Responses') = Cardinality(Responses) + 1 /\ Cardinality(Responses) \in Nat
      BY <1>6, OneResponse
    <2>5. /\ tally'["positive"] = tally["positive"] /\ tally'["negative"] = tally["negative"]
          /\ \/ tally'["pending"] = tally["pending"] + 1 /\ tally'["unmatched"] = tally["unmatched"]
             \/ tally'["pending"] = tally["pending"] /\ tally'["unmatched"] = tally["unmatched"] + 1
      BY <2>1 DEF Counters
    <2>6. tally'["positive"] + tally'["negative"] + tally'["pending"] + tally'["unmatched"]
             = Cardinality(Responses')
      BY <1>0, <2>4, <2>5, TallyFacts
    <2> QED
      BY <1>6, <2>2, <2>3, <2>6 DEF CountsInv
  <1>7. CASE ResponsePending
    <2>1. PICK i : Pends(i)
      BY <1>7, PendingPends
    <2> QED
      BY <1>6, <2>1, PassesSeen DEF Pends, Response
  <1>8. CASE FinalResponse
    <2>1. PICK i, t : Pairs(i, t)
      BY <1>8, FinalAnswers
    <2>2. Leaves(i, t) /\ Responses' = Responses \cup {next}
      BY <2>1, PassesSeen DEF Pairs, Response
    <2>3. t.status \in {"positive", "negative"}
      <3>1. next \in DOMAIN messages /\ messages[next].complete
            /\ messages[next].link = "response"
        BY <2>1, PassesFacts DEF Pairs, Response
      <3>2. messages[next].content.answer \in Answers
        BY <3>1 DEF MessagesInv
      <3> QED
        BY <2>1, <3>2 DEF Pairs, Answers
    <2>4. /\ tally'["positive"] = IF t.status = "positive" THEN tally["positive"] + 1
                                                           ELSE tally["positive"]
          /\ tally'["negative"] = IF t.status = "negative" THEN tally["negative"] + 1
                                                           ELSE tally["negative"]
          /\ tally'["pending"] = tally["pending"] /\ tally'["unmatched"] = tally["unmatched"]
      <3>1. "positive" \in Statuses /\ "negative" \in Statuses
        BY DEF Statuses
      <3> QED
        BY ZenonT(40), <2>2, <3>1, LeavesCounts
    <2>5. \/ tally'["positive"] = tally["positive"] + 1 /\ tally'["negative"] = tally["negative"]
          \/ tally'["positive"] = tally["positive"] /\ tally'["negative"] = tally["negative"] + 1
      BY <2>3, <2>4
    <2>6. Cardinality(Responses') = Cardinality(Responses) + 1 /\ Cardinality(Responses) \in Nat
      BY <2>2, OneResponse
    <2>7. tally'["positive"] + tally'["negative"] + tally'["pending"] + tally'["unmatched"]
             = Cardinality(Responses')
      BY <1>0, <2>4, <2>5, <2>6, TallyFacts
    <2> QED
      BY <2>2, <2>7, LeavesCounts DEF CountsInv
  <1>9. CASE UnmatchedResponse
    BY <1>6, <1>9, UnmatchedFacts DEF UnmatchedResponse
  <1>10. CASE Finish \/ UNCHANGED vars
    <2>1. Responses' = Responses /\ UNCHANGED <<done, tally>>
      BY <1>10, SameSeen DEF Finish, vars, session, results
    <2> QED
      BY <2>1, SameCounts
  <1> QED
    BY <1>1, <1>2, <1>3, <1>4, <1>5, <1>7, <1>8, <1>9, <1>10 DEF Next, Analyze

-----------------------------------------------------------------------------
(* What the open requests have missed.                                      *)

Suits(i) ==
  /\ ServiceOf(open[i].request) = ServiceOf(next)
  /\ messages[next].first >= messages[open[i].request].last

LEMMA FitsMeans ==
  ASSUME NEW i
  PROVE  Fits(i) <=> i \in DOMAIN open /\ Suits(i) /\ \A j \in 1 .. i - 1 : ~Suits(j)
  BY DEF Fits, IsFirst, Suits

(* When one fits, so does a first one.                                      *)
LEMMA SomeFits ==
  ASSUME TypeOK, NEW i \in DOMAIN open, Suits(i)
  PROVE  \E k \in DOMAIN open : Fits(k)
  <1> DEFINE T == {j \in DOMAIN open : Suits(j)}
  <1>1. DOMAIN open = 1 .. Len(open) /\ Len(open) \in Nat
    BY OpenFacts
  <1>2. T \subseteq Nat /\ T # {}
    BY <1>1
  <1>3. PICK k \in T : \A j \in T : k <= j
    BY <1>2, LeastNat
  <1>4. k \in DOMAIN open /\ Suits(k) /\ \A j \in DOMAIN open : Suits(j) => k <= j
    BY <1>3
  <1>5. \A j \in 1 .. k - 1 : j \in DOMAIN open /\ ~ (k <= j)
    BY <1>1, <1>4
  <1>6. Fits(k)
    BY <1>4, <1>5, FitsMeans
  <1> QED
    BY <1>4, <1>6

(* What is open or done was passed.                                         *)
LEMMA PlacesFacts ==
  ASSUME TypeOK, RequestsInv, AnswersInv
  PROVE  /\ \A i \in DOMAIN open :
              /\ open[i].request \in DOMAIN messages /\ open[i].request < next
              /\ open[i].request \in Nat /\ open[i] \in OpenType
         /\ \A n \in DOMAIN done :
              /\ done[n].request \in DOMAIN messages /\ done[n].request < next
              /\ done[n].request \in Nat /\ done[n] \in DoneType
         /\ \A u \in Items(unmatched) : u \in DOMAIN messages /\ u < next /\ u \in Nat
  <1>1. \A r \in Requests \cup Responses : r \in DOMAIN messages /\ r < next /\ r \in Nat
    BY SeenFacts
  <1>2. /\ \A i \in DOMAIN open : open[i].request \in Requests
        /\ \A n \in DOMAIN done : done[n].request \in Requests
        /\ Items(unmatched) \subseteq Responses
    BY DEF RequestsInv, AnswersInv
  <1> QED
    BY <1>1, <1>2, OpenFacts

OpenFine(o) ==
  /\ o.first = 0 <=> o.pendings = <<>>
  /\ o.first # 0 => /\ o.first \in DOMAIN messages
                    /\ messages[o.first].first >= messages[o.request].last
  /\ \A u \in Items(unmatched) :
        u > o.request /\ ServiceOf(u) = ServiceOf(o.request)
          => messages[u].first < messages[o.request].last

LEMMA OpenInvMeans == OpenInv <=> \A i \in DOMAIN open : OpenFine(open[i])
  BY DEF OpenInv, OpenFine

LEMMA SameOpen ==
  ASSUME OpenInv, UNCHANGED <<messages, unmatched>>,
         \A j \in DOMAIN open' : \E i \in DOMAIN open : open'[j] = open[i]
  PROVE  OpenInv'
  BY DEF OpenInv, ServiceOf

LEMMA GrowsOpen ==
  ASSUME TypeOK, RequestsInv, AnswersInv, OpenInv, NEW ms, Grows(ms)
  PROVE  OpenInv'
  <1>1. UNCHANGED <<open, unmatched>>
    BY DEF Grows
  <1>2. \A k \in DOMAIN messages : k \in DOMAIN messages' /\ messages'[k] = messages[k]
    BY GrowsSeen
  <1>3. ASSUME NEW i \in DOMAIN open PROVE OpenFine(open[i])'
    <2> DEFINE o == open[i]
    <2>1. o \in OpenType /\ o.request \in DOMAIN messages /\ o' = o
      BY <1>1, PlacesFacts
    <2>2. OpenFine(o)
      BY OpenInvMeans
    <2>3. \A u \in Items(unmatched) : u \in DOMAIN messages
      BY PlacesFacts
    <2> HIDE DEF o
    <2>4. /\ messages'[o.request] = messages[o.request]
          /\ o.first # 0 => o.first \in DOMAIN messages /\ messages'[o.first] = messages[o.first]
          /\ \A u \in Items(unmatched) : messages'[u] = messages[u]
      BY <1>2, <2>1, <2>2, <2>3 DEF OpenFine
    <2>5. OpenFine(o)'
      BY <1>1, <1>2, <2>1, <2>2, <2>4 DEF OpenFine, ServiceOf
    <2> QED
      BY <2>5 DEF o
  <1> QED
    BY <1>1, <1>3 DEF OpenInv, OpenFine

LEMMA NextOpen ==
  /\ TypeOK /\ MessagesInv /\ RequestsInv /\ AnswersInv
  /\ OpenInv /\ [Next]_vars
  => OpenInv'
  <1> SUFFICES ASSUME TypeOK, MessagesInv, RequestsInv, AnswersInv, OpenInv, [Next]_vars
               PROVE  OpenInv'
    OBVIOUS
  <1>1. CASE Frame
    BY <1>1, FrameGrows, GrowsOpen
  <1>2. ASSUME NEW i, NEW t, Leaves(i, t) PROVE OpenInv'
    <2>1. UNCHANGED <<messages, unmatched>>
      BY <1>2 DEF Leaves, session
    <2> QED
      BY <1>2, <2>1, LeavesPlaces, SameOpen
  <1>3. CASE Expire \/ Close
    BY <1>2, <1>3, ExpireDrops, CloseDrops DEF Drops
  <1>4. CASE FinalResponse
    BY <1>2, <1>4, FinalAnswers DEF Pairs
  <1>5. CASE CountIncomplete \/ SkipUnknown \/ Finish \/ UNCHANGED vars
    <2>1. UNCHANGED <<messages, unmatched, open>>
      BY <1>5 DEF CountIncomplete, SkipUnknown, Finish, Passes, session, vars
    <2> QED
      BY <2>1, SameOpen
  <1>6. CASE OpenRequest
    <2>1. UNCHANGED <<messages, unmatched>>
      BY <1>6 DEF OpenRequest, Passes, session
    <2> DEFINE o == open'[Len(open) + 1]
    <2>2. o.request = next /\ o.first = 0 /\ o.pendings = <<>>
      BY <1>6, OpensPlaces
    <2>3. \A u \in Items(unmatched) : ~ (u > next)
      BY PlacesFacts, OpenFacts
    <2>4. OpenFine(o)
      <3> HIDE DEF o
      <3> QED
        BY <2>2, <2>3 DEF OpenFine
    <2>5. \A j \in DOMAIN open' : OpenFine(open'[j])
      <3>1. \A j \in DOMAIN open : OpenFine(open[j])
        BY OpenInvMeans
      <3> QED
        BY <1>6, <2>4, <3>1, OpensPlaces
    <2> QED
      BY <2>1, <2>5 DEF OpenInv, OpenFine, ServiceOf
  <1>7. CASE ResponsePending
    <2>1. PICK i : Pends(i)
      BY <1>7, PendingPends
    <2>2. UNCHANGED <<messages, unmatched>> /\ DOMAIN open' = DOMAIN open
      BY <2>1 DEF Pends, Response, Passes, session
    <2>3. \A j \in DOMAIN open : OpenFine(open[j])
      BY OpenInvMeans
    <2>4. OpenFine(open'[i])
      <3>1. /\ open'[i].request = open[i].request
            /\ open'[i].first = IF open[i].first = 0 THEN next ELSE open[i].first
            /\ open'[i].pendings # <<>>
        BY <2>1 DEF Pends
      <3>2. next # 0 /\ next \in DOMAIN messages
        BY <2>1, PassesFacts DEF Pends, Response
      <3>3. messages[next].first >= messages[open[i].request].last
        BY <2>1, FitsMeans DEF Pends, Suits
      <3>4. OpenFine(open[i])
        BY <2>1, <2>3 DEF Pends
      <3> QED
        BY <3>1, <3>2, <3>3, <3>4 DEF OpenFine
    <2>5. \A j \in DOMAIN open' : OpenFine(open'[j])
      BY <2>1, <2>2, <2>3, <2>4 DEF Pends
    <2> QED
      BY <2>2, <2>5 DEF OpenInv, OpenFine, ServiceOf
  <1>8. CASE UnmatchedResponse
    <2>1. /\ Items(unmatched') = Items(unmatched) \cup {next} /\ open' = open
          /\ messages' = messages
      BY <1>8, UnmatchedFacts DEF UnmatchedResponse, Response, Passes, session
    <2>2. \A j \in DOMAIN open : ~Suits(j)
      BY <1>8, SomeFits DEF UnmatchedResponse
    <2>3. next \in DOMAIN messages
      BY <1>8, PassesFacts DEF UnmatchedResponse, Response
    <2>4. ASSUME NEW j \in DOMAIN open, ServiceOf(next) = ServiceOf(open[j].request)
          PROVE  messages[next].first < messages[open[j].request].last
      <3>1. ~ (messages[next].first >= messages[open[j].request].last)
        BY <2>2, <2>4 DEF Suits
      <3>2. messages[next].first \in Nat /\ messages[open[j].request].last \in Nat
        BY <2>3, PlacesFacts, MessagesOrder
      <3> QED
        BY <3>1, <3>2
    <2> QED
      BY <2>1, <2>4 DEF OpenInv, ServiceOf
  <1> QED
    BY <1>1, <1>3, <1>4, <1>5, <1>6, <1>7, <1>8 DEF Next, Analyze

-----------------------------------------------------------------------------
(* What a transaction says.                                                 *)

(* For every message that is to come the time of a transaction is over.     *)
OverFor(t) ==
  /\ phase = "frames" => clock >= t.reference + Timeout
  /\ \A m \in next .. Len(messages) : messages[m].last >= t.reference + Timeout

(* No response of one frame came within its time and was left out.          *)
MissedNone(t) ==
  \A u \in Items(unmatched) :
     /\ u > t.request /\ messages[u].first = messages[u].last
     /\ ServiceOf(u) = ServiceOf(t.request)
     /\ messages[t.request].last <= messages[u].first
     => messages[u].first >= t.reference + Timeout

Began(t) ==
  t.first # 0 => /\ t.first \in DOMAIN messages
                 /\ messages[t.first].first >= messages[t.request].last

AnswerFits(t) ==
  t.final # 0 => /\ t.final \in Responses
                 /\ messages[t.final].first >= messages[t.request].last
                 /\ messages[t.final].first < t.reference + Timeout
                 /\ ServiceOf(t.final) = ServiceOf(t.request)
                 /\ messages[t.final].content.answer = t.status

StatusFits(t) ==
  /\ t.final # 0 <=> t.status \in Answers
  /\ t.status = "suppressed" => t.pendings = <<>> /\ t.first = 0
  /\ t.status = "timeout" => clock >= t.reference + Timeout
  /\ t.status = "ended" => clock < t.reference + Timeout /\ phase # "frames"

DoneFine(t) ==
  /\ Began(t) /\ StatusFits(t) /\ AnswerFits(t)
  /\ t.final = 0 => OverFor(t) /\ MissedNone(t)

LEMMA DoneInvMeans == DoneInv <=> \A n \in DOMAIN done : DoneFine(done[n])
  BY DEF DoneInv, DoneFine, Began, StatusFits, AnswerFits, OverFor, MissedNone

LEMMA DoneInvNext ==
  ASSUME \A n \in DOMAIN done' : \E t : done'[n] = t /\ DoneFine(t)'
  PROVE  DoneInv'
  BY DEF DoneInv, DoneFine, Began, StatusFits, AnswerFits, OverFor, MissedNone

LEMMA GrowsDone ==
  ASSUME TypeOK, RequestsInv, AnswersInv, DoneInv, NEW ms, Grows(ms)
  PROVE  DoneInv'
  <1>1. UNCHANGED <<done, unmatched, next>> /\ Responses' = Responses
    BY GrowsSeen DEF Grows, results
  <1>2. \A k \in DOMAIN messages : k \in DOMAIN messages' /\ messages'[k] = messages[k]
    BY GrowsSeen
  <1>3. /\ phase = "frames" /\ next = Len(messages) + 1
        /\ clock \in Nat /\ clock' \in Nat /\ clock <= clock' /\ Timeout \in Nat
    BY UdsAssumption DEF Grows, TypeOK
  <1>4. ASSUME NEW t \in DoneType, t.request \in DOMAIN messages, DoneFine(t)
        PROVE  DoneFine(t)'
    <2>1. t.reference \in Nat /\ messages'[t.request] = messages[t.request]
      BY <1>2, <1>4 DEF DoneType
    <2>2. Began(t)'
      BY <1>2, <1>4, <2>1 DEF DoneFine, Began
    <2>3. StatusFits(t)'
      BY <1>3, <1>4, <2>1 DEF DoneFine, StatusFits
    <2>4. AnswerFits(t)'
      <3>1. t.final \in Responses => messages'[t.final] = messages[t.final]
        BY <1>2, SeenFacts
      <3> QED
        BY <1>1, <1>4, <2>1, <3>1 DEF DoneFine, AnswerFits, ServiceOf
    <2>5. ASSUME t.final = 0 PROVE OverFor(t)'
      <3>1. clock >= t.reference + Timeout
        BY <1>3, <1>4, <2>5 DEF DoneFine, OverFor
      <3>2. \A m \in next' .. Len(messages') : messages'[m].last = clock
        BY <1>1, <1>3, GrowthFacts
      <3> QED
        BY <1>3, <1>4, <2>1, <3>1, <3>2 DEF OverFor
    <2>6. ASSUME t.final = 0 PROVE MissedNone(t)'
      <3>1. \A u \in Items(unmatched) : messages'[u] = messages[u]
        BY <1>2, PlacesFacts
      <3> QED
        BY <1>1, <1>4, <2>1, <2>6, <3>1 DEF DoneFine, MissedNone, ServiceOf
    <2> QED
      BY <1>4, <2>2, <2>3, <2>4, <2>5, <2>6 DEF DoneFine
  <1>5. ASSUME NEW n \in DOMAIN done' PROVE \E t : done'[n] = t /\ DoneFine(t)'
    <2>1. PICK t \in DoneType : t = done[n] /\ t.request \in DOMAIN messages /\ DoneFine(t)
      BY <1>1, PlacesFacts, DoneInvMeans
    <2>2. DoneFine(t)'
      BY <1>4, <2>1
    <2> QED
      BY <1>1, <2>1, <2>2
  <1> QED
    BY <1>5, DoneInvNext

(* What a message does to the transactions that were there.                 *)
LEMMA OldDone ==
  ASSUME TypeOK, MessagesInv, NEW t \in DoneType, DoneFine(t),
         UNCHANGED <<clock, messages>>, phase' = phase \/ (phase # "frames" /\ phase' # "frames"),
         Responses \subseteq Responses',
         next' = next \/ (next' = next + 1 /\ next <= Len(messages)),
         \/ Items(unmatched') = Items(unmatched)
         \/ Items(unmatched') = Items(unmatched) \cup {next} /\ next <= Len(messages)
  PROVE  DoneFine(t)'
  <1>1. Began(t)'
    BY DEF DoneFine, Began
  <1>2. StatusFits(t)'
    BY DEF DoneFine, StatusFits
  <1>3. AnswerFits(t)'
    BY DEF DoneFine, AnswerFits, ServiceOf
  <1>4. /\ next \in Nat /\ next >= 1 /\ Len(messages) \in Nat
        /\ DOMAIN messages = 1 .. Len(messages) /\ t.reference \in Nat /\ Timeout \in Nat
    BY OpenFacts, UdsAssumption DEF DoneType
  <1>5. ASSUME t.final = 0 PROVE OverFor(t)'
    <2>1. \A m \in next' .. Len(messages') : m \in next .. Len(messages)
      BY <1>4
    <2>2. OverFor(t)
      BY <1>5 DEF DoneFine
    <2>3. phase' = "frames" => clock' >= t.reference + Timeout
      BY <2>2 DEF OverFor
    <2> QED
      BY <2>1, <2>2, <2>3 DEF OverFor
  <1>6. ASSUME t.final = 0 PROVE MissedNone(t)'
    <2>1. OverFor(t) /\ MissedNone(t)
      BY <1>6 DEF DoneFine
    <2>2. ASSUME next <= Len(messages), messages[next].first = messages[next].last
          PROVE  messages[next].first >= t.reference + Timeout
      <3>1. next \in next .. Len(messages)
        BY <1>4, <2>2
      <3> QED
        BY <2>1, <2>2, <3>1 DEF OverFor
    <2>3. \A u \in Items(unmatched') : u \in Items(unmatched) \/ (u = next /\ next <= Len(messages))
      OBVIOUS
    <2> QED
      BY <2>1, <2>2, <2>3 DEF MissedNone, ServiceOf
  <1> QED
    BY <1>1, <1>2, <1>3, <1>5, <1>6 DEF DoneFine

(* A request that times out, or is open when the capture ends.              *)
LEMMA DropsFine ==
  ASSUME TypeOK, MessagesInv, RequestsInv, AnswersInv, OpenInv, NEW i, NEW t, Drops(i, t)
  PROVE  DoneFine(t)'
  <1>1. /\ UNCHANGED <<clock, messages, phase, next, unmatched>>
        /\ i \in DOMAIN open /\ t \in DoneType
        /\ t.request = open[i].request /\ t.pendings = open[i].pendings
        /\ t.first = open[i].first /\ t.final = 0
    BY DEF Drops, Leaves, session
  <1>2. OpenFine(open[i])
    BY <1>1, OpenInvMeans
  <1>3. /\ t.status \in {"timeout", "ended", "suppressed"}
        /\ t.status = "suppressed" => t.first = 0
        /\ t.status = "timeout" => clock >= t.reference + Timeout
        /\ t.status = "ended" => clock < t.reference + Timeout /\ phase # "frames"
        /\ \/ next <= Len(messages) /\ messages[next].first >= t.reference + Timeout
           \/ next = Len(messages) + 1 /\ phase # "frames"
    BY DEF Drops
  <1>4. Began(t)
    BY <1>1, <1>2 DEF OpenFine, Began
  <1>5. StatusFits(t)
    BY <1>1, <1>2, <1>3 DEF OpenFine, StatusFits, Answers
  <1>6. AnswerFits(t)
    BY <1>1 DEF AnswerFits
  <1>7. OverFor(t)
    <2>1. t.reference \in Nat /\ Timeout \in Nat /\ next \in Nat /\ Len(messages) \in Nat
          /\ next >= 1 /\ DOMAIN messages = 1 .. Len(messages)
      BY <1>1, OpenFacts, UdsAssumption DEF DoneType
    <2>2. CASE next <= Len(messages) /\ messages[next].first >= t.reference + Timeout
      <3>1. next \in DOMAIN messages
        BY <2>1, <2>2
      <3>2. /\ messages[next].first \in Nat /\ messages[next].last \in Nat /\ clock \in Nat
            /\ messages[next].first <= messages[next].last /\ messages[next].first <= clock
            /\ \A j \in DOMAIN messages : next <= j =>
                 messages[next].last <= messages[j].last /\ messages[j].last \in Nat
        BY <3>1, MessagesOrder
      <3>3. clock >= t.reference + Timeout
        BY <2>1, <2>2, <3>2
      <3>4. ASSUME NEW m \in next .. Len(messages)
            PROVE  messages[m].last >= t.reference + Timeout
        <4>1. m \in DOMAIN messages /\ next <= m
          BY <2>1
        <4>2. messages[next].last <= messages[m].last /\ messages[m].last \in Nat
          BY <3>2, <4>1
        <4> QED
          BY SMTT(30), <2>1, <2>2, <3>2, <4>2
      <3> QED
        BY <3>3, <3>4 DEF OverFor
    <2>3. CASE next = Len(messages) + 1 /\ phase # "frames"
      BY <2>1, <2>3 DEF OverFor
    <2> QED
      BY <1>3, <2>2, <2>3
  <1>8. MissedNone(t)
    <2> SUFFICES ASSUME NEW u \in Items(unmatched), u > t.request,
                        ServiceOf(u) = ServiceOf(t.request),
                        messages[t.request].last <= messages[u].first
                 PROVE  FALSE
      BY DEF MissedNone
    <2>1. messages[u].first < messages[t.request].last
      BY <1>1, <1>2 DEF OpenFine
    <2>2. messages[u].first \in Nat /\ messages[t.request].last \in Nat
      BY <1>1, PlacesFacts, MessagesOrder
    <2> QED
      BY <2>1, <2>2
  <1>9. Responses' = Responses
    BY <1>1, SameSeen
  <1>10. DoneFine(t)
    BY <1>4, <1>5, <1>6, <1>7, <1>8 DEF DoneFine
  <1>11. UNCHANGED <<clock, messages, phase, next, unmatched>>
    BY <1>1
  <1> QED
    BY <1>9, <1>10, <1>11, OldDone, <1>1

(* One that is answered.                                                    *)
LEMMA PairsFine ==
  ASSUME TypeOK, MessagesInv, RequestsInv, AnswersInv, OpenInv, NEW i, NEW t, Pairs(i, t)
  PROVE  DoneFine(t)'
  <1>1. /\ i \in DOMAIN open /\ t \in DoneType
        /\ t.request = open[i].request /\ t.reference = open[i].reference
        /\ t.first = IF open[i].first = 0 THEN next ELSE open[i].first
        /\ t.final = next /\ t.status = messages[next].content.answer
        /\ UNCHANGED <<clock, messages, phase>>
    BY DEF Pairs, Leaves, session
  <1>2. /\ next \in DOMAIN messages /\ next # 0 /\ next \in Responses'
        /\ messages[next].complete /\ messages[next].link = "response"
    BY PassesFacts, PassesSeen DEF Pairs, Response
  <1>3. Suits(i)
    BY FitsMeans DEF Pairs
  <1>4. /\ t.status \in Answers /\ t.status # "pending"
    BY <1>1, <1>2 DEF MessagesInv, Pairs
  <1>5. Began(t)'
    <2>1. OpenFine(open[i])
      BY <1>1, OpenInvMeans
    <2> QED
      BY <1>1, <1>2, <1>3, <2>1 DEF Began, OpenFine, Suits
  <1>6. StatusFits(t)'
    BY <1>1, <1>2, <1>4 DEF StatusFits, Answers
  <1>7. AnswerFits(t)'
    <2>1. messages[next].first < t.reference + Timeout
      <3>1. ~Overdue(open[i], messages[next].first)
        BY <1>1 DEF Pairs, Response, Passes, SomeOverdue
      <3>2. messages[next].first \in Nat /\ t.reference \in Nat /\ Timeout \in Nat
        BY <1>1, <1>2, MessagesOrder, UdsAssumption DEF DoneType
      <3> QED
        BY <1>1, <3>1, <3>2 DEF Overdue
    <2> QED
      BY <1>1, <1>2, <1>3, <2>1 DEF AnswerFits, Suits, ServiceOf
  <1> QED
    BY <1>1, <1>2, <1>5, <1>6, <1>7 DEF DoneFine

LEMMA NextDone ==
  /\ TypeOK /\ MessagesInv /\ RequestsInv /\ AnswersInv
  /\ OpenInv /\ DoneInv /\ [Next]_vars
  => DoneInv'
  <1> SUFFICES ASSUME TypeOK, MessagesInv, RequestsInv, AnswersInv, OpenInv, DoneInv,
                      [Next]_vars
               PROVE  DoneInv'
    OBVIOUS
  <1>1. CASE Frame
    BY <1>1, FrameGrows, GrowsDone
  <1>2. \A n \in DOMAIN done : done[n] \in DoneType /\ DoneFine(done[n])
    BY OpenFacts, DoneInvMeans
  <1>3. ASSUME UNCHANGED <<clock, messages>>,
               phase' = phase \/ (phase # "frames" /\ phase' # "frames"),
               Responses \subseteq Responses',
               next' = next \/ (next' = next + 1 /\ next <= Len(messages)),
               \/ Items(unmatched') = Items(unmatched)
               \/ Items(unmatched') = Items(unmatched) \cup {next} /\ next <= Len(messages),
               NEW n \in DOMAIN done, done'[n] = done[n]
        PROVE  \E t : done'[n] = t /\ DoneFine(t)'
    <2>1. PICK t \in DoneType : t = done[n] /\ DoneFine(t)
      BY <1>2
    <2>2. DoneFine(t)'
      BY <1>3, <2>1, OldDone
    <2> QED
      BY <1>3, <2>1, <2>2
  <1>4. ASSUME UNCHANGED <<clock, messages>>,
               phase' = phase \/ (phase # "frames" /\ phase' # "frames"),
               Responses \subseteq Responses',
               next' = next \/ (next' = next + 1 /\ next <= Len(messages)),
               \/ Items(unmatched') = Items(unmatched)
               \/ Items(unmatched') = Items(unmatched) \cup {next} /\ next <= Len(messages),
               done' = done
        PROVE  DoneInv'
    <2>1. \A n \in DOMAIN done' : \E t : done'[n] = t /\ DoneFine(t)'
      BY <1>3, <1>4
    <2> QED
      BY <2>1, DoneInvNext
  <1>5. ASSUME UNCHANGED <<clock, messages>>, phase' = phase,
               Responses \subseteq Responses',
               next' = next \/ (next' = next + 1 /\ next <= Len(messages)),
               unmatched' = unmatched,
               NEW i, NEW t, Leaves(i, t), DoneFine(t)'
        PROVE  DoneInv'
    <2>1. ASSUME NEW n \in DOMAIN done' PROVE \E s : done'[n] = s /\ DoneFine(s)'
      <3>1. CASE n \in DOMAIN done
        <4>1. done'[n] = done[n]
          BY <1>5, <3>1, LeavesPlaces
        <4> QED
          BY <1>3, <1>5, <3>1, <4>1
      <3>2. CASE n = Len(done) + 1
        <4>1. done'[n] = t
          BY <1>5, <3>2, LeavesPlaces
        <4> QED
          BY <1>5, <4>1
      <3> QED
        BY <1>5, <3>1, <3>2, LeavesPlaces
    <2> QED
      BY <2>1, DoneInvNext
  <1>6. CASE Expire \/ Close
    <2>1. PICK i, t : Drops(i, t)
      BY <1>6, ExpireDrops, CloseDrops
    <2>2. /\ UNCHANGED <<clock, messages, phase, next, unmatched>> /\ Leaves(i, t)
      BY <2>1 DEF Drops, Leaves, session
    <2>3. Responses' = Responses
      BY <2>2, SameSeen
    <2>4. DoneFine(t)'
      BY <2>1, DropsFine
    <2> QED
      BY <1>5, <2>2, <2>3, <2>4
  <1>7. CASE FinalResponse
    <2>1. PICK i, t : Pairs(i, t)
      BY <1>7, FinalAnswers
    <2>2. /\ UNCHANGED <<clock, messages, phase, unmatched>> /\ Leaves(i, t)
          /\ next' = next + 1 /\ next <= Len(messages)
      BY <2>1 DEF Pairs, Leaves, Response, Passes, Busy, session
    <2>3. Responses \subseteq Responses'
      BY <2>1, PassesSeen DEF Pairs, Response
    <2>4. DoneFine(t)'
      BY <2>1, PairsFine
    <2> QED
      BY <1>5, <2>2, <2>3, <2>4
  <1>8. CASE CountIncomplete \/ SkipUnknown \/ OpenRequest \/ ResponsePending
    <2>1. Passes /\ UNCHANGED <<done, unmatched>>
      BY <1>8 DEF CountIncomplete, SkipUnknown, OpenRequest, ResponsePending, Response, results
    <2>2. /\ UNCHANGED <<clock, messages, phase>> /\ Responses \subseteq Responses'
          /\ next' = next + 1 /\ next <= Len(messages)
      BY <2>1, PassesSeen DEF Passes, Busy, session
    <2> QED
      BY <1>4, <2>1, <2>2
  <1>9. CASE UnmatchedResponse
    <2>1. Passes /\ done' = done /\ Items(unmatched') = Items(unmatched) \cup {next}
      BY <1>9, UnmatchedFacts DEF UnmatchedResponse, Response
    <2>2. /\ UNCHANGED <<clock, messages, phase>> /\ Responses \subseteq Responses'
          /\ next' = next + 1 /\ next <= Len(messages)
      BY <2>1, PassesSeen DEF Passes, Busy, session
    <2> QED
      BY <1>4, <2>1, <2>2
  <1>10. CASE Finish \/ UNCHANGED vars
    <2>1. /\ UNCHANGED <<clock, messages, next, done, unmatched>>
          /\ phase' = phase \/ (phase # "frames" /\ phase' # "frames")
      BY <1>10 DEF Finish, vars, session, results
    <2>2. Responses' = Responses
      BY <2>1, SameSeen
    <2> QED
      BY <1>4, <2>1, <2>2
  <1> QED
    BY <1>1, <1>6, <1>7, <1>8, <1>9, <1>10 DEF Next, Analyze
-----------------------------------------------------------------------------
(* First in, first out.                                                     *)

LEMMA SameOrder ==
  ASSUME OrderInv, UNCHANGED <<open, done>>,
         \A n \in DOMAIN done : messages'[done[n].request] = messages[done[n].request],
         \A j \in DOMAIN open : messages'[open[j].request] = messages[open[j].request]
  PROVE  OrderInv'
  BY DEF OrderInv, InOrder, ServiceOf

(* No younger request of the service was answered, and no older one that    *)
(* waits could have been.                                                   *)
LEMMA PairsOrder ==
  ASSUME TypeOK, MessagesInv, RequestsInv, AnswersInv, DoneInv, OrderInv,
         NEW i, NEW t, Pairs(i, t)
  PROVE  OrderInv'
  <1> DEFINE S(r) == messages[r].content.service
  <1>1. /\ i \in DOMAIN open /\ t.request = open[i].request /\ t.final = next
        /\ Leaves(i, t) /\ messages' = messages
    BY DEF Pairs, Leaves, session
  <1>2. \A n \in DOMAIN done : done[n].final # 0 => done[n].final < next /\ done[n].final \in Nat
    <2>1. \A n \in DOMAIN done : done[n].final # 0 => done[n].final \in Responses
      BY DEF DoneInv
    <2> QED
      BY <2>1, SeenFacts
  <1>3. /\ \A n \in DOMAIN done : n \in DOMAIN done' /\ done'[n] = done[n]
        /\ \A n \in DOMAIN done' : n \in DOMAIN done \/ n = Len(done) + 1
        /\ done'[Len(done) + 1] = t
        /\ \A j \in DOMAIN open' :
              Was(i, j) \in DOMAIN open /\ Was(i, j) # i /\ open'[j] = open[Was(i, j)]
    BY <1>1, LeavesPlaces
  <1>4. /\ \A n, k \in DOMAIN done :
              done[n].final # 0 /\ done[k].final # 0
                /\ S(done[n].request) = S(done[k].request)
                /\ done[n].request < done[k].request => done[n].final < done[k].final
        /\ \A j \in DOMAIN open, n \in DOMAIN done :
              done[n].final # 0 /\ S(done[n].request) = S(open[j].request)
                => done[n].request < open[j].request
    BY DEF OrderInv, InOrder, ServiceOf
  <1>5. /\ \A j \in DOMAIN open : open[j].request \in Nat /\ open[j].request \in DOMAIN messages
        /\ \A n \in DOMAIN done : done[n].request \in Nat
        /\ next \in Nat /\ next # 0 /\ next \in DOMAIN messages
        /\ i \in Nat /\ \A j \in DOMAIN open : j \in Nat /\ j >= 1
    BY <1>1, PlacesFacts, PassesFacts, OpenFacts DEF Pairs, Response
  <1>6. ASSUME NEW n \in DOMAIN done', NEW k \in DOMAIN done',
               done'[n].final # 0, done'[k].final # 0,
               S(done'[n].request) = S(done'[k].request),
               done'[n].request < done'[k].request
        PROVE  done'[n].final < done'[k].final
    <2>1. CASE n \in DOMAIN done /\ k \in DOMAIN done
      BY <1>3, <1>4, <1>6, <2>1
    <2>2. CASE n \in DOMAIN done /\ k = Len(done) + 1
      BY <1>1, <1>2, <1>3, <1>6, <2>2
    <2>3. CASE n = Len(done) + 1 /\ k \in DOMAIN done
      <3>1. done[k].final # 0 /\ S(open[i].request) = S(done[k].request)
            /\ open[i].request < done[k].request
        BY <1>1, <1>3, <1>6, <2>3
      <3>2. done[k].request < open[i].request
        BY <1>1, <1>4, <2>3, <3>1
      <3> QED
        BY <1>1, <1>5, <2>3, <3>1, <3>2
    <2>4. CASE n = Len(done) + 1 /\ k = Len(done) + 1
      BY <1>1, <1>3, <1>5, <1>6, <2>4
    <2> QED
      BY <1>3, <2>1, <2>2, <2>3, <2>4
  <1>7. ASSUME NEW j \in DOMAIN open', NEW n \in DOMAIN done', done'[n].final # 0,
               S(done'[n].request) = S(open'[j].request)
        PROVE  done'[n].request < open'[j].request
    <2>1. PICK k \in DOMAIN open : k # i /\ open'[j] = open[k]
      BY <1>3
    <2>2. CASE n \in DOMAIN done
      BY <1>3, <1>4, <1>7, <2>1, <2>2
    <2>3. CASE n = Len(done) + 1
      <3>1. done'[n].request = open[i].request /\ S(open[i].request) = S(open[k].request)
        BY <1>1, <1>3, <1>7, <2>1, <2>3
      <3>2. Suits(i) /\ \A m \in 1 .. i - 1 : ~Suits(m)
        BY FitsMeans DEF Pairs
      <3>3. CASE k < i
        <4>1. k \in 1 .. i - 1
          BY <1>5, <3>3
        <4>2. ~Suits(k)
          BY <3>2, <4>1
        <4>3. /\ ~ (messages[next].first >= messages[open[k].request].last)
              /\ messages[next].first >= messages[open[i].request].last
          BY <3>1, <3>2, <4>2 DEF Suits, ServiceOf
        <4>4. open[k].request < open[i].request
          BY <1>1, <3>3 DEF RequestsInv
        <4>5. open[k].request <= open[i].request
          BY <1>1, <1>5, <4>4
        <4>6. messages[open[k].request].last <= messages[open[i].request].last
          BY <1>1, <1>5, <4>5 DEF MessagesInv
        <4>7. /\ messages[open[k].request].last \in Nat /\ messages[open[i].request].last \in Nat
              /\ messages[next].first \in Nat
          BY <1>1, <1>5, MessagesOrder
        <4> QED
          BY <4>3, <4>6, <4>7
      <3>4. CASE i < k
        <4>1. open[i].request < open[k].request
          BY <1>1, <3>4 DEF RequestsInv
        <4> QED
          BY <2>1, <3>1, <4>1
      <3> QED
        BY <1>5, <2>1, <3>3, <3>4
    <2> QED
      BY <1>3, <2>2, <2>3
  <1>8. \A r : messages'[r].content.service = S(r)
    BY <1>1
  <1> HIDE DEF S
  <1> QED
    BY <1>6, <1>7, <1>8 DEF OrderInv, InOrder, ServiceOf

(* One that is not answered has nothing to be compared with.                *)
LEMMA DropsOrder ==
  ASSUME TypeOK, OrderInv, NEW i, NEW t, Drops(i, t)
  PROVE  OrderInv'
  <1> DEFINE S(r) == messages[r].content.service
  <1>1. t.final = 0 /\ Leaves(i, t) /\ messages' = messages
    BY DEF Drops, Leaves, session
  <1>2. /\ \A n \in DOMAIN done : n \in DOMAIN done' /\ done'[n] = done[n]
        /\ \A n \in DOMAIN done' : n \in DOMAIN done \/ n = Len(done) + 1
        /\ done'[Len(done) + 1] = t
        /\ \A j \in DOMAIN open' :
              Was(i, j) \in DOMAIN open /\ Was(i, j) # i /\ open'[j] = open[Was(i, j)]
    BY <1>1, LeavesPlaces
  <1>3. /\ \A n, k \in DOMAIN done :
              done[n].final # 0 /\ done[k].final # 0
                /\ S(done[n].request) = S(done[k].request)
                /\ done[n].request < done[k].request => done[n].final < done[k].final
        /\ \A j \in DOMAIN open, n \in DOMAIN done :
              done[n].final # 0 /\ S(done[n].request) = S(open[j].request)
                => done[n].request < open[j].request
    BY DEF OrderInv, InOrder, ServiceOf
  <1>4. \A n \in DOMAIN done' : done'[n].final # 0 => n \in DOMAIN done /\ done'[n] = done[n]
    BY <1>1, <1>2
  <1>5. \A r : messages'[r].content.service = S(r)
    BY <1>1
  <1> HIDE DEF S
  <1>6. \A n, k \in DOMAIN done' :
           done'[n].final # 0 /\ done'[k].final # 0
             /\ S(done'[n].request) = S(done'[k].request)
             /\ done'[n].request < done'[k].request => done'[n].final < done'[k].final
    BY <1>3, <1>4
  <1>7. \A j \in DOMAIN open', n \in DOMAIN done' :
           done'[n].final # 0 /\ S(done'[n].request) = S(open'[j].request)
             => done'[n].request < open'[j].request
    BY <1>2, <1>3, <1>4
  <1> QED
    BY <1>5, <1>6, <1>7 DEF OrderInv, InOrder, ServiceOf

LEMMA InitOrder == Init => OrderInv
  BY DEF Init, OrderInv, InOrder

LEMMA NextOrder ==
  TypeOK /\ MessagesInv /\ RequestsInv /\ AnswersInv /\ DoneInv /\ OrderInv /\ [Next]_vars
  => OrderInv'
  <1> SUFFICES ASSUME TypeOK, MessagesInv, RequestsInv, AnswersInv, DoneInv, OrderInv,
                      [Next]_vars
               PROVE  OrderInv'
    OBVIOUS
  <1>1. CASE Frame
    <2>1. PICK ms : Grows(ms)
      BY <1>1, FrameGrows
    <2>2. \A r \in DOMAIN messages : messages'[r] = messages[r]
      BY <2>1, GrowsSeen
    <2>3. UNCHANGED <<open, done>>
      BY <2>1 DEF Grows, results
    <2> QED
      BY <2>2, <2>3, PlacesFacts, SameOrder
  <1>2. CASE Expire \/ Close
    BY <1>2, ExpireDrops, CloseDrops, DropsOrder
  <1>3. CASE FinalResponse
    BY <1>3, FinalAnswers, PairsOrder
  <1>4. ASSUME UNCHANGED <<messages, done, open>> PROVE OrderInv'
    BY <1>4 DEF OrderInv, InOrder, ServiceOf
  <1>5. CASE CountIncomplete \/ SkipUnknown \/ UnmatchedResponse \/ Finish \/ UNCHANGED vars
    BY <1>4, <1>5 DEF CountIncomplete, SkipUnknown, UnmatchedResponse, Response, Passes,
                      Finish, session, results, vars
  <1>6. CASE OpenRequest
    <2>1. UNCHANGED <<messages, done>>
      BY <1>6 DEF OpenRequest, Passes, session
    <2>2. /\ \A j \in DOMAIN open : open'[j] = open[j]
          /\ \A j \in DOMAIN open' : j \in DOMAIN open \/ j = Len(open) + 1
          /\ open'[Len(open) + 1].request = next
      BY <1>6, OpensPlaces
    <2>3. \A n \in DOMAIN done : done[n].request < next
      BY PlacesFacts
    <2>4. \A j \in DOMAIN open', n \in DOMAIN done :
             done[n].final # 0 /\ ServiceOf(done[n].request) = ServiceOf(open'[j].request)
               => done[n].request < open'[j].request
      BY <2>2, <2>3 DEF OrderInv
    <2> QED
      BY <2>1, <2>4 DEF OrderInv, InOrder, ServiceOf
  <1>7. CASE ResponsePending
    <2>1. PICK i : Pends(i)
      BY <1>7, PendingPends
    <2>2. UNCHANGED <<messages, done>> /\ DOMAIN open' = DOMAIN open
          /\ \A j \in DOMAIN open : open'[j].request = open[j].request
      BY <2>1 DEF Pends, Response, Passes, session
    <2> QED
      BY <2>2 DEF OrderInv, InOrder, ServiceOf
  <1> QED
    BY <1>1, <1>2, <1>3, <1>5, <1>6, <1>7 DEF Next, Analyze
-----------------------------------------------------------------------------
(* The evidence.                                                            *)

(* What a rank is computed from.                                            *)
Ranked(t) ==
  /\ t \in DoneType /\ t.request \in DOMAIN messages /\ Began(t)
  /\ t.final # 0 <=> t.status \in Answers
  /\ t.final # 0 => /\ t.final \in DOMAIN messages
                    /\ messages[t.final].first >= messages[t.request].last

LEMMA RankFacts ==
  ASSUME TypeOK, MessagesInv, NEW t, Ranked(t), NEW n \in Nat
  PROVE  Rank(t, n) \in RankType /\ Rank(t, n)[3] = n
  <1>1. /\ t.first \in Nat /\ t.final \in Nat /\ t.status \in Statuses
        /\ messages[t.request].last \in Nat
    BY MessagesOrder DEF Ranked, DoneType
  <1>2. \A i \in DOMAIN messages : messages[i].first \in Nat
    BY MessagesOrder
  <1>3. Latency(t, t.first) \in Nat
    BY <1>1, <1>2 DEF Latency, Ranked, Began
  <1>4. t.final # 0 => Latency(t, t.final) \in Nat
    BY <1>1, <1>2 DEF Latency, Ranked
  <1> DEFINE priority == CASE t.status = "timeout"    -> 6
                           [] t.status = "ended"      -> 5
                           [] t.status = "negative"   -> 4
                           [] t.status = "positive"   -> 2
                           [] t.status = "suppressed" -> 1
  <1>5. priority \in Nat
    BY <1>1 DEF Statuses
  <1>6. Rank(t, n) = << priority + (IF t.pendings # <<>> THEN 1 ELSE 0),
                        Measured(t), n >>
    BY DEF Rank
  <1>7. Measured(t) \in Nat
    BY <1>3, <1>4 DEF Measured
  <1> HIDE DEF priority
  <1> QED
    BY <1>5, <1>6, <1>7 DEF RankType

LEMMA DoneRanked ==
  ASSUME TypeOK, RequestsInv, AnswersInv, DoneInv, NEW n \in DOMAIN done
  PROVE  Ranked(done[n]) /\ n \in Nat
  <1>1. done[n] \in DoneType /\ done[n].request \in DOMAIN messages /\ DoneFine(done[n])
    BY PlacesFacts, DoneInvMeans
  <1>2. \A r \in Responses : r \in DOMAIN messages
    BY SeenFacts
  <1> QED
    BY <1>1, <1>2, OpenFacts DEF Ranked, DoneFine, AnswerFits, StatusFits

(* A rank is that of the messages it is computed from.                      *)
LEMMA SameRank ==
  ASSUME TypeOK, NEW t, Ranked(t), NEW n,
         \A k \in DOMAIN messages : messages'[k] = messages[k]
  PROVE  Rank(t, n)' = Rank(t, n)
  <1>1. messages'[t.request] = messages[t.request]
    BY DEF Ranked
  <1>2. Latency(t, t.first)' = Latency(t, t.first)
    BY <1>1 DEF Latency, Ranked, Began
  <1>3. t.final # 0 => Latency(t, t.final)' = Latency(t, t.final)
    BY <1>1 DEF Latency, Ranked
  <1> QED
    BY <1>2, <1>3 DEF Rank, Measured

(* The ranks of the transactions are in K.                                  *)
LEMMA BestMeans ==
  ASSUME NEW K, \A n \in DOMAIN done : K[n] = Rank(done[n], n), evidence \subseteq DOMAIN done
  PROVE  EvidenceRanks <=>
           /\ \A e \in evidence, n \in DOMAIN done \ evidence : Below(K[n], K[e])
           /\ Cardinality(evidence) = IF Len(done) > MaxEvidence THEN MaxEvidence ELSE Len(done)
           /\ truncated = (Len(done) > MaxEvidence)
  BY DEF EvidenceRanks

LEMMA BestNext ==
  ASSUME NEW K,
         \A n \in DOMAIN done' : \E t : done'[n] = t /\ K[n] = Rank(t, n)',
         evidence' \subseteq DOMAIN done',
         \A e \in evidence', n \in DOMAIN done' \ evidence' : Below(K[n], K[e]),
         Cardinality(evidence')
            = IF Len(done') > MaxEvidence THEN MaxEvidence ELSE Len(done'),
         truncated' = (Len(done') > MaxEvidence)
  PROVE  EvidenceRanks'
  <1>1. \A n \in DOMAIN done' : K[n] = Rank(done[n], n)'
    BY DEF Rank, Measured, Latency
  <1> QED
    BY <1>1 DEF EvidenceRanks

LEMMA SameBest ==
  ASSUME TypeOK, RequestsInv, AnswersInv, DoneInv, EvidenceRanks,
         UNCHANGED <<done, evidence, truncated>>,
         \A k \in DOMAIN messages : messages'[k] = messages[k]
  PROVE  EvidenceRanks'
  <1>1. PICK K : K = [n \in DOMAIN done |-> Rank(done[n], n)]
    OBVIOUS
  <1>2. evidence \subseteq DOMAIN done /\ \A n \in DOMAIN done : K[n] = Rank(done[n], n)
    BY <1>1 DEF TypeOK
  <1>3. /\ \A e \in evidence, n \in DOMAIN done \ evidence : Below(K[n], K[e])
        /\ Cardinality(evidence) = IF Len(done) > MaxEvidence THEN MaxEvidence ELSE Len(done)
        /\ truncated = (Len(done) > MaxEvidence)
    BY <1>2, BestMeans
  <1>4. ASSUME NEW n \in DOMAIN done' PROVE \E t : done'[n] = t /\ K[n] = Rank(t, n)'
    <2>1. PICK t : t = done[n] /\ Ranked(t) /\ K[n] = Rank(t, n)
      BY <1>2, DoneRanked
    <2>2. Rank(t, n)' = Rank(t, n)
      BY <2>1, SameRank
    <2> QED
      BY <2>1, <2>2
  <1> QED
    BY <1>2, <1>3, <1>4, BestNext

(* One more transaction.                                                    *)
LEMMA LeavesBest ==
  ASSUME TypeOK, MessagesInv, RequestsInv, AnswersInv, DoneInv, EvidenceRanks,
         NEW i, NEW t, Leaves(i, t), Ranked(t)
  PROVE  EvidenceRanks'
  <1> DEFINE N == Len(done) + 1
  <1>1. /\ done' \in Seq(DoneType) /\ Len(done') = N /\ DOMAIN done' = 1 .. N
        /\ \A n \in DOMAIN done : n \in DOMAIN done' /\ done'[n] = done[n]
        /\ done'[N] = t /\ N \notin DOMAIN done /\ N \in DOMAIN done'
        /\ \A n \in DOMAIN done' : n \in DOMAIN done \/ n = N
    BY LeavesPlaces
  <1>2. /\ Len(done) \in Nat /\ DOMAIN done = 1 .. Len(done) /\ N \in Nat
        /\ MaxEvidence \in Nat /\ MaxEvidence # 0
    BY OpenFacts, UdsAssumption
  <1>3. messages' = messages
    BY DEF Leaves, session
  <1>4. PICK K : K = [n \in 1 .. N |-> IF n = N THEN Rank(t, n) ELSE Rank(done[n], n)]
    OBVIOUS
  <1>5. /\ K[N] = Rank(t, N) /\ K[N] \in RankType /\ K[N][3] = N
        /\ \A n \in DOMAIN done :
              K[n] = Rank(done[n], n) /\ K[n] \in RankType /\ K[n][3] = n
    <2>1. K[N] = Rank(t, N)
      BY <1>2, <1>4
    <2>2. Rank(t, N) \in RankType /\ Rank(t, N)[3] = N
      BY <1>2, RankFacts
    <2>3. ASSUME NEW n \in DOMAIN done
          PROVE  K[n] = Rank(done[n], n) /\ K[n] \in RankType /\ K[n][3] = n
      <3>1. n \in 1 .. N /\ n # N
        BY <1>2
      <3>2. K[n] = Rank(done[n], n)
        BY <1>4, <3>1
      <3>3. Ranked(done[n]) /\ n \in Nat
        BY DoneRanked
      <3> HIDE DEF N
      <3> QED
        BY <3>2, <3>3, RankFacts
    <2> HIDE DEF N
    <2> QED
      BY <2>1, <2>2, <2>3
  <1>6. evidence \subseteq DOMAIN done
    BY DEF TypeOK
  <1>7. /\ \A e \in evidence, n \in DOMAIN done \ evidence : Below(K[n], K[e])
        /\ Cardinality(evidence) = IF Len(done) > MaxEvidence THEN MaxEvidence ELSE Len(done)
        /\ truncated = (Len(done) > MaxEvidence)
    BY <1>5, <1>6, BestMeans
  <1>8. ASSUME NEW n \in DOMAIN done' PROVE \E s : done'[n] = s /\ K[n] = Rank(s, n)'
    <2>1. PICK s : done'[n] = s /\ K[n] = Rank(s, n) /\ Ranked(s)
      BY <1>1, <1>5, DoneRanked
    <2>2. Rank(s, n)' = Rank(s, n)
      BY <1>3, <2>1, SameRank
    <2> QED
      BY <2>1, <2>2
  <1>9. IsFiniteSet(DOMAIN done) /\ Cardinality(DOMAIN done) = Len(done)
    <2>1. 1 \in Int /\ Len(done) \in Int
      BY <1>2
    <2>2. /\ IsFiniteSet(1 .. Len(done))
          /\ Cardinality(1 .. Len(done)) = IF 1 > Len(done) THEN 0 ELSE Len(done) - 1 + 1
      BY <2>1, FS_Interval
    <2> QED
      BY <1>2, <2>2
  <1>10. IsFiniteSet(evidence) /\ N \notin evidence
    BY <1>1, <1>6, <1>9, FS_Subset
  <1>11. /\ \A n \in DOMAIN done : n # N
         /\ \A a, b \in DOMAIN done \cup {N} : a # b => K[a][3] # K[b][3]
    BY <1>1, <1>5
  <1>12. Retain(t, N)
    BY DEF Leaves
  <1>13. /\ Cardinality(evidence) \in Nat
         /\ Len(done) > MaxEvidence => Cardinality(evidence) = MaxEvidence
         /\ ~ (Len(done) > MaxEvidence) => Cardinality(evidence) = Len(done)
    BY <1>7, <1>10, FS_CardinalityType
  <1>14. CASE Cardinality(evidence) < MaxEvidence
    <2>1. Cardinality(evidence) = Len(done) /\ Len(done) < MaxEvidence
      <3> HIDE DEF N
      <3> QED
        BY <1>2, <1>13, <1>14
    <2>2. evidence = DOMAIN done
      BY <1>6, <1>9, <2>1, FS_Subset
    <2>3. evidence' = evidence \cup {N} /\ truncated' = truncated
      BY <1>12, <1>14 DEF Retain
    <2>4. evidence' = DOMAIN done'
      BY <1>1, <2>2, <2>3
    <2>5. Cardinality(evidence') = N
      BY <1>10, <2>1, <2>3, FS_AddElement
    <2>6. ~ (Len(done') > MaxEvidence) /\ ~ (Len(done) > MaxEvidence)
      BY <1>1, <1>2, <2>1
    <2>7. /\ Cardinality(evidence')
                = IF Len(done') > MaxEvidence THEN MaxEvidence ELSE Len(done')
          /\ truncated' = (Len(done') > MaxEvidence)
      BY <1>1, <1>7, <2>3, <2>5, <2>6
    <2> HIDE DEF N
    <2> QED
      BY <1>8, <2>4, <2>7, BestNext
  <1>15. CASE ~ (Cardinality(evidence) < MaxEvidence)
    <2>1. Cardinality(evidence) = MaxEvidence /\ Len(done') > MaxEvidence
      <3>1. Cardinality(evidence) = MaxEvidence /\ Len(done) >= MaxEvidence
        BY <1>2, <1>13, <1>15
      <3> QED
        BY <1>1, <1>2, <3>1
    <2>2. evidence # {}
      BY <1>2, <2>1, FS_EmptySet
    <2> DEFINE rank(e) == IF e = N THEN Rank(t, N) ELSE Rank(done[e], e)
               l == CHOOSE e \in evidence : \A f \in evidence \ {e} : Below(rank(e), rank(f))
    <2>3. /\ truncated' = TRUE
          /\ evidence' = IF Below(rank(l), rank(N)) THEN (evidence \ {l}) \cup {N} ELSE evidence
      BY <1>12, <1>15 DEF Retain
    <2>4. rank(N) = K[N] /\ \A e \in evidence : rank(e) = K[e]
      BY <1>5, <1>6, <1>11
    <2> HIDE DEF N, rank
    <2>5. \E e \in evidence : \A f \in evidence \ {e} : Below(K[e], K[f])
      <3> DEFINE L == [e \in evidence |-> K[e]]
      <3>1. L \in [evidence -> RankType] /\ \A e \in evidence : L[e] = K[e]
        BY <1>5, <1>6
      <3>2. \A e, f \in evidence : e # f => L[e][3] # L[f][3]
        BY <1>6, <1>11, <3>1
      <3> HIDE DEF L
      <3>3. \E e \in evidence : \A f \in evidence \ {e} : Below(L[e], L[f])
        BY <2>2, <3>1, <3>2, LowestRank
      <3> QED
        BY <3>1, <3>3
    <2>6. \E e \in evidence : \A f \in evidence \ {e} : Below(rank(e), rank(f))
      BY <2>4, <2>5
    <2>7. l \in evidence /\ \A f \in evidence \ {l} : Below(rank(l), rank(f))
      BY <2>6
    <2> HIDE DEF l
    <2>8. \A f \in evidence \ {l} : Below(K[l], K[f])
      BY <2>4, <2>7
    <2>9. /\ \A a, b, c \in DOMAIN done \cup {N} :
                Below(K[a], K[b]) /\ Below(K[b], K[c]) => Below(K[a], K[c])
          /\ \A a, b \in DOMAIN done \cup {N} : a # b => Below(K[a], K[b]) \/ Below(K[b], K[a])
      <3>1. \A a \in DOMAIN done \cup {N} : K[a] \in RankType
        BY <1>5
      <3> QED
        BY <1>11, <3>1, BelowIsStrict
    <2>10. /\ evidence' \subseteq DOMAIN done'
           /\ \A e \in evidence', n \in DOMAIN done' \ evidence' : Below(K[n], K[e])
           /\ Cardinality(evidence') = MaxEvidence
      <3>1. CASE Below(K[l], K[N])
        <4>1. evidence' = (evidence \ {l}) \cup {N}
          BY <2>3, <2>4, <2>7, <3>1
        <4>2. evidence' \subseteq DOMAIN done'
          BY <1>1, <1>6, <4>1
        <4>3. \A n \in DOMAIN done' \ evidence' : n = l \/ n \in DOMAIN done \ evidence
          BY <1>1, <4>1
        <4>4. \A n \in DOMAIN done \ evidence : Below(K[n], K[l])
          BY <1>7, <2>7
        <4>5. \A n \in DOMAIN done \ evidence : Below(K[n], K[N])
          BY <1>6, <2>7, <2>9, <3>1, <4>4
        <4>6. \A e \in evidence', n \in DOMAIN done' \ evidence' : Below(K[n], K[e])
          BY <1>7, <2>8, <3>1, <4>1, <4>3, <4>5
        <4>7. /\ IsFiniteSet(evidence \ {l}) /\ Cardinality(evidence \ {l}) = MaxEvidence - 1
              /\ N \notin evidence \ {l}
          BY <1>10, <2>1, <2>7, FS_RemoveElement
        <4>8. Cardinality(evidence') = MaxEvidence - 1 + 1
          BY <4>1, <4>7, FS_AddElement
        <4> QED
          BY <1>2, <4>2, <4>6, <4>8
      <3>2. CASE ~Below(K[l], K[N])
        <4>1. evidence' = evidence
          BY <2>3, <2>4, <2>7, <3>2
        <4>2. Below(K[N], K[l])
          BY <1>6, <1>10, <2>7, <2>9, <3>2
        <4>3. \A e \in evidence : Below(K[N], K[e])
          BY <1>6, <2>7, <2>8, <2>9, <4>2
        <4>4. \A n \in DOMAIN done' \ evidence' : n = N \/ n \in DOMAIN done \ evidence
          BY <1>1, <4>1
        <4> QED
          BY <1>1, <1>6, <1>7, <2>1, <4>1, <4>3, <4>4
      <3> QED
        BY <3>1, <3>2
    <2>11. /\ Cardinality(evidence')
                 = IF Len(done') > MaxEvidence THEN MaxEvidence ELSE Len(done')
           /\ truncated' = (Len(done') > MaxEvidence)
      BY <2>1, <2>3, <2>10
    <2> QED
      BY <1>8, <2>10, <2>11, BestNext
  <1> QED
    BY <1>14, <1>15

LEMMA InitBest == Init => EvidenceRanks
  <1> SUFFICES ASSUME Init PROVE EvidenceRanks
    OBVIOUS
  <1>1. evidence = {} /\ Len(done) = 0 /\ truncated = FALSE /\ Cardinality(evidence) = 0
    BY FS_EmptySet DEF Init
  <1>2. ~ (Len(done) > MaxEvidence)
    BY <1>1, UdsAssumption
  <1>3. truncated = (Len(done) > MaxEvidence)
    <2> DEFINE P == Len(done) > MaxEvidence
    <2>1. P = FALSE
      BY <1>2
    <2> HIDE DEF P
    <2>2. truncated = P
      BY <1>1, <2>1
    <2> QED
      BY <2>2 DEF P
  <1>4. Cardinality(evidence) = IF Len(done) > MaxEvidence THEN MaxEvidence ELSE Len(done)
    BY <1>1, <1>2
  <1> QED
    BY <1>1, <1>3, <1>4 DEF EvidenceRanks

LEMMA NextBest ==
  /\ TypeOK /\ MessagesInv /\ RequestsInv /\ AnswersInv
  /\ OpenInv /\ DoneInv /\ EvidenceRanks /\ [Next]_vars
  => EvidenceRanks'
  <1> SUFFICES ASSUME TypeOK, MessagesInv, RequestsInv, AnswersInv, OpenInv, DoneInv,
                      EvidenceRanks, [Next]_vars
               PROVE  EvidenceRanks'
    OBVIOUS
  <1>1. CASE Frame
    <2>1. PICK ms : Grows(ms)
      BY <1>1, FrameGrows
    <2> QED
      BY <2>1, GrowsSeen, SameBest DEF Grows, results
  <1>2. ASSUME NEW i, NEW t, Leaves(i, t), DoneFine(t)', t.final # 0 => t.final \in DOMAIN messages
        PROVE  EvidenceRanks'
    <2>1. /\ t \in DoneType /\ t.request = open[i].request /\ i \in DOMAIN open
          /\ messages' = messages
      BY <1>2 DEF Leaves, session
    <2>2. t.request \in DOMAIN messages
      BY <2>1, PlacesFacts
    <2>3. Ranked(t)
      BY <1>2, <2>1, <2>2 DEF DoneFine, Ranked, Began, AnswerFits, StatusFits
    <2> QED
      BY <1>2, <2>3, LeavesBest
  <1>3. CASE Expire \/ Close
    <2>1. PICK i, t : Drops(i, t)
      BY <1>3, ExpireDrops, CloseDrops
    <2>2. DoneFine(t)'
      BY <2>1, DropsFine
    <2> QED
      BY <1>2, <2>1, <2>2 DEF Drops
  <1>4. CASE FinalResponse
    <2>1. PICK i, t : Pairs(i, t)
      BY <1>4, FinalAnswers
    <2>2. DoneFine(t)'
      BY <2>1, PairsFine
    <2>3. Leaves(i, t) /\ t.final \in DOMAIN messages
      BY <2>1, PassesFacts DEF Pairs, Response
    <2> QED
      BY <1>2, <2>2, <2>3
  <1>5. CASE \/ CountIncomplete \/ SkipUnknown \/ OpenRequest \/ ResponsePending
             \/ UnmatchedResponse \/ Finish \/ UNCHANGED vars
    <2>1. UNCHANGED <<messages, done, evidence, truncated>>
      BY <1>5 DEF CountIncomplete, SkipUnknown, OpenRequest, ResponsePending, UnmatchedResponse,
                  Response, Passes, Finish, session, results, vars
    <2> QED
      BY <2>1, SameBest
  <1> QED
    BY <1>1, <1>3, <1>4, <1>5 DEF Next, Analyze

LEMMA InitOpen == Init => OpenInv
  BY DEF Init, OpenInv

LEMMA InitDone == Init => DoneInv
  BY DEF Init, DoneInv

(* Together they are inductive.                                             *)
LEMMA InitUds == Init => UdsIInv
  BY InitType, InitMessages, InitRequests, InitAnswers, InitCounts, InitOpen, InitDone,
     InitOrder, InitBest
     DEF UdsIInv

LEMMA NextUds == UdsIInv /\ [Next]_vars => UdsIInv'
  <1> SUFFICES ASSUME UdsIInv, [Next]_vars PROVE UdsIInv'
    OBVIOUS
  <1>1. /\ TypeOK /\ MessagesInv /\ RequestsInv /\ AnswersInv /\ CountsInv
        /\ OpenInv /\ DoneInv /\ OrderInv /\ EvidenceRanks
    BY DEF UdsIInv
  <1>2. TypeOK' /\ MessagesInv'
    BY <1>1, NextType, NextMessages
  <1>3. RequestsInv' /\ AnswersInv' /\ CountsInv'
    BY <1>1, NextRequests, NextAnswers, NextCounts
  <1>4. OpenInv' /\ DoneInv'
    BY <1>1, NextOpen, NextDone
  <1>5. OrderInv' /\ EvidenceRanks'
    BY <1>1, NextOrder, NextBest
  <1> QED
    BY <1>2, <1>3, <1>4, <1>5 DEF UdsIInv

-----------------------------------------------------------------------------
(* What follows.                                                            *)

(* Every open request and every transaction is at one place of both.        *)
LEMMA TakenFacts ==
  ASSUME TypeOK
  PROVE  LET taken == open \o done
         IN  /\ Len(taken) = Len(open) + Len(done)
             /\ \A n \in DOMAIN taken :
                  \/ n \in DOMAIN open /\ taken[n] = open[n]
                  \/ /\ n - Len(open) \in DOMAIN done /\ n \notin DOMAIN open
                     /\ taken[n] = done[n - Len(open)]
             /\ \A i \in DOMAIN open : i \in DOMAIN taken /\ taken[i] = open[i]
             /\ \A k \in DOMAIN done : Len(open) + k \in DOMAIN taken
                                       /\ taken[Len(open) + k] = done[k]
             /\ DOMAIN taken \subseteq Nat /\ Len(open) \in Nat
  <1> DEFINE U == OpenType \cup DoneType
             taken == open \o done
  <1>1. open \in Seq(U) /\ done \in Seq(U)
    <2>1. open \in Seq(OpenType) /\ done \in Seq(DoneType)
      BY DEF TypeOK
    <2> HIDE DEF U
    <2>2. OpenType \subseteq U /\ DoneType \subseteq U
      BY DEF U
    <2> QED
      BY <2>1, <2>2
  <1> HIDE DEF U
  <1>2. /\ taken \in Seq(U) /\ Len(taken) = Len(open) + Len(done)
        /\ \A n \in 1 .. Len(open) + Len(done) :
              taken[n] = IF n <= Len(open) THEN open[n] ELSE done[n - Len(open)]
    BY <1>1
  <1>3. DOMAIN taken = 1 .. Len(open) + Len(done)
    BY <1>1, <1>2, SeqFacts
  <1>4. /\ Len(open) \in Nat /\ DOMAIN open = 1 .. Len(open)
        /\ Len(done) \in Nat /\ DOMAIN done = 1 .. Len(done)
    BY OpenFacts
  <1> HIDE DEF taken
  <1>5. \A n \in DOMAIN taken :
           \/ n \in DOMAIN open /\ taken[n] = open[n]
           \/ /\ n - Len(open) \in DOMAIN done /\ n \notin DOMAIN open
              /\ taken[n] = done[n - Len(open)]
    BY <1>2, <1>3, <1>4
  <1>6. \A i \in DOMAIN open : i \in DOMAIN taken /\ taken[i] = open[i]
    BY <1>2, <1>3, <1>4
  <1>7. \A k \in DOMAIN done : Len(open) + k \in DOMAIN taken /\ taken[Len(open) + k] = done[k]
    BY <1>2, <1>3, <1>4
  <1>8. DOMAIN taken \subseteq Nat
    BY <1>3, <1>4
  <1> QED
    BY <1>2, <1>4, <1>5, <1>6, <1>7, <1>8 DEF taken

LEMMA UdsOnce == UdsIInv => EachMessageOnce
  <1> SUFFICES ASSUME UdsIInv PROVE EachMessageOnce
    OBVIOUS
  <1>1. TypeOK /\ RequestsInv /\ AnswersInv /\ CountsInv
    BY DEF UdsIInv
  <1>2. PICK taken : taken = open \o done
    OBVIOUS
  <1>3. /\ Len(taken) = Len(open) + Len(done)
        /\ \A n \in DOMAIN taken :
              \/ n \in DOMAIN open /\ taken[n] = open[n]
              \/ /\ n - Len(open) \in DOMAIN done /\ n \notin DOMAIN open
                 /\ taken[n] = done[n - Len(open)]
        /\ \A i \in DOMAIN open : i \in DOMAIN taken /\ taken[i] = open[i]
        /\ \A k \in DOMAIN done : Len(open) + k \in DOMAIN taken
                                  /\ taken[Len(open) + k] = done[k]
        /\ DOMAIN taken \subseteq Nat /\ Len(open) \in Nat
    BY <1>1, <1>2, TakenFacts
  <1>4. {taken[n].request : n \in DOMAIN taken} = Requests
    <2>1. \A n \in DOMAIN taken : taken[n].request \in Requests
      BY <1>1, <1>3 DEF RequestsInv
    <2>2. \A r \in Requests : \E n \in DOMAIN taken : taken[n].request = r
      <3> SUFFICES ASSUME NEW r \in Requests PROVE \E n \in DOMAIN taken : taken[n].request = r
        OBVIOUS
      <3>1. \/ \E i \in DOMAIN open : open[i].request = r
            \/ \E n \in DOMAIN done : done[n].request = r
        BY <1>1 DEF RequestsInv
      <3> QED
        BY <1>3, <3>1
    <2> QED
      BY <2>1, <2>2
  <1>5. Len(taken) = Cardinality(Requests) /\ tally.requests = Len(taken)
    BY <1>1, <1>3 DEF RequestsInv
  <1>6. (UNION {AnswersOf(taken[n]) : n \in DOMAIN taken}) \cup Items(unmatched) = Responses
    <2>1. \A n \in DOMAIN taken : AnswersOf(taken[n]) \subseteq Responses
      BY <1>1, <1>3 DEF AnswersInv
    <2>2. \A r \in Responses :
             (\E n \in DOMAIN taken : r \in AnswersOf(taken[n])) \/ r \in Items(unmatched)
      <3> SUFFICES ASSUME NEW r \in Responses
                   PROVE  (\E n \in DOMAIN taken : r \in AnswersOf(taken[n]))
                             \/ r \in Items(unmatched)
        OBVIOUS
      <3>1. \/ \E i \in DOMAIN open : r \in AnswersOf(open[i])
            \/ \E n \in DOMAIN done : r \in AnswersOf(done[n])
            \/ r \in Items(unmatched)
        BY <1>1 DEF AnswersInv
      <3> QED
        BY <1>3, <3>1
    <2>3. Items(unmatched) \subseteq Responses
      BY <1>1 DEF AnswersInv
    <2> QED
      BY <2>1, <2>2, <2>3
  <1>7. \A n, k \in DOMAIN taken :
           n # k => AnswersOf(taken[n]) \cap AnswersOf(taken[k]) = {}
    <2> SUFFICES ASSUME NEW n \in DOMAIN taken, NEW k \in DOMAIN taken, n # k
                 PROVE  AnswersOf(taken[n]) \cap AnswersOf(taken[k]) = {}
      OBVIOUS
    <2>1. /\ \A i, j \in DOMAIN open : i # j => AnswersOf(open[i]) \cap AnswersOf(open[j]) = {}
          /\ \A i, j \in DOMAIN done : i # j => AnswersOf(done[i]) \cap AnswersOf(done[j]) = {}
          /\ \A i \in DOMAIN open, j \in DOMAIN done :
                AnswersOf(open[i]) \cap AnswersOf(done[j]) = {}
      BY <1>1 DEF AnswersInv
    <2>2. CASE n \in DOMAIN open /\ k \in DOMAIN open
      BY <1>3, <2>1, <2>2
    <2>3. CASE n \in DOMAIN open /\ k \notin DOMAIN open
      BY <1>3, <2>1, <2>3
    <2>4. CASE n \notin DOMAIN open /\ k \in DOMAIN open
      BY <1>3, <2>1, <2>4
    <2>5. CASE n \notin DOMAIN open /\ k \notin DOMAIN open
      <3>1. /\ n - Len(open) \in DOMAIN done /\ taken[n] = done[n - Len(open)]
            /\ k - Len(open) \in DOMAIN done /\ taken[k] = done[k - Len(open)]
        BY <1>3, <2>5
      <3>2. n - Len(open) # k - Len(open)
        BY <1>3
      <3> QED
        BY <2>1, <3>1, <3>2
    <2> QED
      BY <2>2, <2>3, <2>4, <2>5
  <1>8. \A n \in DOMAIN taken : AnswersOf(taken[n]) \cap Items(unmatched) = {}
    BY <1>1, <1>3 DEF AnswersInv
  <1>9. /\ \A status \in Statuses : tally[status] = Ended(status)
        /\ tally.slow = Cardinality({n \in DOMAIN done : done[n].pendings # <<>>})
        /\ tally.positive + tally.negative + tally.pending + tally.unmatched
              = Cardinality(Responses)
    BY <1>1 DEF CountsInv
  <1> QED
    BY <1>2, <1>4, <1>5, <1>6, <1>7, <1>8, <1>9 DEF EachMessageOnce

LEMMA UdsPairs == UdsIInv => PairsAreTrue
  <1> SUFFICES ASSUME UdsIInv PROVE PairsAreTrue
    OBVIOUS
  <1>1. TypeOK /\ RequestsInv /\ AnswersInv /\ DoneInv /\ InOrder
    BY DEF UdsIInv, OrderInv
  <1>2. ASSUME NEW n \in DOMAIN done
        PROVE  LET t == done[n]
                   window(time) == messages[t.request].last <= time /\ time < t.reference + Timeout
               IN /\ t.status \in Answers =>
                         /\ window(messages[t.final].first)
                         /\ ServiceOf(t.final) = ServiceOf(t.request)
                         /\ messages[t.final].content.answer = t.status
                  /\ t.status \in {"timeout", "ended"} => (t.status = "timeout") =
                                                          (clock >= t.reference + Timeout)
                  /\ t.status = "suppressed" => t.pendings = <<>>
                  /\ t.status \notin Answers =>
                         ~\E u \in Items(unmatched) :
                             /\ u > t.request /\ messages[u].first = messages[u].last
                             /\ ServiceOf(u) = ServiceOf(t.request) /\ window(messages[u].first)
    <2> DEFINE t == done[n]
               window(time) == messages[t.request].last <= time /\ time < t.reference + Timeout
    <2>1. /\ t \in DoneType /\ t.request \in DOMAIN messages
          /\ Began(t) /\ StatusFits(t) /\ AnswerFits(t)
          /\ t.final = 0 => OverFor(t) /\ MissedNone(t)
      BY <1>1, PlacesFacts, DoneInvMeans DEF DoneFine
    <2>2. /\ t.reference \in Nat /\ Timeout \in Nat /\ clock \in Nat
          /\ \A k \in DOMAIN messages : messages[k].first \in Nat /\ messages[k].last \in Nat
      <3>1. \A k \in DOMAIN messages : messages[k] \in MessageType
        BY <1>1, OpenFacts
      <3> QED
        BY <1>1, <2>1, <3>1, OpenFacts, UdsAssumption DEF DoneType, MessageType
    <2> HIDE DEF t
    <2>3. ASSUME t.status \in Answers
          PROVE  /\ window(messages[t.final].first)
                 /\ ServiceOf(t.final) = ServiceOf(t.request)
                 /\ messages[t.final].content.answer = t.status
      <3>1. t.final # 0 /\ t.final \in DOMAIN messages
        BY <1>1, <2>1, <2>3, SeenFacts DEF StatusFits, AnswerFits
      <3> QED
        BY <2>1, <2>2, <3>1 DEF AnswerFits
    <2>4. ASSUME t.status \in {"timeout", "ended"}
          PROVE  (t.status = "timeout") = (clock >= t.reference + Timeout)
      <3>1. CASE t.status = "timeout"
        BY <2>1, <3>1 DEF StatusFits
      <3>2. CASE t.status = "ended"
        <4>1. clock < t.reference + Timeout
          BY <2>1, <3>2 DEF StatusFits
        <4>2. ~ (clock >= t.reference + Timeout)
          BY <2>2, <4>1
        <4> QED
          BY <3>2, <4>2
      <3> QED
        BY <2>4, <3>1, <3>2
    <2>5. t.status = "suppressed" => t.pendings = <<>>
      BY <2>1 DEF StatusFits
    <2>6. ASSUME t.status \notin Answers, NEW u \in Items(unmatched),
                 u > t.request, messages[u].first = messages[u].last,
                 ServiceOf(u) = ServiceOf(t.request), window(messages[u].first)
          PROVE  FALSE
      <3>1. MissedNone(t)
        BY <2>1, <2>6 DEF StatusFits
      <3>2. messages[u].first >= t.reference + Timeout
        BY <2>6, <3>1 DEF MissedNone
      <3>3. u \in DOMAIN messages
        BY <1>1, PlacesFacts
      <3> QED
        BY <2>2, <2>6, <3>2, <3>3
    <2> QED
      BY <2>3, <2>4, <2>5, <2>6 DEF t
  <1> QED
    BY <1>1, <1>2 DEF PairsAreTrue, StatusIsTrue

(* The numbers of the code follow the classes of the report, a step more    *)
(* for 0x78: what is kept is above what is dropped in the report's order    *)
(* too, or was lifted.                                                      *)
LEMMA RankedAsReported ==
  ASSUME TypeOK, MessagesInv, NEW e, NEW n, Ranked(e), Ranked(n),
         NEW i \in Nat, NEW j \in Nat,
         e.status = "suppressed" => e.pendings = <<>> /\ e.first = 0,
         n.status = "suppressed" => n.pendings = <<>> /\ n.first = 0,
         Below(Rank(n, j), Rank(e, i)), Below(ReportRank(e), ReportRank(n))
  PROVE  Lifted(e, n)
  <1>1. /\ e.status \in Statuses /\ n.status \in Statuses
        /\ Measured(e) \in Nat /\ Measured(n) \in Nat
    BY RankFacts DEF Ranked, DoneType, Rank, RankType
  <1>2. n.status = "suppressed" => Measured(n) = 0
    BY DEF Ranked, Measured, Latency, Answers
  <1>3. /\ Class(n) \in 0 .. 3 /\ Class(e) \in 0 .. 3
        /\ Class(n) = 0 <=> n.status \in {"positive", "suppressed"}
        /\ Class(e) = 0 <=> e.status \in {"positive", "suppressed"}
        /\ Class(n) = Class(e) /\ Class(e) # 0 => n.status = e.status
    BY <1>1 DEF Class, Statuses
  <1> DEFINE Priority(t) == IF t.status = "suppressed" THEN 1
                            ELSE IF t.status = "positive" THEN 2 ELSE 3 + Class(t)
             Pending(t) == IF t.pendings # <<>> THEN 1 ELSE 0
  <1>4. /\ Rank(n, j) = << Priority(n) + Pending(n), Measured(n), j >>
        /\ Rank(e, i) = << Priority(e) + Pending(e), Measured(e), i >>
    BY <1>1 DEF Rank, Class, Statuses
  <1>5. /\ ReportRank(n) = << Class(n), Pending(n), Measured(n) >>
        /\ ReportRank(e) = << Class(e), Pending(e), Measured(e) >>
    BY DEF ReportRank
  <1>6. /\ Pending(n) \in {0, 1} /\ Pending(e) \in {0, 1}
        /\ Pending(n) = 0 <=> n.pendings = <<>>
        /\ Pending(e) = 0 <=> e.pendings = <<>>
    OBVIOUS
  <1>7. /\ n.status = "suppressed" => Priority(n) = 1 /\ Pending(n) = 0
        /\ e.status = "suppressed" => Priority(e) = 1 /\ Pending(e) = 0
        /\ n.status = "positive" => Priority(n) = 2
        /\ e.status = "positive" => Priority(e) = 2
        /\ Class(n) # 0 => Priority(n) = 3 + Class(n)
        /\ Class(e) # 0 => Priority(e) = 3 + Class(e)
    BY <1>3
  <1> HIDE DEF Priority, Pending
  <1>8. \/ Priority(n) + Pending(n) < Priority(e) + Pending(e)
        \/ /\ Priority(n) + Pending(n) = Priority(e) + Pending(e)
           /\ Measured(n) <= Measured(e)
    BY <1>1, <1>4 DEF Below
  <1>9. \/ Class(e) < Class(n)
        \/ Class(e) = Class(n) /\ Pending(e) < Pending(n)
        \/ Class(e) = Class(n) /\ Pending(e) = Pending(n) /\ Measured(e) < Measured(n)
    BY <1>5 DEF Below
  <1>10. CASE Class(e) < Class(n)
    <2>1. Class(n) # 0 /\ Priority(n) = 3 + Class(n)
      BY <1>3, <1>7, <1>10
    <2>2. Class(e) # 0
      BY <1>3, <1>6, <1>7, <1>8, <2>1
    <2>3. Class(n) = Class(e) + 1 /\ Pending(e) = 1 /\ Pending(n) = 0
      BY <1>3, <1>6, <1>7, <1>8, <1>10, <2>1, <2>2
    <2> QED
      BY <1>6, <2>2, <2>3 DEF Lifted
  <1>11. CASE Class(e) = Class(n) /\ Class(e) # 0
    <2>1. Priority(e) = Priority(n) /\ Priority(e) \in Nat
      BY <1>3, <1>7, <1>11
    <2> QED
      BY <1>1, <1>6, <1>8, <1>9, <1>11, <2>1, <1>3
  <1>12. CASE Class(e) = 0 /\ Class(n) = 0
    BY <1>1, <1>2, <1>3, <1>6, <1>7, <1>8, <1>9, <1>12
  <1> QED
    BY <1>3, <1>9, <1>10, <1>11, <1>12

LEMMA UdsBest == UdsIInv => EvidenceIsBest
  <1> SUFFICES ASSUME UdsIInv PROVE EvidenceIsBest
    OBVIOUS
  <1>1. TypeOK /\ MessagesInv /\ RequestsInv /\ AnswersInv /\ DoneInv /\ EvidenceRanks
    BY DEF UdsIInv
  <1>2. ASSUME NEW e \in evidence, NEW n \in DOMAIN done \ evidence,
               Below(ReportRank(done[e]), ReportRank(done[n]))
        PROVE  Lifted(done[e], done[n])
    <2>1. PICK k, d : k = done[e] /\ d = done[n]
      OBVIOUS
    <2>2. Ranked(k) /\ Ranked(d) /\ e \in Nat /\ n \in Nat
      BY <1>1, <2>1, DoneRanked DEF TypeOK
    <2>3. Below(Rank(d, n), Rank(k, e))
      BY <1>1, <2>1 DEF EvidenceRanks
    <2>4. /\ k.status = "suppressed" => k.pendings = <<>> /\ k.first = 0
          /\ d.status = "suppressed" => d.pendings = <<>> /\ d.first = 0
      BY <1>1, <2>1 DEF TypeOK, DoneInv
    <2> QED
      BY <1>1, <1>2, <2>1, <2>2, <2>3, <2>4, RankedAsReported
  <1> QED
    BY <1>1, <1>2 DEF EvidenceIsBest, EvidenceRanks

-----------------------------------------------------------------------------
(* The theorems.                                                            *)

(* Every state of the analysis, whatever the session and the limits, is as  *)
(* described: messages in the order of their ends, each passed one at one   *)
(* place, open requests with nothing missed, transactions that are true.    *)
THEOREM UdsInvariant == Spec => []UdsIInv
  BY InitUds, NextUds, PTL DEF Spec

(* The analysis keeps its types, and places of evidence are transactions.   *)
THEOREM UdsTypes == Spec => []TypeOK
  BY UdsInvariant, PTL DEF UdsIInv

(* Each request of a known service is open or has one transaction, each     *)
(* response belongs to one transaction or is unmatched, and the counters    *)
(* agree although evidence is dropped.                                      *)
THEOREM MessagesOnce == Spec => []EachMessageOnce
  BY UdsInvariant, UdsOnce, PTL

(* Pairing is first in, first out for each service, and the status of every *)
(* transaction is what the session shows of it.                             *)
THEOREM TruePairs == Spec => []PairsAreTrue
  BY UdsInvariant, UdsPairs, PTL

(* Whatever the number of transactions, none is dropped for one that the    *)
(* report of the stage puts below it, but for one that its 0x78 lifted by   *)
(* one class; and the analysis says when it dropped some.                   *)
THEOREM BestEvidence == Spec => []EvidenceIsBest
  BY UdsInvariant, UdsBest, PTL
=============================================================================
