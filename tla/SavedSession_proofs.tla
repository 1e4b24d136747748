-------------------------- MODULE SavedSession_proofs --------------------------
(***************************************************************************)
(* Proofs about a recorded session: that what is read of its file is what  *)
(* was written (SessionStream), and that a log which has been recorded     *)
(* stays whole and is not lost without a question (LiveSave).              *)
(*                                                                         *)
(* StreamIInv of SessionStream is inductive.  Its parts speak of "the      *)
(* first n records" and never of bytes, so that each is kept when the file *)
(* grows (GoodExtends, FitsExtends) and becomes false or stays true when a *)
(* power loss cuts it (GoodIsCut).  PageExact, BuildIndexFits and          *)
(* SidecarFits are the three facts about the algorithms that make it say   *)
(* what a reader gets.                                                     *)
(*                                                                         *)
(* SaveIInv of LiveSave is inductive.  It says which log the tab still has *)
(* to decide about (WaitingInv: there is none but the pending one) and     *)
(* what each place of a save has moved (SavingInv).  The ways in which a   *)
(* decision goes on (GoOn) are proved once, of any logs that are settled.  *)
(***************************************************************************)
EXTENDS LiveSave, SessionStream, FiniteSetTheorems, WellFoundedInduction,
        SequenceTheorems, TLAPS

-----------------------------------------------------------------------------
(* The session file (SessionStream).                                        *)

(* A set of numbers that is not empty has a least one.                     *)
LEMMA LeastNat ==
  ASSUME NEW T, T \subseteq Nat, T # {}
  PROVE  \E x \in T : \A y \in T : x <= y
  <1> DEFINE R == StrictSubsetOrdering(Nat)
             S == FiniteSubsetsOf(Nat)
             F == {0 .. n : n \in T}
  <1>1. IsWellFoundedOn(R, S)
    BY FS_StrictSubsetOrderingWellFounded
  <1>2. \A n \in Nat : 0 .. n \in S
    BY FS_Interval DEF FiniteSubsetsOf
  <1>3. ASSUME NEW m \in Nat, NEW n \in Nat, m < n
        PROVE  <<0 .. m, 0 .. n>> \in R
    <2>1. 0 .. m \subseteq 0 .. n /\ n \in 0 .. n /\ n \notin 0 .. m
      BY <1>3
    <2>2. 0 .. m # 0 .. n
      BY <2>1
    <2> QED
      BY <1>2, <2>1, <2>2 DEF StrictSubsetOrdering, FiniteSubsetsOf
  <1>4. F \subseteq S /\ F # {}
    BY <1>2
  <1> HIDE DEF R, S
  <1>5. \E x \in F : \A y \in F : ~ (<<y, x>> \in R)
    BY <1>1, <1>4, WFMin, Zenon
  <1>6. PICK n \in T : \A m \in T : ~ (<<0 .. m, 0 .. n>> \in R)
    BY <1>5
  <1>7. \A m \in T : ~ (m < n)
    BY <1>3, <1>6, Zenon
  <1> QED
    BY <1>7

(* Induction up to N, from the set of the numbers that are reached.        *)
LEMMA Induction ==
  ASSUME NEW N \in Nat, NEW S, 0 \in S,
         \A n \in 1 .. N : n - 1 \in S => n \in S
  PROVE  \A n \in 0 .. N : n \in S
  <1> SUFFICES ASSUME NEW k \in 0 .. N, k \notin S PROVE FALSE
    OBVIOUS
  <1> DEFINE T == {n \in 0 .. N : n \notin S}
  <1>1. PICK x \in T : \A y \in T : x <= y
    <2>1. T \subseteq Nat /\ T # {}
      OBVIOUS
    <2> HIDE DEF T
    <2> QED
      BY <2>1, LeastNat, Zenon
  <1>2. x \in 1 .. N /\ x - 1 \in 0 .. N
    OBVIOUS
  <1>3. x - 1 \notin T
    BY <1>1, <1>2
  <1> QED
    BY <1>2, <1>3

(* f is what repeated steps from the base give.                            *)
Iterates(f, N, base, step) ==
    f[0] = base /\ \A i \in 1 .. N : f[i] = step[i][f[i - 1]]

(* There is such a function, so a recursive definition has a value.        *)
LEMMA Recursion ==
  ASSUME NEW N \in Nat, NEW S, NEW base \in S, NEW step \in [1 .. N -> [S -> S]]
  PROVE  \E f \in [0 .. N -> S] : Iterates(f, N, base, step)
  <1> DEFINE Def(n, f) == \A i \in 0 .. n : f[i] = IF i = 0 THEN base ELSE step[i][f[i - 1]]
             Built1 == {n \in 0 .. N : \E f \in [0 .. N -> S] : Def(n, f)}
  <1>1. 0 \in Built1
    <2> DEFINE f == [i \in 0 .. N |-> base]
    <2>1. f \in [0 .. N -> S] /\ Def(0, f)
      OBVIOUS
    <2> HIDE DEF Def, f
    <2> QED
      BY <2>1
  <1>2. ASSUME NEW n \in 1 .. N, n - 1 \in Built1 PROVE n \in Built1
    <2>1. PICK f \in [0 .. N -> S] : Def(n - 1, f)
      BY <1>2
    <2> DEFINE g == [f EXCEPT ![n] = step[n][f[n - 1]]]
    <2>2. step[n][f[n - 1]] \in S
      OBVIOUS
    <2>3. g \in [0 .. N -> S]
      BY <2>2
    <2>4. Def(n, g)
      <3> SUFFICES ASSUME NEW i \in 0 .. n
                   PROVE  g[i] = IF i = 0 THEN base ELSE step[i][g[i - 1]]
        OBVIOUS
      <3>1. CASE i = n
        BY <3>1
      <3>2. CASE i # n
        <4>1. g[i] = f[i] /\ (i # 0 => g[i - 1] = f[i - 1]) /\ i \in 0 .. (n - 1)
          BY <3>2
        <4> QED
          BY <2>1, <4>1
      <3> QED
        BY <3>1, <3>2
    <2> HIDE DEF Def, g
    <2> QED
      BY <2>3, <2>4
  <1>3. N \in Built1
    <2> HIDE DEF Built1
    <2>1. \A n \in 0 .. N : n \in Built1
      BY <1>1, <1>2, Induction, Zenon
    <2> QED
      BY <2>1
  <1>4. PICK f \in [0 .. N -> S] : Def(N, f)
    BY <1>3
  <1>5. Iterates(f, N, base, step)
    BY <1>4 DEF Iterates
  <1> QED
    BY <1>5

(* What holds of the base and is kept by each step holds of every value.   *)
LEMMA IterateType ==
  ASSUME NEW N \in Nat, NEW S, NEW f, f[0] \in S,
         \A i \in 1 .. N : f[i - 1] \in S => f[i] \in S
  PROVE  \A i \in 0 .. N : f[i] \in S
  <1> DEFINE T == {i \in 0 .. N : f[i] \in S}
  <1>1. 0 \in T /\ \A i \in 1 .. N : i - 1 \in T => i \in T
    OBVIOUS
  <1> HIDE DEF T
  <1>2. \A i \in 0 .. N : i \in T
    BY <1>1, Induction, Zenon
  <1> QED
    BY <1>2 DEF T

(* A record takes two or three bytes.                                      *)
LEMMA WidthType ==
  ASSUME NEW r \in RecordType
  PROVE  Width(r) \in 2 .. 3
  BY DEF Width, RecordType

(* The offsets of the ends of the records, one after another.              *)
LEMMA EndsType ==
  ASSUME NEW rs \in Seq(RecordType)
  PROVE  /\ Ends(rs) \in [0 .. Len(rs) -> Nat]
         /\ Ends(rs)[0] = 0
         /\ \A i \in 1 .. Len(rs) : Ends(rs)[i] = Ends(rs)[i - 1] + Width(rs[i])
  <1> DEFINE N == Len(rs)
             P(e) == e = [i \in 0 .. N |-> IF i = 0 THEN 0 ELSE e[i - 1] + Width(rs[i])]
             step == [i \in 1 .. N |-> [n \in Nat |-> n + Width(rs[i])]]
             E == Ends(rs)
  <1>1. N \in Nat /\ 0 \in Nat /\ step \in [1 .. N -> [Nat -> Nat]]
    BY WidthType
  <1>2. PICK e \in [0 .. N -> Nat] : Iterates(e, N, 0, step)
    <2> HIDE DEF step, N
    <2> QED
      BY <1>1, Recursion, Zenon
  <1>3. P(e)
    <2> SUFFICES ASSUME NEW i \in 0 .. N
                 PROVE  e[i] = IF i = 0 THEN 0 ELSE e[i - 1] + Width(rs[i])
      BY <1>2
    <2>1. i # 0 => i \in 1 .. N /\ e[i - 1] \in Nat
      <3> HIDE DEF N, step, P
      <3>1. i # 0 => i \in 1 .. N /\ i - 1 \in 0 .. N
        BY <1>1
      <3> QED
        BY <3>1
    <2> QED
      BY <1>2, <2>1 DEF Iterates
  <1>4. P(E)
    <2> HIDE DEF P
    <2>1. E = CHOOSE e1 : P(e1)
      BY DEF Ends, P
    <2> QED
      BY <1>3, <2>1
  <1>5. E = [i \in 0 .. N |-> E[i]] /\ E[0] = 0 /\ \A i \in 1 .. N : E[i] = E[i - 1] + Width(rs[i])
    <2>1. ASSUME NEW i \in 1 .. N PROVE E[i] = E[i - 1] + Width(rs[i])
      BY <1>4
    <2> QED
      BY <1>4, <2>1
  <1> HIDE DEF E
  <1>6. E \in [0 .. N -> Nat]
    <2>1. ASSUME NEW i \in 1 .. N, E[i - 1] \in Nat PROVE E[i] \in Nat
      BY <1>5, <2>1, WidthType
    <2> HIDE DEF N
    <2>2. \A i \in 0 .. N : E[i] \in Nat
      BY <1>1, <1>5, <2>1, IterateType, Zenon
    <2> QED
      BY <1>5, <2>2
  <1> QED
    BY <1>5, <1>6 DEF E

(* A sequential read takes one record after another.                       *)
LEMMA FramesInStep ==
  ASSUME NEW rs \in Seq(RecordType)
  PROVE  /\ FramesIn(rs)[0] = <<>>
         /\ \A i \in 1 .. Len(rs) : FramesIn(rs)[i] =
              IF IsFrame(rs[i]) /\ \A j \in 1 .. i : rs[j] # Footer
                THEN Append(FramesIn(rs)[i - 1], rs[i]) ELSE FramesIn(rs)[i - 1]
  <1> DEFINE N == Len(rs)
             Taken(i) == IsFrame(rs[i]) /\ \A j \in 1 .. i : rs[j] # Footer
             Next1(s, i) == IF Taken(i) THEN Append(s, rs[i]) ELSE s
             P(f) == f = [i \in 0 .. N |-> IF i = 0 THEN <<>> ELSE Next1(f[i - 1], i)]
             S == Seq(RecordType)
             step == [i \in 1 .. N |-> [s \in S |-> Next1(s, i)]]
             F == FramesIn(rs)
  <1>1. N \in Nat /\ <<>> \in S
    OBVIOUS
  <1>2. step \in [1 .. N -> [S -> S]]
    <2>1. ASSUME NEW i \in 1 .. N, NEW s \in S PROVE Next1(s, i) \in S
      <3>1. rs[i] \in RecordType
        OBVIOUS
      <3> HIDE DEF Taken
      <3> QED
        BY <3>1
    <2> HIDE DEF Next1, S, N
    <2> QED
      BY <2>1
  <1> HIDE DEF Taken
  <1>3. PICK f \in [0 .. N -> S] : Iterates(f, N, <<>>, step)
    <2> HIDE DEF step, N, S
    <2> QED
      BY <1>1, <1>2, Recursion, Zenon
  <1>4. P(f)
    <2> SUFFICES ASSUME NEW i \in 0 .. N
                 PROVE  f[i] = IF i = 0 THEN <<>> ELSE Next1(f[i - 1], i)
      BY <1>3
    <2>1. i # 0 => i \in 1 .. N /\ f[i - 1] \in S
      <3> HIDE DEF N, step, P, S
      <3>1. i # 0 => i \in 1 .. N /\ i - 1 \in 0 .. N
        BY <1>1
      <3> QED
        BY <3>1
    <2> HIDE DEF N, S, Next1
    <2> QED
      BY <1>3, <2>1 DEF Iterates
  <1>5. P(F)
    <2> HIDE DEF P
    <2>1. F = CHOOSE f1 : P(f1)
      BY Zenon DEF FramesIn, P, Taken, Next1
    <2> QED
      BY <1>4, <2>1
  <1> QED
    <2>1. N \in Nat
      OBVIOUS
    <2>2. F[0] = <<>>
      <3> HIDE DEF N, F
      <3> QED
        BY <1>5, <2>1
    <2>3. ASSUME NEW i \in 1 .. N PROVE F[i] = Next1(F[i - 1], i)
      <3> HIDE DEF N, F, Next1
      <3> QED
        BY <1>5, <2>1
    <2> QED
      BY <2>2, <2>3 DEF Taken

(* What a scan has counted and where it is.                                *)
ScanType == [count : Nat, points : Seq(Nat \X Nat), at : Nat]

(* A scan goes on from one such value to another.                          *)
LEMMA ScanRecordType ==
  ASSUME NEW s \in ScanType, NEW r \in RecordType
  PROVE  ScanRecord(s, r) \in ScanType
  <1>1. s.count \in Nat /\ s.at \in Nat /\ s.points \in Seq(Nat \X Nat) /\ Width(r) \in Nat
    BY WidthType DEF ScanType
  <1>2. Append(s.points, <<s.count, s.at>>) \in Seq(Nat \X Nat)
    BY <1>1
  <1>3. CASE IsFrame(r)
    <2>1. ScanRecord(s, r).points \in Seq(Nat \X Nat)
      BY <1>1, <1>2, <1>3 DEF ScanRecord
    <2> QED
      BY <1>1, <1>3, <2>1 DEF ScanRecord, ScanType
  <1>4. CASE ~IsFrame(r)
    BY <1>1, <1>4 DEF ScanRecord, ScanType
  <1> QED
    BY <1>3, <1>4

(* Before the first line.                                                  *)
ScanStart == [count |-> 0, points |-> <<>>, at |-> 0]

(* The scan of _build_index takes one record after another.                *)
LEMMA ScannedStep ==
  ASSUME NEW rs \in Seq(RecordType)
  PROVE  /\ Scanned(rs)[0] = ScanStart
         /\ \A i \in 1 .. Len(rs) : Scanned(rs)[i] = ScanRecord(Scanned(rs)[i - 1], rs[i])
         /\ \A i \in 0 .. Len(rs) : Scanned(rs)[i] \in ScanType
  <1> DEFINE N == Len(rs)
             P(f) == f = [i \in 0 .. N |-> IF i = 0 THEN ScanStart ELSE ScanRecord(f[i - 1], rs[i])]
             step == [i \in 1 .. N |-> [s \in ScanType |-> ScanRecord(s, rs[i])]]
             F == Scanned(rs)
  <1>1. N \in Nat /\ ScanStart \in ScanType /\ \A i \in 1 .. N : rs[i] \in RecordType
    BY DEF ScanStart, ScanType
  <1>2. step \in [1 .. N -> [ScanType -> ScanType]]
    <2> HIDE DEF N
    <2> QED
      BY <1>1, ScanRecordType
  <1>3. PICK f \in [0 .. N -> ScanType] : Iterates(f, N, ScanStart, step)
    <2> HIDE DEF step, N
    <2> QED
      BY <1>1, <1>2, Recursion, Zenon
  <1>4. P(f)
    <2> SUFFICES ASSUME NEW i \in 0 .. N
                 PROVE  f[i] = IF i = 0 THEN ScanStart ELSE ScanRecord(f[i - 1], rs[i])
      BY <1>3
    <2>1. i # 0 => i \in 1 .. N /\ f[i - 1] \in ScanType
      <3> HIDE DEF N, step, P
      <3>1. i # 0 => i \in 1 .. N /\ i - 1 \in 0 .. N
        BY <1>1
      <3> QED
        BY <3>1
    <2> HIDE DEF N
    <2> QED
      BY <1>3, <2>1 DEF Iterates
  <1>5. P(F)
    <2> HIDE DEF P
    <2>1. F = CHOOSE f1 : P(f1)
      BY Zenon DEF Scanned, P, ScanStart
    <2> QED
      BY <1>4, <2>1
  <1> HIDE DEF F
  <1>6. F[0] = ScanStart
    <2> HIDE DEF N
    <2> QED
      BY <1>1, <1>5
  <1>7. \A i \in 1 .. N : F[i] = ScanRecord(F[i - 1], rs[i])
    <2> HIDE DEF N
    <2> QED
      BY <1>1, <1>5
  <1>8. \A i \in 0 .. N : F[i] \in ScanType
    <2>1. \A i \in 1 .. N : F[i - 1] \in ScanType => F[i] \in ScanType
      BY <1>1, <1>7, ScanRecordType
    <2> HIDE DEF N
    <2> QED
      BY <1>1, <1>6, <2>1, IterateType, Zenon
  <1> QED
    BY <1>6, <1>7, <1>8 DEF F

(* The records ts begin with all those of rs.                              *)
Extends(ts, rs) == Len(rs) <= Len(ts) /\ \A i \in 1 .. Len(rs) : ts[i] = rs[i]

(* A record ends two bytes or more after each that comes before it.        *)
LEMMA EndsGap ==
  ASSUME NEW rs \in Seq(RecordType), NEW i \in 0 .. Len(rs), NEW j \in 0 .. Len(rs), i < j
  PROVE  Ends(rs)[i] + 2 <= Ends(rs)[j]
  <1> DEFINE E == Ends(rs)
             N == Len(rs)
             T == {n \in 0 .. N : \A k \in 0 .. N : k < n => E[k] + 2 <= E[n]}
  <1>1. N \in Nat /\ \A n \in 0 .. N : E[n] \in Nat
    BY EndsType
  <1>2. \A n \in 1 .. N : E[n - 1] + 2 <= E[n]
    <2> SUFFICES ASSUME NEW n \in 1 .. N PROVE E[n - 1] + 2 <= E[n]
      OBVIOUS
    <2>1. Width(rs[n]) \in 2 .. 3 /\ E[n] = E[n - 1] + Width(rs[n])
      BY WidthType, EndsType
    <2>2. n - 1 \in 0 .. N
      BY <1>1
    <2> HIDE DEF E, N
    <2> QED
      BY <1>1, <2>1, <2>2
  <1>3. 0 \in T
    OBVIOUS
  <1>4. ASSUME NEW n \in 1 .. N, n - 1 \in T PROVE n \in T
    <2> HIDE DEF E, N
    <2> SUFFICES ASSUME NEW k \in 0 .. N, k < n PROVE E[k] + 2 <= E[n]
      BY <1>1
    <2>1. n - 1 \in 0 .. N /\ E[n - 1] \in Nat /\ E[n] \in Nat /\ E[k] \in Nat
      BY <1>1
    <2>2. k < n - 1 => E[k] + 2 <= E[n - 1]
      BY <1>4
    <2>3. n \in Nat /\ k \in Nat /\ (k = n - 1 \/ k < n - 1)
      BY <1>1
    <2>4. E[n - 1] + 2 <= E[n]
      BY <1>2
    <2>5. CASE k = n - 1
      BY <2>4, <2>5
    <2>6. CASE k < n - 1
      BY <2>1, <2>2, <2>4, <2>6
    <2> QED
      BY <2>3, <2>5, <2>6
  <1>5. \A n \in 0 .. N : n \in T
    <2> HIDE DEF T, N
    <2> QED
      BY <1>1, <1>3, <1>4, Induction, Zenon
  <1> QED
    BY <1>5

(* Files that begin with the same records have these end at the same offsets. *)
LEMMA EndsAgree ==
  ASSUME NEW rs \in Seq(RecordType), NEW ts \in Seq(RecordType), NEW n \in Nat,
         n <= Len(rs), n <= Len(ts), \A i \in 1 .. n : rs[i] = ts[i]
  PROVE  \A i \in 0 .. n : Ends(rs)[i] = Ends(ts)[i]
  <1> DEFINE T == {i \in 0 .. n : Ends(rs)[i] = Ends(ts)[i]}
  <1>1. 0 \in T
    BY EndsType
  <1>2. ASSUME NEW i \in 1 .. n, i - 1 \in T PROVE i \in T
    <2>1. /\ Ends(rs)[i] = Ends(rs)[i - 1] + Width(rs[i])
          /\ Ends(ts)[i] = Ends(ts)[i - 1] + Width(ts[i])
      BY EndsType
    <2> QED
      BY <1>2, <2>1
  <1>3. \A i \in 0 .. n : i \in T
    <2> HIDE DEF T
    <2> QED
      BY <1>1, <1>2, Induction, Zenon
  <1> QED
    BY <1>3

(* A size is that of one number of records only, torn or not.              *)
LEMMA SizeIsOne ==
  ASSUME NEW rs \in Seq(RecordType), NEW z, NEW i, NEW j, SizeOf(z, rs, i), SizeOf(z, rs, j)
  PROVE  i = j
  <1>1. i \in 0 .. Len(rs) /\ j \in 0 .. Len(rs)
    BY DEF SizeOf
  <1>2. Ends(rs)[i] \in Nat /\ Ends(rs)[j] \in Nat
    BY <1>1, EndsType
  <1>3. i < j => Ends(rs)[i] + 2 <= Ends(rs)[j]
    BY <1>1, EndsGap
  <1>4. j < i => Ends(rs)[j] + 2 <= Ends(rs)[i]
    BY <1>1, EndsGap
  <1> QED
    BY <1>1, <1>2, <1>3, <1>4 DEF SizeOf

(* There are fewer frames than records, and no fewer in more records.      *)
LEMMA CountBound ==
  ASSUME NEW rs \in Seq(RecordType), Shaped(rs), NEW m \in 1 .. Len(rs)
  PROVE  /\ Count(rs, m) \in 0 .. m - 1
         /\ \A n \in 1 .. m : Count(rs, n) <= Count(rs, m)
  <1>1. \A n \in 1 .. Len(rs) : rs[n] = Footer => n > 1 /\ n = Len(rs)
    BY DEF Shaped, IsFrame, Footer, Header
  <1> QED
    BY <1>1 DEF Count

(* What is appended moves no record.                                       *)
LEMMA EndsExtend ==
  ASSUME NEW rs \in Seq(RecordType), NEW ts \in Seq(RecordType), Extends(ts, rs)
  PROVE  \A i \in 0 .. Len(rs) : Ends(rs)[i] = Ends(ts)[i]
  <1>1. Len(rs) \in Nat /\ Len(rs) <= Len(ts) /\ \A i \in 1 .. Len(rs) : rs[i] = ts[i]
    BY DEF Extends
  <1> QED
    BY <1>1, EndsAgree

(* Points that fit one file fit each that has the same first offsets.      *)
LEMMA PointsFitAgree ==
  ASSUME NEW rs, NEW ts, NEW n \in Nat, \A i \in 0 .. n : Ends(rs)[i] = Ends(ts)[i],
         NEW points \in Seq(Nat \X Nat), NEW count \in Nat, count < n,
         PointsFit(points, count, rs)
  PROVE  PointsFit(points, count, ts)
  <1>1. ASSUME NEW i \in DOMAIN points
        PROVE  points[i][2] = Ends(ts)[points[i][1] + 1]
    <2>1. points[i][1] \in Nat /\ points[i][1] <= count
          /\ points[i][2] = Ends(rs)[points[i][1] + 1]
      BY DEF PointsFit
    <2>2. points[i][1] + 1 \in 0 .. n
      BY <2>1
    <2> QED
      BY <2>1, <2>2
  <1> QED
    BY <1>1 DEF PointsFit

(* Points still fit when the file has grown ...                            *)
LEMMA PointsFitExtends ==
  ASSUME NEW rs \in Seq(RecordType), NEW ts \in Seq(RecordType), Extends(ts, rs),
         NEW points \in Seq(Nat \X Nat), NEW count \in Nat, count < Len(rs),
         PointsFit(points, count, rs)
  PROVE  PointsFit(points, count, ts)
  <1>1. Len(rs) \in Nat /\ \A i \in 0 .. Len(rs) : Ends(rs)[i] = Ends(ts)[i]
    BY EndsExtend
  <1> QED
    BY <1>1, PointsFitAgree

(* ... and so does an index ...                                            *)
LEMMA FitsExtends ==
  ASSUME NEW rs \in Seq(RecordType), NEW ts \in Seq(RecordType), Shaped(rs),
         Extends(ts, rs), NEW idx \in IndexType, NEW m, Fits(idx, rs, m)
  PROVE  Fits(idx, ts, m)
  <1>1. m \in 1 .. Len(rs) /\ m \in 1 .. Len(ts) /\ ts[m] = rs[m]
    BY DEF Fits, Extends
  <1>2. Count(ts, m) = Count(rs, m) /\ Count(rs, m) \in 0 .. m - 1
    BY <1>1, CountBound DEF Count
  <1>3. idx.points \in Seq(Nat \X Nat) /\ idx.count \in Nat /\ idx.count < Len(rs)
    BY <1>1, <1>2 DEF Fits, IndexType
  <1>4. PointsFit(idx.points, idx.count, ts)
    BY <1>3, PointsFitExtends DEF Fits
  <1> QED
    BY <1>1, <1>2, <1>4 DEF Fits

(* ... and a size is still that of the same records ...                    *)
LEMMA SizeOfExtends ==
  ASSUME NEW rs \in Seq(RecordType), NEW ts \in Seq(RecordType), Extends(ts, rs),
         NEW z, NEW n, SizeOf(z, rs, n)
  PROVE  SizeOf(z, ts, n)
  <1>1. n \in 0 .. Len(rs) /\ n \in 1 .. Len(ts)
    BY DEF SizeOf, Extends
  <1>2. Ends(rs)[n] = Ends(ts)[n]
    BY <1>1, EndsExtend
  <1> QED
    BY <1>1, <1>2 DEF SizeOf

(* ... of which as many are frames.                                        *)
LEMMA CountExtends ==
  ASSUME NEW rs \in Seq(RecordType), NEW ts \in Seq(RecordType), Extends(ts, rs),
         NEW n \in 1 .. Len(rs)
  PROVE  n \in 1 .. Len(ts) /\ Count(ts, n) = Count(rs, n)
  BY DEF Extends, Count

(* An index that was made of the file stays one when the file grows.       *)
LEMMA GoodExtends ==
  ASSUME NEW rs \in Seq(RecordType), NEW ts \in Seq(RecordType), Shaped(rs),
         Extends(ts, rs), NEW idx \in IndexType, NEW j \in 1 .. Len(rs), Good(idx, rs, j)
  PROVE  Good(idx, ts, j)
  <1>1. PICK m, n \in j .. Len(rs) :
           /\ m <= n /\ Fits(idx, rs, m) /\ SizeOf(idx.size, rs, n)
           /\ ~idx.grew => idx.count = Count(rs, n)
    BY DEF Good
  <1>2. m \in j .. Len(ts) /\ n \in j .. Len(ts) /\ n \in 1 .. Len(rs)
    BY DEF Extends
  <1>3. Fits(idx, ts, m) /\ SizeOf(idx.size, ts, n)
    BY <1>1, FitsExtends, SizeOfExtends
  <1>4. Count(ts, n) = Count(rs, n)
    BY <1>2, CountExtends
  <1> QED
    BY <1>1, <1>2, <1>3, <1>4 DEF Good

(* A read of records that are no frames, then frames, then at most the footer, *)
(* yields the frames in the middle.                                        *)
LEMMA FramesBetween ==
  ASSUME NEW rs \in Seq(RecordType), NEW a \in Nat, NEW b \in Nat, a <= b, b <= Len(rs),
         \A i \in 1 .. a : ~IsFrame(rs[i]) /\ rs[i] # Footer,
         \A i \in a + 1 .. b : IsFrame(rs[i]),
         b < Len(rs) => rs[b + 1] = Footer /\ b + 1 = Len(rs)
  PROVE  FramesOf(rs) = SubSeq(rs, a + 1, b)
  <1> DEFINE N == Len(rs)
             F == FramesIn(rs)
             Want(i) == SubSeq(rs, a + 1, IF i <= b THEN i ELSE b)
             T == {i \in 0 .. N : F[i] = Want(i)}
  <1>1. N \in Nat /\ \A i \in 1 .. N : rs[i] \in RecordType
    OBVIOUS
  <1>2. 0 \in T
    <2>1. F[0] = <<>> /\ Want(0) = <<>>
      BY FramesInStep, SubSeqEmpty
    <2> HIDE DEF F, Want
    <2> QED
      BY <1>1, <2>1
  <1>3. ASSUME NEW i \in 1 .. N, i - 1 \in T PROVE i \in T
    <2>1. \A j \in 1 .. b : rs[j] # Footer
      BY DEF IsFrame, Footer
    <2>2. CASE i <= a
      <3>1. F[i] = F[i - 1]
        BY <2>2, FramesInStep
      <3>2. SubSeq(rs, a + 1, i) = <<>> /\ SubSeq(rs, a + 1, i - 1) = <<>>
        BY <2>2, SubSeqEmpty
      <3> QED
        BY <1>3, <2>2, <3>1, <3>2
    <2>3. CASE a < i /\ i <= b
      <3>1. F[i] = Append(F[i - 1], rs[i])
        <4>1. i \in a + 1 .. b /\ \A j \in 1 .. i : j \in 1 .. b
          BY <2>3
        <4>2. IsFrame(rs[i]) /\ \A j \in 1 .. i : rs[j] # Footer
          BY <2>1, <4>1
        <4> QED
          BY <4>2, FramesInStep
      <3>2. F[i - 1] = SubSeq(rs, a + 1, i - 1)
        BY <1>3, <2>3
      <3>3. Append(SubSeq(rs, a + 1, i - 1), rs[i]) = SubSeq(rs, a + 1, i)
        BY <2>3, SubSeqProperties
      <3>4. F[i] = SubSeq(rs, a + 1, i)
        BY <3>1, <3>2, <3>3
      <3> HIDE DEF F
      <3> QED
        BY <2>3, <3>4
    <2>4. CASE b < i
      <3>1. i = b + 1 /\ rs[i] = Footer
        BY <2>4
      <3>2. F[i] = F[i - 1]
        BY <3>1, FramesInStep
      <3> QED
        BY <1>3, <3>1, <3>2
    <2> QED
      BY <2>2, <2>3, <2>4
  <1>4. N \in T
    <2> HIDE DEF T, N
    <2>1. \A n \in 0 .. N : n \in T
      BY <1>1, <1>2, <1>3, Induction, Zenon
    <2> QED
      BY <1>1, <2>1
  <1> QED
    BY <1>4 DEF FramesOf

(* A part of a tail is a part of the whole.                                *)
LEMMA SubSeqOfTail ==
  ASSUME NEW S, NEW s \in Seq(S), NEW i \in 1 .. Len(s) + 1,
         NEW n \in 0 .. Len(s) - i + 1, NEW m \in 1 .. n + 1
  PROVE  SubSeq(SubSeq(s, i, Len(s)), m, n) = SubSeq(s, i + m - 1, i + n - 1)
  <1> DEFINE t == SubSeq(s, i, Len(s))
             u == SubSeq(t, m, n)
             w == SubSeq(s, i + m - 1, i + n - 1)
  <1>1. t \in Seq(S) /\ Len(t) = Len(s) - i + 1 /\ \A k \in 1 .. Len(t) : t[k] = s[i + k - 1]
    <2>1. \A k \in i .. Len(s) : k \in 1 .. Len(s)
      OBVIOUS
    <2>2. i \in 1 .. Len(s) + 1 /\ Len(s) \in i - 1 .. Len(s)
      OBVIOUS
    <2> QED
      BY <2>1, <2>2, SubSeqProperties
  <1> HIDE DEF t
  <1>2. u \in Seq(S) /\ Len(u) = n - m + 1 /\ \A k \in 1 .. n - m + 1 : u[k] = t[m + k - 1]
    <2>1. m \in 1 .. Len(t) + 1 /\ n \in m - 1 .. Len(t)
      BY <1>1
    <2> QED
      BY <1>1, <2>1, SubSeqProperties
  <1>3. w \in Seq(S) /\ Len(w) = n - m + 1 /\ \A k \in 1 .. n - m + 1 : w[k] = s[i + m - 1 + k - 1]
    <2>1. i + m - 1 \in 1 .. Len(s) + 1 /\ i + n - 1 \in (i + m - 1) - 1 .. Len(s)
      OBVIOUS
    <2> QED
      BY <2>1, SubSeqProperties
  <1> HIDE DEF u, w
  <1>4. ASSUME NEW k \in 1 .. Len(u) PROVE u[k] = w[k]
    <2>1. m + k - 1 \in 1 .. Len(t) /\ k \in 1 .. n - m + 1
      <3>1. Len(t) = Len(s) - i + 1 /\ k \in 1 .. n - m + 1 /\ Len(s) \in Nat
        BY <1>1, <1>2
      <3>2. k >= 1 /\ k <= n - m + 1 /\ k \in Int /\ m >= 1 /\ m \in Int /\ n <= Len(s) - i + 1
        BY <3>1
      <3>3. m + k - 1 >= 1 /\ m + k - 1 <= Len(s) - i + 1 /\ m + k - 1 \in Int
        BY <3>2
      <3> QED
        BY <3>1, <3>3
    <2>2. u[k] = s[i + (m + k - 1) - 1]
      BY <1>1, <1>2, <2>1
    <2>3. i + (m + k - 1) - 1 = i + m - 1 + k - 1
      BY <2>1
    <2> QED
      BY <1>3, <2>1, <2>2, <2>3
  <1>5. u = w
    BY <1>2, <1>3, <1>4, SeqEqual
  <1> QED
    BY <1>5 DEF u, w, t

(* The frames of a whole file.                                             *)
Total(rs) == Count(rs, Len(rs))

(* A file that is not empty is its header, its frames and at most a footer. *)
LEMMA ShapedRecords ==
  ASSUME NEW rs \in Seq(RecordType), Shaped(rs), rs # <<>>
  PROVE  /\ Len(rs) \in Nat \ {0} /\ Total(rs) \in 0 .. Len(rs) - 1
         /\ ~IsFrame(rs[1]) /\ rs[1] # Footer
         /\ \A i \in 2 .. Total(rs) + 1 : IsFrame(rs[i])
         /\ Total(rs) + 1 < Len(rs) => Total(rs) + 2 = Len(rs) /\ rs[Len(rs)] = Footer
  <1>1. Len(rs) \in Nat \ {0}
    BY EmptySeq
  <1>2. Total(rs) \in 0 .. Len(rs) - 1
    BY <1>1, CountBound DEF Total
  <1>3. rs[1] = Header
    BY <1>1 DEF Shaped
  <1>4. ASSUME NEW i \in 2 .. Total(rs) + 1 PROVE IsFrame(rs[i])
    <2>1. i \in 1 .. Len(rs) /\ i # 1
      BY <1>1, <1>2
    <2>2. IsFrame(rs[i]) \/ (i = Len(rs) /\ rs[i] = Footer)
      BY <2>1 DEF Shaped
    <2>3. rs[Len(rs)] = Footer => Total(rs) = Len(rs) - 2
      BY <1>1 DEF Total, Count
    <2> QED
      BY <1>1, <2>2, <2>3
  <1>5. Total(rs) + 1 < Len(rs) => Total(rs) + 2 = Len(rs) /\ rs[Len(rs)] = Footer
    BY <1>1 DEF Total, Count
  <1> QED
    BY <1>1, <1>2, <1>3, <1>4, <1>5 DEF IsFrame, Header, Footer

(* A sequential read of it yields these frames ...                         *)
LEMMA FramesOfShaped ==
  ASSUME NEW rs \in Seq(RecordType), Shaped(rs), rs # <<>>
  PROVE  FramesOf(rs) = SubSeq(rs, 2, Total(rs) + 1)
  <1>1. \A i \in 1 .. 1 : ~IsFrame(rs[i]) /\ rs[i] # Footer
    BY ShapedRecords
  <1>2. 1 + 1 = 2 /\ Total(rs) + 1 \in Nat /\ 1 <= Total(rs) + 1 /\ Total(rs) + 1 <= Len(rs)
        /\ (Total(rs) + 1) + 1 = Total(rs) + 2
    BY ShapedRecords
  <1>3. \A i \in 1 + 1 .. Total(rs) + 1 : IsFrame(rs[i])
    BY ShapedRecords
  <1>4. Total(rs) + 1 < Len(rs) => rs[(Total(rs) + 1) + 1] = Footer /\ (Total(rs) + 1) + 1 = Len(rs)
    BY <1>2, ShapedRecords
  <1>5. FramesOf(rs) = SubSeq(rs, 1 + 1, Total(rs) + 1)
    BY <1>1, <1>2, <1>3, <1>4, FramesBetween
  <1> QED
    BY <1>5

(* ... and a read that starts at the k-th frame yields the rest of them.   *)
LEMMA FramesOfTail ==
  ASSUME NEW rs \in Seq(RecordType), Shaped(rs), rs # <<>>, NEW k \in 0 .. Total(rs)
  PROVE  FramesOf(SubSeq(rs, k + 2, Len(rs))) = SubSeq(rs, k + 2, Total(rs) + 1)
  <1> DEFINE t == SubSeq(rs, k + 2, Len(rs))
             N == Len(rs)
             b == Total(rs) - k
  <1>1. N \in Nat /\ k \in Nat /\ Total(rs) \in Nat /\ k <= Total(rs) /\ Total(rs) <= N - 1
    BY ShapedRecords
  <1>2. t \in Seq(RecordType) /\ Len(t) = N - k - 1 /\ \A i \in 1 .. Len(t) : t[i] = rs[k + 2 + i - 1]
    <2>1. k + 2 \in 1 .. Len(rs) + 1 /\ Len(rs) \in (k + 2) - 1 .. Len(rs)
      BY <1>1
    <2> QED
      BY <1>1, <2>1, SubSeqProperties
  <1> HIDE DEF t, N
  <1>3. b \in Nat /\ 0 <= b /\ b <= Len(t)
    BY <1>1, <1>2
  <1>4. \A i \in 0 + 1 .. b : IsFrame(t[i])
    <2> SUFFICES ASSUME NEW i \in 1 .. b PROVE IsFrame(t[i])
      OBVIOUS
    <2>1. t[i] = rs[k + 2 + i - 1] /\ k + 2 + i - 1 \in 2 .. Total(rs) + 1
      BY <1>1, <1>2, <1>3
    <2> QED
      BY <2>1, ShapedRecords
  <1>5. b < Len(t) => t[b + 1] = Footer /\ b + 1 = Len(t)
    <2> SUFFICES ASSUME b < Len(t) PROVE t[b + 1] = Footer /\ b + 1 = Len(t)
      OBVIOUS
    <2>1. Total(rs) + 1 < N
      BY <1>1, <1>2
    <2>2. Total(rs) + 2 = N /\ rs[N] = Footer
      BY <2>1, ShapedRecords DEF N
    <2>3. b + 1 = Len(t) /\ b + 1 \in 1 .. Len(t) /\ k + 2 + (b + 1) - 1 = N
      BY <1>1, <1>2, <2>2
    <2> QED
      BY <1>2, <2>2, <2>3
  <1>6. FramesOf(t) = SubSeq(t, 0 + 1, b)
    <2>1. \A i \in 1 .. 0 : ~IsFrame(t[i]) /\ t[i] # Footer
      OBVIOUS
    <2> HIDE DEF b
    <2> QED
      BY <1>2, <1>3, <1>4, <1>5, <2>1, FramesBetween
  <1>7. SubSeq(t, 1, b) = SubSeq(rs, k + 2 + 1 - 1, k + 2 + b - 1)
    <2>1. k + 2 \in 1 .. N + 1 /\ b \in 0 .. N - (k + 2) + 1 /\ 1 \in 1 .. b + 1
      BY <1>1
    <2> QED
      BY <2>1, SubSeqOfTail DEF t, N
  <1>8. k + 2 + 1 - 1 = k + 2 /\ k + 2 + b - 1 = Total(rs) + 1
    BY <1>1
  <1>9. FramesOf(t) = SubSeq(rs, k + 2, Total(rs) + 1)
    <2>1. 0 + 1 = 1
      OBVIOUS
    <2> HIDE DEF b
    <2> QED
      BY <1>6, <1>7, <1>8, <2>1
  <1> QED
    BY <1>9 DEF t

(* What is cut behind a record has the shape of a file too ...             *)
LEMMA ShapedPrefix ==
  ASSUME NEW rs \in Seq(RecordType), Shaped(rs), NEW n \in 0 .. Len(rs)
  PROVE  /\ SubSeq(rs, 1, n) \in Seq(RecordType) /\ Len(SubSeq(rs, 1, n)) = n
         /\ Shaped(SubSeq(rs, 1, n)) /\ Extends(rs, SubSeq(rs, 1, n))
  <1> DEFINE t == SubSeq(rs, 1, n)
  <1>1. t \in Seq(RecordType) /\ Len(t) = n /\ \A i \in 1 .. n : t[i] = rs[i]
    <2>1. 1 \in 1 .. Len(rs) + 1 /\ n \in 1 - 1 .. Len(rs)
      OBVIOUS
    <2> QED
      BY <2>1, SubSeqProperties
  <1>2. Shaped(t)
    <2> HIDE DEF t
    <2> SUFFICES ASSUME NEW i \in 1 .. n
                 PROVE  IF i = 1 THEN t[i] = Header
                        ELSE IsFrame(t[i]) \/ (i = n /\ t[i] = Footer)
      BY <1>1 DEF Shaped
    <2>1. i \in DOMAIN rs /\ t[i] = rs[i]
      BY <1>1
    <2> QED
      BY <2>1 DEF Shaped
  <1> QED
    BY <1>1, <1>2 DEF Extends

(* ... and as many frames as are counted.                                  *)
LEMMA FramesOfPrefix ==
  ASSUME NEW rs \in Seq(RecordType), Shaped(rs), NEW n \in 1 .. Len(rs)
  PROVE  Len(FramesOf(SubSeq(rs, 1, n))) = Count(rs, n)
  <1> DEFINE t == SubSeq(rs, 1, n)
  <1>1. t \in Seq(RecordType) /\ Len(t) = n /\ Shaped(t) /\ Extends(rs, t) /\ n \in 1 .. Len(t)
    BY ShapedPrefix
  <1> HIDE DEF t
  <1>2. Total(t) = Count(rs, n)
    BY <1>1, CountExtends DEF Total
  <1>3. t # <<>>
    BY <1>1
  <1>4. FramesOf(t) = SubSeq(t, 2, Total(t) + 1) /\ Total(t) \in 0 .. Len(t) - 1
    BY <1>1, <1>3, FramesOfShaped, ShapedRecords
  <1>5. Len(SubSeq(t, 2, Total(t) + 1)) = Total(t)
    <2>1. 2 \in 1 .. Len(t) + 1 /\ Total(t) + 1 \in 2 - 1 .. Len(t)
      BY <1>1, <1>4
    <2> QED
      BY <1>1, <1>4, <2>1, SubSeqProperties
  <1> QED
    BY <1>2, <1>4, <1>5 DEF t

(* The records in a size that was seen are those that were there.          *)
LEMMA UpToSize ==
  ASSUME NEW rs \in Seq(RecordType), NEW z, NEW j, SizeOf(z, rs, j)
  PROVE  UpTo(rs, z) = SubSeq(rs, 1, j)
  <1> DEFINE T == {i \in 0 .. Len(rs) : Ends(rs)[i] <= z}
  <1>1. j \in 0 .. Len(rs) /\ z \in {Ends(rs)[j], Ends(rs)[j] + 1} /\ Ends(rs)[j] \in Nat
    BY EndsType DEF SizeOf
  <1>2. j \in T
    BY <1>1
  <1>3. ASSUME NEW i \in T PROVE j >= i
    <2>1. i \in 0 .. Len(rs) /\ Ends(rs)[i] <= z /\ Ends(rs)[i] \in Nat
      BY EndsType
    <2>2. j < i => Ends(rs)[j] + 2 <= Ends(rs)[i]
      BY <1>1, <2>1, EndsGap
    <2> QED
      BY <1>1, <2>1, <2>2
  <1>4. \A x \in T : (\A y \in T : x >= y) => x = j
    BY <1>2, <1>3
  <1>5. Max(T) = j
    <2> HIDE DEF T
    <2> QED
      BY <1>2, <1>3, <1>4 DEF Max
  <1> QED
    BY <1>5 DEF UpTo

(* One run of records starts at an offset.                                 *)
LEMMA RecordsFromEnd ==
  ASSUME NEW rs \in Seq(RecordType), NEW i \in 0 .. Len(rs)
  PROVE  RecordsFrom(rs, Ends(rs)[i]) = {SubSeq(rs, i + 1, Len(rs))}
  <1>1. \A j \in 0 .. Len(rs) : Ends(rs)[j] \in Nat
    BY EndsType
  <1>2. ASSUME NEW j \in 0 .. Len(rs), Ends(rs)[j] = Ends(rs)[i] PROVE j = i
    <2>1. j < i => Ends(rs)[j] + 2 <= Ends(rs)[i]
      BY EndsGap
    <2>2. i < j => Ends(rs)[i] + 2 <= Ends(rs)[j]
      BY EndsGap
    <2> QED
      BY <1>1, <1>2, <2>1, <2>2
  <1>3. {j \in 0 .. Len(rs) : Ends(rs)[j] = Ends(rs)[i]} = {i}
    BY <1>2
  <1> QED
    BY <1>3 DEF RecordsFrom

(* The point is where the k-th frame starts.                               *)
StartsAt(point, k, rs) == point = <<k, Ends(rs)[k + 1]>>

(* The first frame has a checkpoint.                                       *)
LEMMA ZeroDue == Due(0)
  BY StreamAssumption DEF Due

(* The checkpoint for a page is the start of a frame that is not after it. *)
LEMMA LastPoint ==
  ASSUME NEW points \in Seq(Nat \X Nat), NEW count \in Nat, NEW rs,
         PointsFit(points, count, rs), NEW start \in Nat, start < count
  PROVE  \E k \in Nat : k <= start /\ StartsAt(CheckpointFor(points, start), k, rs)
  <1> DEFINE before == {i \in DOMAIN points : points[i][1] <= start}
  <1>1. PICK z \in DOMAIN points : points[z][1] = 0
    BY ZeroDue DEF PointsFit
  <1>2. before # {} /\ before \subseteq 1 .. Len(points) /\ points # <<>>
    <2>1. z \in before
      BY <1>1
    <2> QED
      BY <2>1
  <1>3. \E x \in before : \A y \in before : x >= y
    <2> DEFINE T == {Len(points) - i : i \in before}
    <2>1. T \subseteq Nat /\ T # {}
      <3>1. Len(points) \in Nat /\ \A i \in before : i \in 1 .. Len(points)
        BY <1>2
      <3> HIDE DEF before
      <3>2. \A i \in before : Len(points) - i \in Nat
        BY <3>1
      <3> QED
        BY <1>2, <3>2
    <2>2. PICK d \in T : \A e \in T : d <= e
      <3> HIDE DEF T
      <3> QED
        BY <2>1, LeastNat, Zenon
    <2>3. PICK x \in before : d = Len(points) - x
      BY <2>2
    <2>4. ASSUME NEW y \in before PROVE x >= y
      <3>1. Len(points) - y \in T
        OBVIOUS
      <3>2. d <= Len(points) - y
        BY <2>2, <3>1
      <3> QED
        BY <1>2, <2>3, <3>2
    <2> QED
      BY <2>4
  <1>4. Max(before) \in before
    <2> HIDE DEF before
    <2> QED
      BY <1>3 DEF Max
  <1> DEFINE i == Max(before)
  <1>5. CheckpointFor(points, start) = points[i]
    BY <1>1, <1>2 DEF CheckpointFor
  <1> HIDE DEF i
  <1>6. /\ i \in DOMAIN points /\ points[i] \in Nat \X Nat /\ points[i][1] <= start
    BY <1>4 DEF i
  <1>7. points[i][2] = Ends(rs)[points[i][1] + 1]
    BY <1>6 DEF PointsFit
  <1>8. points[i] = <<points[i][1], points[i][2]>> /\ points[i][1] \in Nat
    BY <1>6
  <1> QED
    BY <1>5, <1>6, <1>7, <1>8 DEF StartsAt

(* The smaller of two numbers.                                             *)
LEMMA MinOfTwo ==
  ASSUME NEW a \in Nat, NEW b \in Nat
  PROVE  Min({a, b}) = IF a <= b THEN a ELSE b
  <1> DEFINE x == IF a <= b THEN a ELSE b
  <1>1. x \in {a, b} /\ \A y \in {a, b} : x <= y
    OBVIOUS
  <1>2. \A z \in {a, b} : (\A y \in {a, b} : z <= y) => z = x
    OBVIOUS
  <1> QED
    BY <1>1, <1>2 DEF Min

(* A part of the file that runs to its end comes to the same cut line: the *)
(* footer, when there is one, is its last record too.                      *)
LEMMA CutOfTail ==
  ASSUME file \in Seq(RecordType), Shaped(file), file # <<>>, NEW i \in 1 .. Len(file)
  PROVE  CutAtEnd(SubSeq(file, i, Len(file))) <=> CutAtEnd(file)
  <1> DEFINE tail == SubSeq(file, i, Len(file))
             n == Len(file)
  <1>1. n \in Nat \ {0} /\ n \in 1 .. n
    BY LenProperties, EmptySeq
  <1>2. /\ Len(tail) = n - i + 1
        /\ \A j \in 1 .. n - i + 1 : tail[j] = file[i + j - 1]
    BY <1>1, SubSeqProperties
  <1>3. DOMAIN tail = 1 .. n - i + 1 /\ DOMAIN file = 1 .. n
    BY <1>1, <1>2, SubSeqProperties, LenProperties
  <1>4. ASSUME NEW j \in 1 .. n, file[j] = Footer
        PROVE  tail[n - i + 1] = Footer /\ n - i + 1 \in 1 .. n - i + 1
    <2>1. Header # Footer /\ ~IsFrame(Footer)
      BY DEF Header, Footer, IsFrame
    <2>2. j = n
      BY <1>3, <1>4, <2>1 DEF Shaped
    <2>3. n - i + 1 \in 1 .. n - i + 1 /\ i + (n - i + 1) - 1 = n
      BY <1>1
    <2> QED
      BY <1>2, <1>4, <2>2, <2>3
  <1>5. ASSUME NEW j \in 1 .. n - i + 1, tail[j] = Footer
        PROVE  file[i + j - 1] = Footer /\ i + j - 1 \in 1 .. n
    BY <1>1, <1>2, <1>5
  <1> QED
    BY <1>3, <1>4, <1>5 DEF CutAtEnd

(* What is taken from one tail of the file.                                 *)
PageOf(tail, skip, limit) ==
  IF CutAtEnd(tail) /\ Len(FramesOf(tail)) < skip + limit
    THEN Broken ELSE Slice(FramesOf(tail), skip, limit)

LEMMA PageUnfolds ==
  ASSUME NEW idx, NEW start \in Nat, NEW limit \in Nat, ~(limit = 0 \/ start >= idx.count),
         NEW k \in Nat, NEW o, CheckpointFor(idx.points, start) = <<k, o>>,
         NEW tail, RecordsFrom(file, o) = {tail}
  PROVE  ReadPage(idx, start, limit) = PageOf(tail, start - k, limit)
  <1>1. (CHOOSE s \in {tail} : TRUE) = tail /\ {tail} # {}
    OBVIOUS
  <1> QED
    BY <1>1 DEF ReadPage, PageOf

(* A page read with an index that fits is the frames it asks for, or raises *)
(* where they come to a cut line: the seek goes to the start of a frame,   *)
(* and the skip from there is what is missing.                             *)
LEMMA PageExact ==
  ASSUME file \in Seq(RecordType), Shaped(file), NEW idx \in IndexType, NEW m,
         Fits(idx, file, m), NEW start \in Nat, NEW limit \in Nat
  PROVE  ReadPage(idx, start, limit) =
           IF start >= idx.count THEN <<>>
           ELSE IF ComesToCut(start, limit) THEN Broken
           ELSE Slice(FramesOf(file), start, limit)
  <1> DEFINE T == Total(file)
             F == FramesOf(file)
             e == IF T <= start + limit THEN T ELSE start + limit
  <1>1. file # <<>> /\ m \in 1 .. Len(file)
    BY DEF Fits
  <1>2. /\ Len(file) \in Nat \ {0} /\ T \in 0 .. Len(file) - 1
        /\ idx.count \in Nat /\ idx.count <= T
    <2>1. Len(file) \in Nat \ {0} /\ T \in 0 .. Len(file) - 1
      BY <1>1, ShapedRecords
    <2>2. Len(file) \in 1 .. Len(file)
      BY <2>1
    <2>3. Count(file, m) <= Count(file, Len(file))
      BY <1>1, <2>2, CountBound
    <2>4. idx.count = Count(file, m) /\ idx.count \in Nat
      BY DEF Fits, IndexType
    <2> QED
      BY <2>1, <2>3, <2>4 DEF Total
  <1>3. F = SubSeq(file, 2, T + 1) /\ F \in Seq(RecordType) /\ Len(F) = T
    <2>1. 2 \in 1 .. Len(file) + 1 /\ T + 1 \in 2 - 1 .. Len(file)
      BY <1>2
    <2>2. F = SubSeq(file, 2, T + 1)
      BY <1>1, FramesOfShaped
    <2> HIDE DEF T, F
    <2>3. SubSeq(file, 2, T + 1) \in Seq(RecordType)
      BY <2>1, SubSeqProperties
    <2>4. Len(SubSeq(file, 2, T + 1)) = IF 2 <= T + 1 THEN (T + 1) - 2 + 1 ELSE 0
      BY <2>1, SubSeqProperties
    <2> QED
      BY <1>2, <2>2, <2>3, <2>4
  <1> HIDE DEF T, F
  <1>4. Slice(F, start, limit) = SubSeq(F, start + 1, e)
    <2>1. start + limit \in Nat
      OBVIOUS
    <2>2. Min({Len(F), start + limit}) = e
      BY <1>2, <1>3, <2>1, MinOfTwo
    <2> HIDE DEF e
    <2> QED
      BY <2>2 DEF Slice
  <1>5. CASE start >= idx.count
    BY <1>5 DEF ReadPage
  <1>6. CASE start < idx.count /\ limit = 0
    <2>1. e = start /\ start + 1 > start
      BY <1>2, <1>6
    <2>2. SubSeq(F, start + 1, start) = <<>>
      BY <1>3, SubSeqEmpty
    <2>3. /\ ReadPage(idx, start, limit) = <<>> /\ ~(start >= idx.count)
          /\ ~ComesToCut(start, limit)
      BY <1>2, <1>6 DEF ReadPage, ComesToCut
    <2> HIDE DEF e
    <2> QED
      BY <1>4, <2>1, <2>2, <2>3 DEF F
  <1>7. CASE start < idx.count /\ limit > 0
    <2>1. idx.points \in Seq(Nat \X Nat) /\ PointsFit(idx.points, idx.count, file)
      BY DEF IndexType, Fits
    <2>2. PICK k \in Nat : k <= start
             /\ StartsAt(CheckpointFor(idx.points, start), k, file)
      <3>1. idx.count \in Nat /\ start < idx.count
        BY <1>2, <1>7
      <3> QED
        BY <2>1, <3>1, LastPoint, Zenon
    <2>3. k + 1 \in 0 .. Len(file) /\ k \in 0 .. T
      BY <1>2, <1>7, <2>2
    <2> DEFINE tail == SubSeq(file, k + 2, Len(file))
               rest == SubSeq(file, k + 2, T + 1)
    <2>4. RecordsFrom(file, Ends(file)[k + 1]) = {tail}
      <3>1. k + 1 + 1 = k + 2
        OBVIOUS
      <3> QED
        BY <2>3, <3>1, RecordsFromEnd
    <2>5. FramesOf(tail) = rest
      BY <1>1, <2>3, FramesOfTail DEF T
    <2>6. rest \in Seq(RecordType) /\ Len(rest) = T - k
      <3>1. k + 2 \in 1 .. Len(file) + 1 /\ T + 1 \in (k + 2) - 1 .. Len(file)
        BY <1>2, <2>3
      <3> QED
        BY <1>2, <2>3, <3>1, SubSeqProperties
    <2> HIDE DEF tail
    <2>7. ReadPage(idx, start, limit)
            = IF CutAtEnd(tail) /\ Len(rest) < start - k + limit
                THEN Broken ELSE Slice(rest, start - k, limit)
      <3>1. ~(limit = 0 \/ start >= idx.count)
        BY <1>2, <1>7
      <3>2. PICK o : o = Ends(file)[k + 1]
        OBVIOUS
      <3>3. CheckpointFor(idx.points, start) = <<k, o>>
        BY <2>2, <3>2 DEF StartsAt
      <3>4. RecordsFrom(file, o) = {tail}
        BY <2>4, <3>2
      <3>5. ReadPage(idx, start, limit) = PageOf(tail, start - k, limit)
        BY <3>1, <3>3, <3>4, PageUnfolds
      <3> HIDE DEF rest
      <3> QED
        BY <2>5, <3>5 DEF PageOf
    <2>8. Slice(rest, start - k, limit) = SubSeq(rest, start - k + 1, e - k)
      <3>1. T - k \in Nat /\ start - k + limit \in Nat
        BY <1>2, <2>2, <2>3
      <3>2. Min({T - k, start - k + limit}) = e - k
        BY <1>2, <2>2, <2>3, <3>1, MinOfTwo
      <3> HIDE DEF rest, e
      <3> QED
        BY <2>6, <3>2 DEF Slice
    <2>9. SubSeq(rest, start - k + 1, e - k)
            = SubSeq(file, (k + 2) + (start - k + 1) - 1, (k + 2) + (e - k) - 1)
      <3>1. /\ k + 2 \in 1 .. Len(file) /\ T + 1 \in 1 .. Len(file)
            /\ start - k + 1 \in 1 .. (T + 1) - (k + 2) + 1
            /\ e - k \in 1 .. (T + 1) - (k + 2) + 1
        BY <1>2, <1>7, <2>2, <2>3
      <3> DEFINE a == start - k + 1
                 b == e - k
                 i == k + 2
                 j == T + 1
      <3> HIDE DEF e, a, b, i, j
      <3>2. i \in 1 .. Len(file) /\ j \in 1 .. Len(file) /\ a \in 1 .. j - i + 1 /\ b \in 1 .. j - i + 1
        BY <3>1 DEF a, b, i, j
      <3>3. SubSeq(SubSeq(file, i, j), a, b) = SubSeq(file, i + a - 1, i + b - 1)
        BY <3>2, SubSeqOfSubSeq
      <3> QED
        BY <3>3 DEF a, b, i, j
    <2>10. SubSeq(F, start + 1, e) = SubSeq(file, 2 + (start + 1) - 1, 2 + e - 1)
      <3>1. /\ 2 \in 1 .. Len(file) /\ T + 1 \in 1 .. Len(file)
            /\ start + 1 \in 1 .. (T + 1) - 2 + 1 /\ e \in 1 .. (T + 1) - 2 + 1
        BY <1>2, <1>7
      <3> HIDE DEF e
      <3> QED
        BY <1>3, <3>1, SubSeqOfSubSeq
    <2>11. /\ (k + 2) + (start - k + 1) - 1 = 2 + (start + 1) - 1
           /\ (k + 2) + (e - k) - 1 = 2 + e - 1
      BY <1>2, <2>2
    <2>12. ~(start >= idx.count)
      BY <1>2, <1>7
    <2>13. CutAtEnd(tail) <=> CutAtEnd(file)
      <3>1. k + 2 \in 1 .. Len(file)
        BY <1>2, <1>7, <2>2, <2>3
      <3> QED
        BY <1>1, <3>1, CutOfTail DEF tail
    <2>14. (CutAtEnd(tail) /\ Len(rest) < start - k + limit) <=> ComesToCut(start, limit)
      <3>1. Len(rest) < start - k + limit <=> Len(F) < start + limit
        BY <1>2, <1>3, <2>2, <2>3, <2>6
      <3>2. limit # 0
        BY <1>7
      <3> HIDE DEF rest
      <3> QED
        BY <2>13, <3>1, <3>2 DEF ComesToCut, F
    <2> HIDE DEF e, rest
    <2> QED
      BY <1>4, <2>7, <2>8, <2>9, <2>10, <2>11, <2>12, <2>14 DEF F
  <1> QED
    BY <1>2, <1>5, <1>6, <1>7

(* The point of the next frame keeps the points complete.                  *)
LEMMA PointsFitAppend ==
  ASSUME NEW points \in Seq(Nat \X Nat), NEW count \in Nat, NEW rs,
         PointsFit(points, count, rs), NEW at \in Nat, at = Ends(rs)[count + 1]
  PROVE  LET more == IF Due(count) THEN Append(points, <<count, at>>) ELSE points
         IN  /\ more \in Seq(Nat \X Nat)
             /\ PointsFit(more, count, rs) /\ PointsFit(more, count + 1, rs)
  <1>1. CASE Due(count)
    <2> DEFINE more == Append(points, <<count, at>>)
    <2>1. /\ more \in Seq(Nat \X Nat) /\ more # <<>> /\ Len(more) = Len(points) + 1
          /\ \A i \in 1 .. Len(points) : more[i] = points[i]
          /\ more[Len(points) + 1] = <<count, at>>
      <3> DEFINE p == <<count, at>>
                 S == Nat \X Nat
      <3>1. p \in S /\ points \in Seq(S)
        OBVIOUS
      <3> HIDE DEF p, S
      <3>2. /\ Append(points, p) \in Seq(S)
            /\ Len(Append(points, p)) = Len(points) + 1
            /\ \A i \in 1 .. Len(points) : Append(points, p)[i] = points[i]
            /\ Append(points, p)[Len(points) + 1] = p
        BY <3>1
      <3>3. Append(points, p) # <<>>
        BY <3>1, AppendProperties
      <3> QED
        BY <3>2, <3>3 DEF p, S
    <2> HIDE DEF more
    <2>2. ASSUME NEW i \in DOMAIN more
          PROVE  more[i][1] <= count /\ more[i][1] \in Nat /\ Due(more[i][1])
                 /\ more[i][2] = Ends(rs)[more[i][1] + 1]
      <3>1. CASE i = Len(points) + 1
        BY <1>1, <2>1, <3>1
      <3>2. CASE i # Len(points) + 1
        <4>1. i \in DOMAIN points /\ more[i] = points[i] /\ points[i] \in Nat \X Nat
          <5>1. DOMAIN more = 1 .. Len(points) + 1
            BY <2>1
          <5>2. i \in 1 .. Len(points)
            BY <3>2, <5>1
          <5>3. more[i] = points[i]
            BY <2>1, <5>2
          <5>4. i \in DOMAIN points /\ points[i] \in Nat \X Nat
            BY <5>2
          <5> QED
            BY <5>3, <5>4
        <4> QED
          BY <4>1 DEF PointsFit
      <3> QED
        BY <3>1, <3>2
    <2>3. ASSUME NEW k \in 0 .. count, Due(k)
          PROVE  \E i \in DOMAIN more : more[i][1] = k
      <3>1. CASE k = count
        <4>1. Len(points) + 1 \in DOMAIN more
          BY <2>1
        <4>2. more[Len(points) + 1][1] = k
          <5>1. more[Len(points) + 1] = <<count, at>>
            BY <2>1
          <5> QED
            BY <3>1, <5>1
        <4> QED
          BY <4>1, <4>2
      <3>2. CASE k < count
        <4>1. PICK i \in DOMAIN points : points[i][1] = k
          BY <2>3, <3>2 DEF PointsFit
        <4>2. i \in 1 .. Len(points) /\ i \in DOMAIN more
          <5>1. DOMAIN more = 1 .. Len(points) + 1
            BY <2>1
          <5>2. i \in 1 .. Len(points)
            BY <4>1
          <5> QED
            BY <5>1, <5>2
        <4>3. more[i] = points[i]
          BY <2>1, <4>2
        <4> QED
          BY <4>1, <4>2, <4>3
      <3> QED
        BY <3>1, <3>2
    <2>4. PointsFit(more, count, rs)
      BY <2>2, <2>3 DEF PointsFit
    <2>5. PointsFit(more, count + 1, rs)
      <3>1. \A i \in DOMAIN more : more[i][1] <= count + 1
        BY <2>2
      <3>2. \A k \in 0 .. count + 1 : k < count + 1 => k \in 0 .. count
        OBVIOUS
      <3> QED
        BY <2>2, <2>3, <3>1, <3>2 DEF PointsFit
    <2> QED
      BY <1>1, <2>1, <2>4, <2>5 DEF more
  <1>2. CASE ~Due(count)
    <2>2. \A i \in DOMAIN points : points[i][1] <= count + 1
      <3> SUFFICES ASSUME NEW i \in DOMAIN points PROVE points[i][1] <= count + 1
        OBVIOUS
      <3>1. points[i][1] \in Nat /\ points[i][1] <= count
        BY DEF PointsFit
      <3> QED
        BY <3>1
    <2>3. \A k \in 0 .. count + 1 : k < count + 1 /\ Due(k) => k \in 0 .. count /\ k < count
      BY <1>2
    <2>4. PointsFit(points, count + 1, rs)
      BY <2>2, <2>3 DEF PointsFit
    <2> QED
      BY <1>2, <2>4
  <1> QED
    BY <1>1, <1>2

(* What a scan has after the first i records.                              *)
ScanFits(s, rs, i) ==
    /\ s.at = Ends(rs)[i] /\ s.count = Count(rs, i)
    /\ PointsFit(s.points, s.count, rs)
    /\ \A n \in DOMAIN s.points : s.points[n][1] < s.count

(* One record of a scan.                                                   *)
LEMMA ScanStep ==
  ASSUME NEW rs \in Seq(RecordType), Shaped(rs), NEW i \in 1 .. Len(rs),
         NEW s \in ScanType, ScanFits(s, rs, i - 1)
  PROVE  ScanFits(ScanRecord(s, rs[i]), rs, i)
  <1> DEFINE r == rs[i]
             t == ScanRecord(s, r)
  <1>1. /\ s.at \in Nat /\ s.count \in Nat /\ s.points \in Seq(Nat \X Nat)
        /\ Ends(rs)[i] = Ends(rs)[i - 1] + Width(r)
    BY EndsType DEF ScanType
  <1>2. i > 1 => i - 1 \in 1 .. Len(rs) /\ rs[i - 1] # Footer
    <2> SUFFICES ASSUME i > 1 PROVE i - 1 \in 1 .. Len(rs) /\ rs[i - 1] # Footer
      OBVIOUS
    <2>1. i - 1 \in 1 .. Len(rs) /\ i - 1 # Len(rs)
      OBVIOUS
    <2> QED
      BY <2>1 DEF Shaped, IsFrame, Header, Footer
  <1>3. s.count = IF i = 1 THEN 0 ELSE i - 2
    BY <1>2 DEF ScanFits, Count
  <1>4. CASE IsFrame(r)
    <2>1. i > 1 /\ r # Footer
      BY <1>4 DEF Shaped, IsFrame, Header, Footer
    <2>2. Count(rs, i) = s.count + 1 /\ s.count + 1 = i - 1
      BY <1>3, <2>1 DEF Count
    <2> DEFINE more == IF Due(s.count) THEN Append(s.points, <<s.count, s.at>>) ELSE s.points
    <2>3. t = [count |-> s.count + 1, points |-> more, at |-> s.at + Width(r)]
      BY <1>4 DEF ScanRecord, Due
    <2>4. PointsFit(more, s.count + 1, rs)
      <3>1. s.at = Ends(rs)[s.count + 1] /\ PointsFit(s.points, s.count, rs)
        BY <2>2 DEF ScanFits
      <3> QED
        BY <1>1, <3>1, PointsFitAppend
    <2>5. \A n \in DOMAIN more : more[n][1] < s.count + 1
      <3>1. CASE Due(s.count)
        <4> DEFINE p == <<s.count, s.at>>
        <4>1. /\ Len(Append(s.points, p)) = Len(s.points) + 1
              /\ DOMAIN Append(s.points, p) = 1 .. Len(s.points) + 1
              /\ \A n \in 1 .. Len(s.points) : Append(s.points, p)[n] = s.points[n]
              /\ Append(s.points, p)[Len(s.points) + 1] = p
          <5> DEFINE S == Nat \X Nat
          <5>1. p \in S /\ s.points \in Seq(S)
            BY <1>1
          <5> HIDE DEF p, S
          <5> QED
            BY <5>1
        <4>2. ASSUME NEW n \in 1 .. Len(s.points) + 1 PROVE Append(s.points, p)[n][1] < s.count + 1
          <5>1. CASE n = Len(s.points) + 1
            <6>1. Append(s.points, p)[n][1] = s.count
              BY <4>1, <5>1
            <6> QED
              BY <1>1, <6>1
          <5>2. CASE n # Len(s.points) + 1
            <6> DEFINE L == Len(s.points)
            <6>4. L \in Nat /\ DOMAIN s.points = 1 .. L
              BY <1>1
            <6>1. n \in 1 .. Len(s.points) /\ n \in DOMAIN s.points
              <7>1. n \in 1 .. L + 1 /\ n # L + 1
                BY <5>2
              <7> HIDE DEF L
              <7>2. n \in 1 .. L
                BY <6>4, <7>1
              <7> QED
                BY <6>4, <7>2 DEF L
            <6>2. s.points[n][1] \in Nat /\ s.points[n][1] < s.count
              BY <1>1, <6>1 DEF ScanFits
            <6>3. Append(s.points, p)[n] = s.points[n]
              BY <4>1, <6>1
            <6>5. s.points[n][1] < s.count + 1
              <7> DEFINE q == s.points[n][1]
                         c == s.count
              <7>1. q \in Nat /\ c \in Nat /\ q < c
                BY <1>1, <6>2
              <7> HIDE DEF q, c
              <7>2. q < c + 1
                BY <7>1
              <7> QED
                BY <7>2 DEF q, c
            <6> HIDE DEF p
            <6> QED
              BY <6>3, <6>5
          <5> QED
            BY <5>1, <5>2
        <4> QED
          BY <3>1, <4>1, <4>2
      <3>2. CASE ~Due(s.count)
        <4>1. \A n \in DOMAIN s.points : s.points[n][1] \in Nat /\ s.points[n][1] < s.count
          BY <1>1 DEF ScanFits
        <4> QED
          BY <1>1, <3>2, <4>1
      <3> QED
        BY <3>1, <3>2
    <2> HIDE DEF more
    <2>6. t.at = Ends(rs)[i] /\ t.count = s.count + 1 /\ t.points = more
      BY <1>1, <2>3 DEF ScanFits
    <2> HIDE DEF t
    <2> QED
      BY <2>2, <2>4, <2>5, <2>6 DEF ScanFits, t
  <1>5. CASE ~IsFrame(r)
    <2>1. t.at = Ends(rs)[i] /\ t.count = s.count /\ t.points = s.points
      BY <1>1, <1>5 DEF ScanRecord, ScanFits, ScanType
    <2>2. Count(rs, i) = s.count
      <3>1. i # 1 => rs[i] = Footer
        BY <1>5 DEF Shaped
      <3>2. i = 1 => rs[i] # Footer
        BY DEF Shaped, Header, Footer
      <3> QED
        BY <1>3, <3>1, <3>2 DEF Count
    <2> HIDE DEF t
    <2> QED
      BY <2>1, <2>2 DEF ScanFits, t
  <1> QED
    BY <1>4, <1>5

(* A scan counts the frames and keeps points that fit.                     *)
LEMMA ScannedFits ==
  ASSUME NEW rs \in Seq(RecordType), Shaped(rs)
  PROVE  ScanFits(Scanned(rs)[Len(rs)], rs, Len(rs))
  <1> DEFINE N == Len(rs)
             T == {i \in 0 .. N : ScanFits(Scanned(rs)[i], rs, i)}
  <1>1. N \in Nat
    OBVIOUS
  <1>2. 0 \in T
    <2>1. Scanned(rs)[0] = ScanStart /\ Ends(rs)[0] = 0
      BY ScannedStep, EndsType
    <2>2. ScanFits(ScanStart, rs, 0)
      BY <2>1 DEF ScanFits, ScanStart, Count, PointsFit
    <2> QED
      BY <1>1, <2>1, <2>2
  <1>3. ASSUME NEW i \in 1 .. N, i - 1 \in T PROVE i \in T
    <2>1. Scanned(rs)[i] = ScanRecord(Scanned(rs)[i - 1], rs[i])
      BY ScannedStep
    <2>2. Scanned(rs)[i - 1] \in ScanType /\ ScanFits(Scanned(rs)[i - 1], rs, i - 1)
      BY <1>3, ScannedStep
    <2>3. ScanFits(ScanRecord(Scanned(rs)[i - 1], rs[i]), rs, i)
      BY <2>2, ScanStep
    <2> QED
      BY <2>1, <2>3
  <1>4. N \in T
    <2> HIDE DEF T, N
    <2>1. \A i \in 0 .. N : i \in T
      BY <1>1, <1>2, <1>3, Induction, Zenon
    <2> QED
      BY <1>1, <2>1
  <1> QED
    BY <1>4

(* The index that is built by a scan fits the file.                        *)
LEMMA BuildIndexFits ==
  ASSUME NEW rs \in Seq(RecordType), Shaped(rs), rs # <<>>, files \in Nat
  PROVE  /\ BuildIndex(rs) \in IndexType /\ BuildIndex(rs).of = files
         /\ BuildIndex(rs).count = Total(rs) /\ Fits(BuildIndex(rs), rs, Len(rs))
         /\ \A n \in DOMAIN BuildIndex(rs).points : BuildIndex(rs).points[n][1] < Total(rs)
  <1> DEFINE s == Scanned(rs)[Len(rs)]
  <1>1. s \in ScanType /\ ScanFits(s, rs, Len(rs)) /\ Len(rs) \in 1 .. Len(rs)
    <2>1. Len(rs) \in 1 .. Len(rs) /\ Len(rs) \in 0 .. Len(rs)
      BY EmptySeq
    <2> QED
      BY <2>1, ScannedStep, ScannedFits
  <1> HIDE DEF s
  <1>2. BuildIndex(rs) = [count |-> s.count, points |-> s.points, size |-> 0, of |-> files,
                          grew |-> FALSE]
    BY DEF BuildIndex, s
  <1> QED
    BY <1>1, <1>2 DEF ScanFits, ScanType, IndexType, Fits, Total

(* What has been written, in the file and in the buffer.                   *)
Whole == file \o buffer

(* A file grows by what is written behind it.                              *)
LEMMA ConcatExtends ==
  ASSUME NEW rs \in Seq(RecordType), NEW ts \in Seq(RecordType)
  PROVE  Extends(rs \o ts, rs) /\ Extends(rs, rs)
  <1>1. /\ Len(rs) \in Nat /\ Len(ts) \in Nat /\ Len(rs \o ts) = Len(rs) + Len(ts)
        /\ \A i \in 1 .. Len(rs) : (rs \o ts)[i] = rs[i]
    BY ConcatProperties
  <1> QED
    BY <1>1 DEF Extends

(* A record appended to the buffer is appended to the whole.               *)
LEMMA AppendToBuffer ==
  ASSUME NEW rs \in Seq(RecordType), NEW ts \in Seq(RecordType), NEW x \in RecordType
  PROVE  rs \o Append(ts, x) = Append(rs \o ts, x)
  <1>1. Append(ts, x) \in Seq(RecordType) /\ Len(Append(ts, x)) = Len(ts) + 1
    BY AppendProperties
  <1>2. rs \o ts \in Seq(RecordType) /\ Len(rs \o ts) = Len(rs) + Len(ts)
    BY ConcatProperties
  <1>3. rs \o Append(ts, x) \in Seq(RecordType) /\ Append(rs \o ts, x) \in Seq(RecordType)
    BY <1>1, <1>2, ConcatProperties, AppendProperties
  <1>4. Len(rs \o Append(ts, x)) = Len(Append(rs \o ts, x))
    BY <1>1, <1>2
  <1>5. ASSUME NEW i \in 1 .. Len(rs) + Len(ts) + 1
        PROVE  (rs \o Append(ts, x))[i] = Append(rs \o ts, x)[i]
    BY <1>1, <1>2
  <1>6. Len(rs \o Append(ts, x)) = Len(rs) + Len(ts) + 1
    BY <1>1
  <1> QED
    BY <1>3, <1>4, <1>5, <1>6, SeqEqual

(* A frame or the footer may follow where no footer is.                    *)
LEMMA ShapedAppend ==
  ASSUME NEW rs \in Seq(RecordType), Shaped(rs), rs # <<>>, ~Closed(rs),
         NEW x \in RecordType, IsFrame(x) \/ x = Footer
  PROVE  /\ Append(rs, x) \in Seq(RecordType) /\ Shaped(Append(rs, x))
         /\ Extends(Append(rs, x), rs)
         /\ Len(Append(rs, x)) = Len(rs) + 1 /\ Append(rs, x)[Len(rs) + 1] = x
  <1> DEFINE t == Append(rs, x)
             N == Len(rs)
  <1>1. /\ t \in Seq(RecordType) /\ Len(t) = N + 1 /\ t[N + 1] = x
        /\ \A i \in 1 .. N : t[i] = rs[i]
    BY AppendProperties
  <1>2. N \in Nat /\ N >= 1
    BY EmptySeq
  <1>3. \A i \in 1 .. N : IF i = 1 THEN rs[i] = Header ELSE IsFrame(rs[i])
    BY DEF Shaped, Closed
  <1> HIDE DEF t, N
  <1>4. ASSUME NEW i \in 1 .. N + 1
        PROVE  IF i = 1 THEN t[i] = Header
               ELSE IsFrame(t[i]) \/ (i = N + 1 /\ t[i] = Footer)
    <2>1. CASE i = N + 1
      BY <1>1, <1>2, <2>1
    <2>2. CASE i # N + 1
      <3>1. i \in 1 .. N
        BY <1>2, <2>2
      <3> QED
        BY <1>1, <1>3, <3>1
    <2> QED
      BY <2>1, <2>2
  <1>5. Shaped(t)
    BY <1>1, <1>4 DEF Shaped
  <1>6. Extends(t, rs)
    BY <1>1, <1>2 DEF Extends, N
  <1> QED
    BY <1>1, <1>5, <1>6 DEF t, N

(* What a file begins with has the shape of a file.                        *)
LEMMA ShapedPart ==
  ASSUME NEW rs \in Seq(RecordType), NEW ts \in Seq(RecordType), Shaped(ts), Extends(ts, rs)
  PROVE  Shaped(rs)
  <1> SUFFICES ASSUME NEW i \in DOMAIN rs
               PROVE  IF i = 1 THEN rs[i] = Header
                      ELSE IsFrame(rs[i]) \/ (i = Len(rs) /\ rs[i] = Footer)
    BY DEF Shaped
  <1>1. i \in 1 .. Len(rs) /\ i \in DOMAIN ts /\ ts[i] = rs[i] /\ Len(rs) <= Len(ts)
    BY DEF Extends
  <1>2. i = Len(ts) => i = Len(rs)
    BY <1>1
  <1> QED
    BY <1>1, <1>2 DEF Shaped

(* KeptInv, and ReaderInv below, with the state as parameters.             *)
KeptAt(idx, fs, rs, w) ==
    /\ idx.of <= fs
    /\ (idx.of = fs /\ fs > 0) =>
          Good(idx, rs, 1) \/ (w \in {"none", "done"} /\ idx.size > Bytes(rs) + 1)

(* KeptInv is KeptAt of the state.                                         *)
LEMMA KeptIsAt ==
  ASSUME NEW idx
  PROVE  KeptInv(idx) <=> KeptAt(idx, files, file, writer)
  BY DEF KeptInv, KeptAt, Writing

(* An index on disk is as good when a writer has added records.            *)
LEMMA KeptGrows ==
  ASSUME NEW rs \in Seq(RecordType), NEW ts \in Seq(RecordType), Shaped(rs), Extends(ts, rs),
         NEW idx \in IndexType, NEW fs \in Nat, NEW w, NEW v, KeptAt(idx, fs, rs, w),
         \/ w \notin {"none", "done"}
         \/ rs = ts /\ v \in {"none", "done"}
  PROVE  KeptAt(idx, fs, ts, v)
  <1>1. CASE Good(idx, rs, 1)
    <2>1. 1 \in 1 .. Len(rs)
      BY <1>1 DEF Good, Fits
    <2>2. Good(idx, ts, 1)
      BY <1>1, <2>1, GoodExtends
    <2> QED
      BY <2>2 DEF KeptAt
  <1>2. CASE ~Good(idx, rs, 1)
    BY <1>2 DEF KeptAt
  <1> QED
    BY <1>1, <1>2

(* What is known of a reader in a state, of the records rs.                *)
ReaderAt(st, idx, z, fs, rs) ==
    /\ st # "idle" => fs > 0
    /\ st \notin {"idle", "empty"} => rs # <<>>
    /\ st \in {"index", "scan", "size", "tmp", "replace", "open"} =>
          \E j \in 1 .. Len(rs) :
              /\ SizeOf(z, rs, j)
              /\ st = "size" =>
                    /\ idx.of = fs
                    /\ \E m \in j .. Len(rs) : Fits(idx, rs, m)
              /\ st \in {"tmp", "replace"} => idx.of = fs /\ Good(idx, rs, j)
              /\ (st = "open" /\ idx.of = fs) =>
                    /\ \E m \in 1 .. Len(rs) : Fits(idx, rs, m)
                    /\ ~idx.grew => Count(rs, j) <= idx.count

(* ReaderInv is ReaderAt of the state.                                     *)
LEMMA ReaderIsAt ==
  ASSUME NEW r \in Readers
  PROVE  ReaderInv(r) <=> ReaderAt(reader[r], rindex[r], rsize[r], files, file)
  BY DEF ReaderInv, ReaderAt

(* What a reader has is as good when the file has grown.                   *)
LEMMA ReaderGrows ==
  ASSUME NEW rs \in Seq(RecordType), NEW ts \in Seq(RecordType), Shaped(rs), Extends(ts, rs),
         NEW st, NEW idx \in IndexType, NEW z, NEW fs \in Nat, ReaderAt(st, idx, z, fs, rs)
  PROVE  ReaderAt(st, idx, z, fs, ts)
  <1>1. rs # <<>> => ts # <<>>
    BY EmptySeq DEF Extends
  <1>2. ASSUME st \in {"index", "scan", "size", "tmp", "replace", "open"}
        PROVE  \E j \in 1 .. Len(ts) :
              /\ SizeOf(z, ts, j)
              /\ st = "size" =>
                    /\ idx.of = fs
                    /\ \E m \in j .. Len(ts) : Fits(idx, ts, m)
              /\ st \in {"tmp", "replace"} => idx.of = fs /\ Good(idx, ts, j)
              /\ (st = "open" /\ idx.of = fs) =>
                    /\ \E m \in 1 .. Len(ts) : Fits(idx, ts, m)
                    /\ ~idx.grew => Count(ts, j) <= idx.count
    <2>1. PICK j \in 1 .. Len(rs) :
              /\ SizeOf(z, rs, j)
              /\ st = "size" =>
                    /\ idx.of = fs
                    /\ \E m \in j .. Len(rs) : Fits(idx, rs, m)
              /\ st \in {"tmp", "replace"} => idx.of = fs /\ Good(idx, rs, j)
              /\ (st = "open" /\ idx.of = fs) =>
                    /\ \E m \in 1 .. Len(rs) : Fits(idx, rs, m)
                    /\ ~idx.grew => Count(rs, j) <= idx.count
      BY <1>2 DEF ReaderAt
    <2>2. j \in 1 .. Len(ts) /\ SizeOf(z, ts, j) /\ Count(ts, j) = Count(rs, j)
      BY <2>1, SizeOfExtends, CountExtends
    <2>3. \A m \in j .. Len(rs) : Fits(idx, rs, m) => m \in j .. Len(ts) /\ Fits(idx, ts, m)
      BY FitsExtends DEF Extends
    <2>4. \A m \in 1 .. Len(rs) : Fits(idx, rs, m) => m \in 1 .. Len(ts) /\ Fits(idx, ts, m)
      BY FitsExtends DEF Extends
    <2>5. Good(idx, rs, j) => Good(idx, ts, j)
      BY <2>1, GoodExtends
    <2> QED
      BY <2>1, <2>2, <2>3, <2>4, <2>5
  <1> QED
    BY <1>1, <1>2 DEF ReaderAt

(* The same after a step.                                                  *)
LEMMA PrimedIsAt ==
  /\ \A r \in Readers : ReaderInv(r)' <=> ReaderAt(reader'[r], rindex'[r], rsize'[r], files', file')
  /\ KeptInv(indexFile)' <=> KeptAt(indexFile', files', file', writer')
  /\ KeptInv(tmpFile)' <=> KeptAt(tmpFile', files', file', writer')
  BY DEF ReaderInv, ReaderAt, KeptInv, KeptAt, Writing

(* The file, and the file with the buffer, have the shape of a session.    *)
LEMMA FileIsShaped ==
  ASSUME StreamTypeOK, WriterInv
  PROVE  /\ file \in Seq(RecordType) /\ buffer \in Seq(RecordType)
         /\ Whole \in Seq(RecordType) /\ Shaped(Whole) /\ Shaped(file) /\ Extends(Whole, file)
         /\ buffer = <<>> => Whole = file
  <1>1. file \in Seq(RecordType) /\ buffer \in Seq(RecordType)
    BY DEF StreamTypeOK
  <1>2. Whole \in Seq(RecordType) /\ Extends(Whole, file)
    BY <1>1, ConcatProperties, ConcatExtends DEF Whole
  <1>3. Shaped(Whole)
    BY DEF WriterInv, Whole
  <1>4. Shaped(file)
    BY <1>1, <1>2, <1>3, ShapedPart
  <1>5. buffer = <<>> => Whole = file
    BY <1>1, ConcatEmptySeq DEF Whole
  <1> QED
    BY <1>1, <1>2, <1>3, <1>4, <1>5

(* A step that only adds to the file, or leaves it as it is when the writer *)
(* is done, leaves every index on disk as good as it was ...               *)
LEMMA IndexesStay ==
  ASSUME StreamIInv, files' = files, file' \in Seq(RecordType), Extends(file', file),
         Writing \/ (file' = file /\ writer' \in {"none", "done"})
  PROVE  /\ KeptAt(indexFile, files', file', writer')
         /\ KeptAt(tmpFile, files', file', writer')
  <1>1. file \in Seq(RecordType) /\ Shaped(file)
    BY FileIsShaped DEF StreamIInv
  <1>2. indexFile \in IndexType /\ tmpFile \in IndexType /\ files \in Nat
    BY DEF StreamIInv, StreamTypeOK
  <1>3. writer \notin {"none", "done"} \/ (file = file' /\ writer' \in {"none", "done"})
    BY DEF Writing
  <1>4. KeptAt(indexFile, files, file, writer) /\ KeptAt(tmpFile, files, file, writer)
    BY KeptIsAt DEF StreamIInv
  <1> QED
    BY <1>1, <1>2, <1>3, <1>4, KeptGrows

(* ... and what a reader has as good as it was.                            *)
LEMMA ReadersStay ==
  ASSUME StreamIInv, files' = files, file' \in Seq(RecordType), Extends(file', file),
         NEW r \in Readers,
         reader'[r] = reader[r], rindex'[r] = rindex[r], rsize'[r] = rsize[r]
  PROVE  ReaderInv(r)'
  <1>1. file \in Seq(RecordType) /\ Shaped(file)
    BY FileIsShaped DEF StreamIInv
  <1>2. rindex[r] \in IndexType /\ files \in Nat
    BY DEF StreamIInv, StreamTypeOK
  <1>3. ReaderAt(reader[r], rindex[r], rsize[r], files, file)
    BY ReaderIsAt DEF StreamIInv
  <1>4. ReaderAt(reader[r], rindex[r], rsize[r], files, file')
    BY <1>1, <1>2, <1>3, ReaderGrows
  <1> QED
    BY <1>4, PrimedIsAt

(* So a step of the writer alone has only its own part to show.            *)
LEMMA OthersStay ==
  ASSUME StreamIInv, files' = files, UNCHANGED rvars,
         file' \in Seq(RecordType), Extends(file', file),
         Writing \/ (file' = file /\ writer' \in {"none", "done"})
  PROVE  /\ \A r \in Readers : ReaderInv(r)'
         /\ indexFile' = indexFile => KeptInv(indexFile)'
         /\ tmpFile' = tmpFile => KeptInv(tmpFile)'
  <1>1. \A r \in Readers : ReaderInv(r)'
    BY ReadersStay DEF rvars
  <1> QED
    BY <1>1, IndexesStay, PrimedIsAt

(* The empty sequences and the index that is not there.                    *)
LEMMA EmptyTypes ==
  <<>> \in Seq(RecordType) /\ <<>> \in Seq(Nat \X Nat) /\ NoIndex \in IndexType
  <1>1. <<>> \in Seq(RecordType) /\ <<>> \in Seq(Nat \X Nat)
    BY EmptySeq
  <1> QED
    BY <1>1 DEF NoIndex, IndexType

(* StreamIInv holds at the start.                                          *)
LEMMA InitIInv == StreamInit => StreamIInv
  <1> SUFFICES ASSUME StreamInit PROVE StreamIInv
    OBVIOUS
  <1>1. StreamTypeOK
    BY EmptyTypes DEF StreamInit, StreamTypeOK
  <1>2. WriterInv
    <2>1. <<>> \o <<>> = <<>>
      BY ConcatEmptySeq
    <2>2. Shaped(<<>>)
      BY DEF Shaped
    <2> QED
      BY <2>1, <2>2 DEF StreamInit, WriterInv
  <1>3. KeptInv(indexFile) /\ KeptInv(tmpFile)
    BY DEF StreamInit, KeptInv, NoIndex
  <1>4. \A r \in Readers : ReaderInv(r)
    BY DEF StreamInit, ReaderInv
  <1> QED
    BY <1>1, <1>2, <1>3, <1>4 DEF StreamIInv

(* open(): every index is of an earlier file now.                          *)
LEMMA OpenFileInv ==
  ASSUME StreamIInv, OpenFile
  PROVE  StreamIInv'
  <1>1. StreamTypeOK /\ files \in Nat /\ indexFile.of \in Nat /\ tmpFile.of \in Nat
    BY DEF StreamIInv, StreamTypeOK, IndexType
  <1>2. StreamTypeOK'
    <2>1. /\ writer' = "header" /\ file' = <<>> /\ torn' = FALSE /\ buffer' = <<>>
          /\ frameCount' = 0 /\ checkpoints' = <<>> /\ synced' = 0 /\ files' = files + 1
      BY DEF OpenFile
    <2>2. /\ indexFile' = indexFile /\ tmpFile' = tmpFile /\ reader' = reader
          /\ rindex' = rindex /\ rsize' = rsize /\ failures' = failures
      BY DEF OpenFile, index
    <2> QED
      <3>1. 0 \in Nat /\ files + 1 \in Nat /\ FALSE \in BOOLEAN
        BY <1>1
      <3> QED
        BY <1>1, <2>1, <2>2, <3>1, EmptyTypes, Zenon DEF StreamTypeOK
  <1>3. WriterInv'
    <2>1. <<>> \o <<>> = <<>>
      BY ConcatEmptySeq
    <2>2. Shaped(<<>>)
      BY DEF Shaped
    <2> QED
      BY <2>1, <2>2 DEF OpenFile, WriterInv
  <1>4. KeptInv(indexFile)' /\ KeptInv(tmpFile)'
    <2>1. indexFile.of <= files /\ tmpFile.of <= files
      BY DEF StreamIInv, KeptInv
    <2> QED
      BY <1>1, <2>1 DEF OpenFile, index, KeptInv
  <1>5. \A r \in Readers : ReaderInv(r)'
    BY <1>1 DEF OpenFile, ReaderInv
  <1> QED
    BY <1>2, <1>3, <1>4, <1>5 DEF StreamIInv

(* The header alone is a session that is not closed.                       *)
LEMMA HeaderAlone ==
  /\ <<Header>> \in Seq(RecordType) /\ <<Header>> \o <<>> = <<Header>>
  /\ <<>> \o <<Header>> = <<Header>> /\ Len(<<Header>>) = 1 /\ <<Header>> # <<>>
  /\ Shaped(<<Header>>) /\ ~Closed(<<Header>>) /\ PointsFit(<<>>, 0, <<Header>>)
  <1>1. <<Header>> \in Seq(RecordType) /\ Len(<<Header>>) = 1 /\ <<Header>>[1] = Header
    BY DEF Header, RecordType
  <1>2. <<Header>> \o <<>> = <<Header>> /\ <<>> \o <<Header>> = <<Header>>
    BY <1>1, ConcatEmptySeq
  <1>3. Shaped(<<Header>>) /\ ~Closed(<<Header>>) /\ <<Header>> # <<>>
    BY <1>1 DEF Shaped, Closed
  <1>4. PointsFit(<<>>, 0, <<Header>>)
    BY DEF PointsFit
  <1> QED
    BY <1>1, <1>2, <1>3, <1>4

(* The header is the first record ...                                      *)
LEMMA WriteHeaderInv ==
  ASSUME StreamIInv, WriteHeader
  PROVE  StreamIInv'
  <1>1. StreamTypeOK /\ WriterInv /\ file = <<>> /\ buffer = <<>> /\ frameCount = 0
        /\ checkpoints = <<>>
    BY DEF StreamIInv, WriterInv, WriteHeader
  <1>2. file' = <<Header>> /\ buffer' = <<>>
    BY <1>1 DEF WriteHeader
  <1>3. StreamTypeOK'
    BY <1>1, <1>2, HeaderAlone DEF WriteHeader, StreamTypeOK, index, rvars
  <1>4. WriterInv'
    BY <1>1, <1>2, HeaderAlone DEF WriterInv, WriteHeader
  <1>5. Extends(file', file)
    BY <1>1, <1>2 DEF Extends
  <1>6. Writing /\ files' = files /\ UNCHANGED rvars /\ indexFile' = indexFile /\ tmpFile' = tmpFile
    BY DEF WriteHeader, Writing, index
  <1> QED
    BY <1>2, <1>3, <1>4, <1>5, <1>6, HeaderAlone, OthersStay DEF StreamIInv

(* ... unless its flush raises.                                            *)
LEMMA HeaderFailsInv ==
  ASSUME StreamIInv, HeaderFails
  PROVE  StreamIInv'
  <1>1. StreamTypeOK /\ WriterInv /\ file = <<>> /\ buffer = <<>> /\ frameCount = 0
        /\ checkpoints = <<>> /\ torn \in BOOLEAN /\ failures \in Nat
    BY DEF StreamIInv, StreamTypeOK, WriterInv, HeaderFails
  <1>2. /\ frameCount' = 0 /\ checkpoints' = <<>> /\ files' = files /\ synced' = synced
        /\ indexFile' = indexFile /\ tmpFile' = tmpFile /\ UNCHANGED rvars /\ Writing
    BY <1>1 DEF HeaderFails, Writing, index
  <1>3. \/ writer' = "failed" /\ file' = <<>> /\ buffer' = <<Header>>
        \/ writer' = "done" /\ file' = <<>> /\ buffer' = <<>>
        \/ writer' = "done" /\ file' = <<Header>> /\ buffer' = <<>>
    BY <1>1 DEF HeaderFails
  <1>4. torn' \in BOOLEAN /\ failures' \in Nat
    BY <1>1 DEF HeaderFails, Fail
  <1>5. /\ file' \in Seq(RecordType) /\ buffer' \in Seq(RecordType)
        /\ Shaped(file' \o buffer') /\ writer' \in {"failed", "done"}
    <2>1. <<>> \o <<>> = <<>> /\ Shaped(<<>>)
      BY ConcatEmptySeq DEF Shaped
    <2> QED
      BY <1>3, <2>1, EmptyTypes, HeaderAlone
  <1>6. StreamTypeOK'
    BY <1>1, <1>2, <1>4, <1>5 DEF StreamTypeOK, rvars
  <1>7. WriterInv'
    BY <1>2, <1>3, <1>5 DEF WriterInv
  <1>8. Extends(file', file)
    BY <1>1 DEF Extends
  <1> QED
    BY <1>2, <1>5, <1>6, <1>7, <1>8, OthersStay DEF StreamIInv

(* The buffer is written with one more record behind it.                   *)
LEMMA FlushTypes ==
  ASSUME StreamTypeOK, NEW x \in RecordType
  PROVE  /\ Append(buffer, x) \in Seq(RecordType)
         /\ file \o Append(buffer, x) \in Seq(RecordType)
         /\ file \o Append(buffer, x) = Append(Whole, x)
         /\ (file \o Append(buffer, x)) \o <<>> = Append(Whole, x)
         /\ Extends(file \o Append(buffer, x), file)
  <1>1. file \in Seq(RecordType) /\ buffer \in Seq(RecordType)
    BY DEF StreamTypeOK
  <1>2. Append(buffer, x) \in Seq(RecordType)
    BY <1>1, AppendProperties
  <1>3. file \o Append(buffer, x) \in Seq(RecordType)
    BY <1>1, <1>2, ConcatProperties
  <1>4. file \o Append(buffer, x) = Append(Whole, x)
    BY <1>1, AppendToBuffer DEF Whole
  <1>5. Extends(file \o Append(buffer, x), file)
    BY <1>1, <1>2, ConcatExtends
  <1>6. (file \o Append(buffer, x)) \o <<>> = file \o Append(buffer, x)
    BY <1>3, ConcatEmptySeq
  <1> QED
    BY <1>2, <1>3, <1>4, <1>5, <1>6

(* What is known between open() and close(), whether open() raised or not. *)
LEMMA WriterOpen ==
  ASSUME StreamTypeOK, WriterInv, writer \in {"open", "failed"}
  PROVE  /\ writer = "open" => file # <<>>
         /\ Whole # <<>> /\ ~Closed(Whole) /\ frameCount = Len(Whole) - 1
         /\ PointsFit(checkpoints, frameCount, Whole) /\ checkpoints \in Seq(Nat \X Nat)
         /\ frameCount \in Nat /\ frameCount < Len(Whole) /\ frameCount + 1 = Len(Whole)
         /\ Len(Whole) \in Nat
  <1>1. /\ writer = "open" => file # <<>>
        /\ ~Closed(Whole) /\ frameCount = Len(Whole) - 1
        /\ PointsFit(checkpoints, frameCount, Whole)
    <2>1. CASE writer = "open"
      BY <2>1 DEF WriterInv, Whole
    <2>2. CASE writer = "failed"
      BY <2>2, HeaderAlone DEF WriterInv, Whole
    <2> QED
      BY <2>1, <2>2
  <1>2. checkpoints \in Seq(Nat \X Nat) /\ frameCount \in Nat /\ Whole \in Seq(RecordType)
    BY FileIsShaped DEF StreamTypeOK
  <1>3. Len(Whole) \in Nat /\ frameCount + 1 = Len(Whole) /\ frameCount < Len(Whole)
    BY <1>1, <1>2
  <1>4. Whole # <<>>
    BY <1>2, <1>3
  <1> QED
    BY <1>1, <1>2, <1>3, <1>4

(* append() notes the checkpoint before the record is written.             *)
LEMMA NextPoint ==
  ASSUME StreamTypeOK, WriterInv, writer = "open", NEW x \in RecordType, IsFrame(x)
  PROVE  LET more == IF frameCount % Stride = 0 THEN Append(checkpoints, Point) ELSE checkpoints
         IN  /\ more \in Seq(Nat \X Nat)
             /\ PointsFit(more, frameCount, Whole)
             /\ PointsFit(more, frameCount + 1, Append(Whole, x))
  <1> DEFINE at == Bytes(Whole)
             W == Append(Whole, x)
  <1>1. Whole \in Seq(RecordType) /\ Shaped(Whole)
    BY FileIsShaped
  <1>2. at = Ends(Whole)[frameCount + 1] /\ at \in Nat
    BY <1>1, WriterOpen, EndsType DEF Bytes
  <1>3. Point = <<frameCount, at>>
    BY DEF Point, Whole
  <1>4. W \in Seq(RecordType) /\ Extends(W, Whole)
    BY <1>1, WriterOpen, ShapedAppend
  <1>5. at = Ends(W)[frameCount + 1]
    <2>1. frameCount + 1 \in 0 .. Len(Whole)
      BY WriterOpen
    <2> QED
      BY <1>1, <1>2, <1>4, <2>1, EndsExtend
  <1> HIDE DEF at, W
  <1>6. PointsFit(checkpoints, frameCount, W)
    BY <1>1, <1>4, WriterOpen, PointsFitExtends
  <1> DEFINE more == IF Due(frameCount) THEN Append(checkpoints, <<frameCount, at>>)
                     ELSE checkpoints
  <1>7. more \in Seq(Nat \X Nat) /\ PointsFit(more, frameCount, Whole)
    BY <1>2, WriterOpen, PointsFitAppend
  <1>8. PointsFit(more, frameCount + 1, W)
    BY <1>2, <1>5, <1>6, WriterOpen, PointsFitAppend
  <1> QED
    BY <1>3, <1>7, <1>8 DEF Due, W

(* append(), also when its write or its flush raises.                      *)
LEMMA AppendFrameInv ==
  ASSUME StreamIInv, NEW k \in 1 .. MaxFrames, AppendFrame(k)
  PROVE  StreamIInv'
  <1> DEFINE x == Frame(k)
             more == Append(buffer, x)
             W == Append(Whole, x)
             points == IF frameCount % Stride = 0 THEN Append(checkpoints, Point) ELSE checkpoints
  <1>1. /\ StreamTypeOK /\ WriterInv /\ writer = "open" /\ x \in RecordType /\ IsFrame(x)
        /\ x # Footer
    BY StreamAssumption DEF StreamIInv, AppendFrame, Frame, RecordType, IsFrame, Footer
  <1>2. file \in Seq(RecordType) /\ buffer \in Seq(RecordType) /\ Whole \in Seq(RecordType)
        /\ Shaped(Whole)
    BY <1>1, FileIsShaped
  <1>3. /\ more \in Seq(RecordType) /\ file \o more \in Seq(RecordType) /\ file \o more = W
        /\ (file \o more) \o <<>> = W /\ Extends(file \o more, file)
    BY <1>1, FlushTypes
  <1>4. W \in Seq(RecordType) /\ Shaped(W) /\ Len(W) = Len(Whole) + 1 /\ W[Len(Whole) + 1] = x
    BY <1>1, <1>2, WriterOpen, ShapedAppend
  <1>5. /\ points \in Seq(Nat \X Nat) /\ PointsFit(points, frameCount, Whole)
        /\ PointsFit(points, frameCount + 1, W)
    BY <1>1, NextPoint
  <1>6. /\ writer' = "open" /\ files' = files /\ UNCHANGED rvars /\ indexFile' = indexFile
        /\ tmpFile' = tmpFile /\ synced' = synced /\ checkpoints' = points
    BY <1>1 DEF AppendFrame, index
  <1>7. /\ file # <<>> /\ ~Closed(Whole) /\ frameCount = Len(Whole) - 1 /\ frameCount \in Nat
        /\ Len(Whole) \in Nat
    BY <1>1, WriterOpen
  <1>8. ~Closed(W)
    BY <1>1, <1>4, <1>7 DEF Closed
  <1>9. failures' \in Nat
    BY <1>1 DEF AppendFrame, Fail, StreamTypeOK
  <1> HIDE DEF x, more, W, points
  <1>10. \/ /\ frameCount' = frameCount + 1 /\ file' = file \o more /\ buffer' = <<>> /\ torn' = FALSE
         \/ /\ frameCount' = frameCount + 1 /\ file' = file /\ buffer' = more /\ torn' \in {torn, TRUE}
         \/ /\ frameCount' = frameCount /\ file' = file /\ buffer' = buffer /\ torn' = TRUE
    BY DEF AppendFrame, x, more
  <1>11. file' \in Seq(RecordType) /\ buffer' \in Seq(RecordType) /\ Extends(file', file)
         /\ file' # <<>> /\ torn' \in BOOLEAN /\ frameCount' \in Nat
    <2>1. Extends(file, file) /\ \A fs : Extends(fs, file) => fs # <<>>
      <3>1. Len(file) \in Nat /\ Len(file) > 0
        BY <1>2, <1>7, EmptySeq
      <3> QED
        BY <3>1, <1>2, ConcatExtends DEF Extends
    <2>2. <<>> \in Seq(RecordType) /\ torn \in BOOLEAN
      BY <1>1, EmptyTypes DEF StreamTypeOK
    <2>6. frameCount + 1 \in Nat /\ file \o more # <<>> /\ TRUE \in BOOLEAN /\ FALSE \in BOOLEAN
      BY <1>3, <1>7, <2>1
    <2>3. CASE frameCount' = frameCount + 1 /\ file' = file \o more /\ buffer' = <<>> /\ torn' = FALSE
      BY <1>3, <2>2, <2>3, <2>6, Zenon
    <2>4. CASE frameCount' = frameCount + 1 /\ file' = file /\ buffer' = more /\ torn' \in {torn, TRUE}
      BY <1>2, <1>3, <1>7, <2>1, <2>2, <2>4, <2>6, Zenon
    <2>5. CASE frameCount' = frameCount /\ file' = file /\ buffer' = buffer /\ torn' = TRUE
      BY <1>2, <1>7, <2>1, <2>5
    <2> QED
      BY <1>10, <2>3, <2>4, <2>5
  <1>12. \/ file' \o buffer' = W /\ frameCount' = frameCount + 1
         \/ file' \o buffer' = Whole /\ frameCount' = frameCount
    BY <1>3, <1>10 DEF Whole
  <1>13. StreamTypeOK'
    BY <1>1, <1>5, <1>6, <1>9, <1>11 DEF StreamTypeOK, rvars
  <1>14. WriterInv'
    <2>1. CASE file' \o buffer' = W /\ frameCount' = frameCount + 1
      <3>1. frameCount' = Len(W) - 1
        BY <1>4, <1>7, <2>1
      <3> QED
        BY <1>4, <1>5, <1>6, <1>8, <1>11, <2>1, <3>1 DEF WriterInv
    <2>2. CASE file' \o buffer' = Whole /\ frameCount' = frameCount
      BY <1>2, <1>5, <1>6, <1>7, <1>11, <2>2 DEF WriterInv
    <2> QED
      BY <1>12, <2>1, <2>2
  <1>15. Writing
    BY <1>1 DEF Writing
  <1> QED
    BY <1>6, <1>11, <1>13, <1>14, <1>15, OthersStay DEF StreamIInv

(* The file object writes its buffer.                                      *)
LEMMA SpillInv ==
  ASSUME StreamIInv, Spill
  PROVE  StreamIInv'
  <1>1. StreamTypeOK /\ WriterInv /\ writer = "open" /\ Writing
    BY DEF StreamIInv, Spill, Writing
  <1>2. file' = Whole /\ buffer' = <<>> /\ torn' = FALSE /\ Whole \in Seq(RecordType)
        /\ Shaped(Whole) /\ Whole \o <<>> = Whole /\ Extends(Whole, file)
    BY <1>1, FileIsShaped, ConcatEmptySeq DEF Spill, Whole
  <1>3. /\ writer' = writer /\ frameCount' = frameCount /\ checkpoints' = checkpoints
        /\ files' = files /\ synced' = synced /\ indexFile' = indexFile /\ tmpFile' = tmpFile
        /\ UNCHANGED rvars /\ failures' = failures
    BY DEF Spill, wvars, index
  <1>4. StreamTypeOK'
    <2>1. FALSE \in BOOLEAN
      OBVIOUS
    <2> QED
      BY <1>1, <1>2, <1>3, <2>1, EmptyTypes, Zenon DEF StreamTypeOK, rvars
  <1>5. WriterInv'
    <2>1. /\ file # <<>> /\ ~Closed(Whole) /\ frameCount = Len(Whole) - 1 /\ Whole # <<>>
          /\ PointsFit(checkpoints, frameCount, Whole)
      BY <1>1, WriterOpen
    <2> QED
      BY <1>1, <1>2, <1>3, <2>1 DEF WriterInv
  <1> QED
    BY <1>1, <1>2, <1>3, <1>4, <1>5, OthersStay DEF StreamIInv

(* The file with the footer.                                               *)
LEMMA Footed ==
  ASSUME StreamTypeOK, WriterInv, writer \in {"open", "failed"}
  PROVE  LET W == file \o Append(buffer, Footer)
         IN  /\ W \in Seq(RecordType) /\ Shaped(W) /\ W \o <<>> = W /\ Extends(W, file)
             /\ Closed(W) /\ frameCount = Len(W) - 2 /\ PointsFit(checkpoints, frameCount, W)
             /\ Len(W) \in Nat
  <1> DEFINE W == Append(Whole, Footer)
  <1>1. Footer \in RecordType
    BY DEF Footer, RecordType
  <1>2. /\ file \o Append(buffer, Footer) = W /\ W \o <<>> = W /\ W \in Seq(RecordType)
        /\ Extends(W, file)
    BY <1>1, FlushTypes
  <1>3. Whole \in Seq(RecordType) /\ Shaped(Whole)
    BY FileIsShaped
  <1>4. /\ Shaped(W) /\ Extends(W, Whole) /\ Len(W) = Len(Whole) + 1
        /\ W[Len(Whole) + 1] = Footer
    BY <1>1, <1>3, WriterOpen, ShapedAppend
  <1>5. Closed(W) /\ frameCount = Len(W) - 2 /\ Len(W) \in Nat
    <2>1. Len(Whole) \in Nat /\ Len(Whole) > 0 /\ frameCount = Len(Whole) - 1
      BY <1>3, WriterOpen, EmptySeq
    <2> QED
      BY <1>4, <2>1 DEF Closed
  <1>6. PointsFit(checkpoints, frameCount, W)
    BY <1>2, <1>3, <1>4, WriterOpen, PointsFitExtends
  <1> QED
    BY <1>2, <1>4, <1>5, <1>6

(* close() up to the end of the session file.                              *)
LEMMA CloseFileInv ==
  ASSUME StreamIInv, CloseFile
  PROVE  StreamIInv'
  <1> DEFINE W == file \o Append(buffer, Footer)
  <1>1. StreamTypeOK /\ WriterInv /\ writer \in {"open", "failed"} /\ Writing
    BY DEF StreamIInv, CloseFile, Writing
  <1>2. /\ W \in Seq(RecordType) /\ Shaped(W) /\ W \o <<>> = W /\ Extends(W, file)
        /\ Closed(W) /\ frameCount = Len(W) - 2 /\ PointsFit(checkpoints, frameCount, W)
        /\ Len(W) \in Nat
    BY <1>1, Footed
  <1>3. /\ file' = W /\ buffer' = <<>> /\ torn' = FALSE /\ synced' = Len(W) /\ writer' = "tmp"
        /\ frameCount' = frameCount /\ checkpoints' = checkpoints
        /\ files' = files /\ indexFile' = indexFile /\ tmpFile' = tmpFile
        /\ UNCHANGED rvars /\ failures' = failures
    BY DEF CloseFile, index
  <1> HIDE DEF W
  <1>4. StreamTypeOK'
    <2>1. FALSE \in BOOLEAN
      OBVIOUS
    <2> QED
      BY <1>1, <1>2, <1>3, <2>1, EmptyTypes, Zenon DEF StreamTypeOK, rvars
  <1>5. WriterInv'
    BY <1>2, <1>3 DEF WriterInv
  <1> QED
    BY <1>1, <1>2, <1>3, <1>4, <1>5, OthersStay DEF StreamIInv

(* close() when it raises.                                                 *)
LEMMA CloseFailsInv ==
  ASSUME StreamIInv, CloseFails
  PROVE  StreamIInv'
  <1> DEFINE W == file \o Append(buffer, Footer)
  <1>1. /\ StreamTypeOK /\ WriterInv /\ writer \in {"open", "failed"} /\ Writing
        /\ file \in Seq(RecordType) /\ Shaped(file) /\ file \o <<>> = file /\ Extends(file, file)
    <2>1. StreamTypeOK /\ WriterInv /\ writer \in {"open", "failed"} /\ Writing
      BY DEF StreamIInv, CloseFails, Writing
    <2>2. file \in Seq(RecordType) /\ Shaped(file)
      BY <2>1, FileIsShaped
    <2> QED
      BY <2>1, <2>2, ConcatEmptySeq, ConcatExtends
  <1>2. W \in Seq(RecordType) /\ Shaped(W) /\ W \o <<>> = W /\ Extends(W, file)
    BY <1>1, Footed
  <1>3. /\ writer' = "done" /\ buffer' = <<>> /\ synced' = synced
        /\ frameCount' = frameCount /\ checkpoints' = checkpoints
        /\ files' = files /\ indexFile' = indexFile /\ tmpFile' = tmpFile
        /\ UNCHANGED rvars
    BY DEF CloseFails, index
  <1>4. torn' \in BOOLEAN /\ failures' \in Nat
    <2>1. torn' \in {torn, TRUE} \/ torn' = FALSE
      BY DEF CloseFails
    <2>2. torn \in BOOLEAN /\ failures \in Nat
      BY <1>1 DEF StreamTypeOK
    <2>3. torn' \in BOOLEAN
      BY <2>1, <2>2, Zenon
    <2>4. failures' \in Nat
      BY <2>2 DEF CloseFails, Fail
    <2> QED
      BY <2>3, <2>4
  <1>5. file' = file \/ file' = W
    BY DEF CloseFails
  <1> HIDE DEF W
  <1>6. file' \in Seq(RecordType) /\ Shaped(file' \o buffer') /\ Extends(file', file)
    BY <1>1, <1>2, <1>3, <1>5
  <1>7. StreamTypeOK'
    BY <1>1, <1>3, <1>4, <1>6, EmptyTypes, Zenon DEF StreamTypeOK, rvars
  <1>8. WriterInv'
    BY <1>3, <1>6 DEF WriterInv
  <1> QED
    BY <1>1, <1>3, <1>6, <1>7, <1>8, OthersStay DEF StreamIInv

(* The index that the writer has kept fits the closed file.                *)
LEMMA WriterIndexGood ==
  ASSUME StreamTypeOK, WriterInv, writer = "tmp"
  PROVE  WriterIndex \in IndexType /\ Good(WriterIndex, file, 1) /\ WriterIndex.of = files
  <1>1. file \in Seq(RecordType) /\ Whole = file /\ Closed(file) /\ ~torn
        /\ frameCount = Len(file) - 2 /\ PointsFit(checkpoints, frameCount, file)
    BY FileIsShaped DEF WriterInv, Whole
  <1>2. Len(file) \in Nat /\ Len(file) > 1 /\ file[Len(file)] = Footer
    BY <1>1 DEF Closed
  <1>3. FileSize = Ends(file)[Len(file)] /\ FileSize \in Nat
    <2>1. Ends(file)[Len(file)] \in Nat
      BY <1>1, <1>2, EndsType
    <2> QED
      BY <1>1, <2>1 DEF FileSize, Bytes
  <1>4. WriterIndex \in IndexType
    BY <1>3 DEF WriterIndex, IndexType, StreamTypeOK
  <1>5. /\ WriterIndex.count = frameCount /\ WriterIndex.points = checkpoints
        /\ WriterIndex.size = FileSize /\ WriterIndex.of = files
    BY DEF WriterIndex
  <1>6. Len(file) \in 1 .. Len(file) /\ Count(file, Len(file)) = frameCount
    BY <1>1, <1>2 DEF Count
  <1>7. Fits(WriterIndex, file, Len(file))
    BY <1>1, <1>5, <1>6 DEF Fits
  <1>8. SizeOf(WriterIndex.size, file, Len(file))
    BY <1>3, <1>5, <1>6 DEF SizeOf
  <1> QED
    BY <1>4, <1>5, <1>6, <1>7, <1>8 DEF Good

(* The temporary file of the writer.                                       *)
LEMMA WriteTmpInv ==
  ASSUME StreamIInv, WriteTmp
  PROVE  StreamIInv'
  <1>1. StreamTypeOK /\ WriterInv /\ writer = "tmp" /\ Writing /\ file \in Seq(RecordType)
        /\ files \in Nat
    BY DEF StreamIInv, WriteTmp, Writing, StreamTypeOK
  <1>2. WriterIndex \in IndexType /\ Good(WriterIndex, file, 1) /\ WriterIndex.of = files
    BY <1>1, WriterIndexGood
  <1>3. /\ writer' = "replace" /\ tmpFile' = WriterIndex /\ indexFile' = indexFile
        /\ frameCount' = frameCount /\ checkpoints' = checkpoints /\ files' = files
        /\ file' = file /\ torn' = torn /\ buffer' = buffer /\ synced' = synced
        /\ UNCHANGED rvars /\ failures' = failures
    BY DEF WriteTmp, disk
  <1>4. StreamTypeOK'
    BY <1>1, <1>2, <1>3, Zenon DEF StreamTypeOK, rvars
  <1>5. WriterInv'
    BY <1>1, <1>3 DEF WriterInv
  <1>6. KeptInv(tmpFile)'
    BY <1>1, <1>2, <1>3, PrimedIsAt DEF KeptAt
  <1>7. Extends(file', file)
    BY <1>1, <1>3, ConcatExtends
  <1> QED
    BY <1>1, <1>3, <1>4, <1>5, <1>6, <1>7, OthersStay DEF StreamIInv

(* No index is no claim.                                                   *)
LEMMA NoIndexKept ==
  ASSUME NEW fs \in Nat, NEW rs, NEW w
  PROVE  KeptAt(NoIndex, fs, rs, w)
  BY DEF KeptAt, NoIndex

(* The replacement of the writer, of whosever temporary file it is.        *)
LEMMA ReplaceInv ==
  ASSUME StreamIInv, Replace
  PROVE  StreamIInv'
  <1>1. StreamTypeOK /\ WriterInv /\ writer = "replace" /\ Writing /\ file \in Seq(RecordType)
        /\ files \in Nat
    BY DEF StreamIInv, Replace, Writing, StreamTypeOK
  <1>2. /\ writer' = "done" /\ frameCount' = frameCount /\ checkpoints' = checkpoints
        /\ files' = files /\ file' = file /\ torn' = torn /\ buffer' = buffer
        /\ synced' = synced /\ UNCHANGED rvars /\ failures' = failures
    BY DEF Replace, disk
  <1>3. \/ indexFile' = indexFile /\ tmpFile' = tmpFile
        \/ indexFile' = tmpFile /\ tmpFile' = NoIndex
    BY DEF Replace, index
  <1>4. StreamTypeOK'
    BY <1>1, <1>2, <1>3, EmptyTypes, Zenon DEF StreamTypeOK, rvars
  <1>5. WriterInv'
    BY <1>1, <1>2 DEF WriterInv
  <1>6. Extends(file', file)
    BY <1>1, <1>2, ConcatExtends
  <1>7. KeptInv(indexFile)' /\ KeptInv(tmpFile)'
    <2>1. KeptAt(indexFile, files', file', writer') /\ KeptAt(tmpFile, files', file', writer')
      BY <1>1, <1>2, <1>6, IndexesStay
    <2>2. KeptAt(NoIndex, files', file', writer')
      BY <1>1, <1>2, NoIndexKept
    <2> QED
      BY <1>3, <2>1, <2>2, PrimedIsAt
  <1> QED
    BY <1>1, <1>2, <1>4, <1>5, <1>6, <1>7, OthersStay DEF StreamIInv

(* After a restart no reader has anything.                                 *)
LEMMA NoReaders ==
  ASSUME NoReader
  PROVE  /\ reader' \in [Readers -> {"idle", "stat", "index", "scan", "size", "tmp",
                                     "replace", "open", "empty", "torn", "lost"}]
         /\ rindex' \in [Readers -> IndexType] /\ rsize' \in [Readers -> Nat]
         /\ \A r \in Readers : ReaderInv(r)'
  <1>1. \A r \in Readers : reader'[r] = "idle"
    BY DEF NoReader
  <1>2. \A r \in Readers : ReaderInv(r)'
    BY <1>1 DEF ReaderInv
  <1> QED
    BY <1>2, EmptyTypes DEF NoReader

(* The process is killed.                                                  *)
LEMMA KillInv ==
  ASSUME StreamIInv, Kill
  PROVE  StreamIInv'
  <1>1. /\ StreamTypeOK /\ WriterInv /\ failures \in Nat
        /\ file \in Seq(RecordType) /\ Shaped(file) /\ file \o <<>> = file /\ Extends(file, file)
    <2>1. StreamTypeOK /\ WriterInv /\ failures \in Nat
      BY DEF StreamIInv, StreamTypeOK
    <2>2. file \in Seq(RecordType) /\ Shaped(file)
      BY <2>1, FileIsShaped
    <2> QED
      BY <2>1, <2>2, ConcatEmptySeq, ConcatExtends
  <1>2. /\ buffer' = <<>> /\ file' = file /\ torn' = torn /\ synced' = synced
        /\ frameCount' = frameCount /\ checkpoints' = checkpoints
        /\ files' = files /\ indexFile' = indexFile /\ tmpFile' = tmpFile /\ NoReader
    BY DEF Kill, index
  <1>3. writer' \in {"none", "done"} /\ (writer' = "none" => writer = "none")
    BY <1>1 DEF Kill, Writing
  <1>4. failures' \in Nat
    BY <1>1 DEF Kill, Fail
  <1>5. StreamTypeOK'
    <2>1. writer' \in {"none", "header", "failed", "open", "tmp", "replace", "done"}
      BY <1>3
    <2> QED
      BY <1>1, <1>2, <1>4, <2>1, EmptyTypes, NoReaders, Zenon DEF StreamTypeOK
  <1>6. WriterInv'
    BY <1>1, <1>2, <1>3 DEF WriterInv
  <1>7. KeptInv(indexFile)' /\ KeptInv(tmpFile)'
    BY <1>1, <1>2, <1>3, IndexesStay, PrimedIsAt
  <1> QED
    BY <1>2, <1>5, <1>6, <1>7, NoReaders DEF StreamIInv

(* What a power loss leaves of an index that was good: either the records it was *)
(* made of are all there, or it claims a size that the file has no more.   *)
LEMMA GoodIsCut ==
  ASSUME NEW rs \in Seq(RecordType), Shaped(rs), NEW n \in 0 .. Len(rs),
         NEW idx \in IndexType, Good(idx, rs, 1)
  PROVE  LET ts == SubSeq(rs, 1, n)
         IN  Good(idx, ts, 1) \/ idx.size > Bytes(ts) + 1
  <1> DEFINE ts == SubSeq(rs, 1, n)
  <1>1. PICK m, k \in 1 .. Len(rs) :
           /\ m <= k /\ Fits(idx, rs, m) /\ SizeOf(idx.size, rs, k)
           /\ ~idx.grew => idx.count = Count(rs, k)
    BY DEF Good
  <1>2. ts \in Seq(RecordType) /\ Len(ts) = n /\ Shaped(ts) /\ Extends(rs, ts)
        /\ n \in Nat /\ Len(rs) \in Nat
    BY ShapedPrefix
  <1> HIDE DEF ts
  <1>3. \A i \in 0 .. n : Ends(rs)[i] = Ends(ts)[i]
    BY <1>2, EndsExtend
  <1>4. \A i \in 1 .. n : Count(rs, i) = Count(ts, i)
    BY <1>2, CountExtends
  <1>5. CASE k <= n
    <2>1. m \in 1 .. Len(ts) /\ k \in 1 .. Len(ts) /\ m \in 1 .. n /\ k \in 1 .. n
      BY <1>2, <1>5, <1>1
    <2>2. idx.count = Count(rs, m) /\ PointsFit(idx.points, idx.count, rs)
      BY <1>1 DEF Fits
    <2>3. idx.points \in Seq(Nat \X Nat) /\ idx.count \in Nat
      BY DEF IndexType
    <2>4. idx.count < n
      <3>1. Count(rs, m) \in 0 .. m - 1
        BY CountBound
      <3> QED
        BY <2>1, <2>2, <3>1
    <2>5. PointsFit(idx.points, idx.count, ts)
      BY <1>2, <1>3, <2>2, <2>3, <2>4, PointsFitAgree
    <2>6. Fits(idx, ts, m)
      BY <1>4, <2>1, <2>2, <2>5 DEF Fits
    <2>7. SizeOf(idx.size, ts, k)
      <3>1. Ends(rs)[k] = Ends(ts)[k]
        BY <1>3, <2>1
      <3> QED
        BY <1>1, <2>1, <3>1 DEF SizeOf
    <2>8. Good(idx, ts, 1)
      <3>1. ~idx.grew => idx.count = Count(ts, k)
        BY <1>1, <1>4, <2>1
      <3> QED
        BY <1>1, <2>1, <2>6, <2>7, <3>1 DEF Good
    <2> QED
      BY <2>8 DEF ts
  <1>6. CASE n < k
    <2>1. n \in 0 .. Len(rs) /\ k \in 0 .. Len(rs) /\ Len(ts) \in 0 .. Len(rs)
      BY <1>2
    <2>2. Ends(rs)[n] + 2 <= Ends(rs)[k]
      BY <1>6, <2>1, EndsGap
    <2>3. Ends(rs)[n] \in Nat /\ Ends(rs)[k] \in Nat
      BY <2>1, EndsType
    <2>4. Bytes(ts) = Ends(rs)[n]
      BY <1>2, <1>3 DEF Bytes
    <2>5. idx.size = Ends(rs)[k] \/ idx.size = Ends(rs)[k] + 1
      BY <1>1 DEF SizeOf
    <2>6. idx.size > Bytes(ts) + 1
      BY <2>2, <2>3, <2>4, <2>5
    <2> QED
      BY <2>6 DEF ts
  <1> QED
    BY <1>2, <1>5, <1>6

(* The machine loses power.                                                *)
LEMMA PowerLossInv ==
  ASSUME StreamIInv, PowerLoss
  PROVE  StreamIInv'
  <1>1. /\ StreamTypeOK /\ WriterInv /\ failures \in Nat /\ files \in Nat /\ Writing
        /\ synced \in Nat /\ torn \in BOOLEAN /\ indexFile \in IndexType
    BY DEF StreamIInv, StreamTypeOK, PowerLoss
  <1>2. file \in Seq(RecordType) /\ Shaped(file)
    BY <1>1, FileIsShaped
  <1>3. /\ buffer' = <<>> /\ synced' = synced /\ writer' = "done"
        /\ frameCount' = frameCount /\ checkpoints' = checkpoints
        /\ files' = files /\ indexFile' = indexFile /\ tmpFile' = NoIndex /\ NoReader
    BY DEF PowerLoss
  <1>4. PICK n \in synced .. Len(file) : file' = SubSeq(file, 1, n) /\ torn' \in {torn, n < Len(file)}
    BY DEF PowerLoss
  <1>5. n \in 0 .. Len(file)
    BY <1>1
  <1>6. file' \in Seq(RecordType) /\ Shaped(file') /\ file' \o <<>> = file'
    BY <1>2, <1>4, <1>5, ShapedPrefix, ConcatEmptySeq
  <1>7. failures' \in Nat
    BY <1>1 DEF PowerLoss, Fail
  <1>8. torn' \in BOOLEAN
    <2>1. (n < Len(file)) \in BOOLEAN
      OBVIOUS
    <2> QED
      BY <1>1, <1>4, <2>1, Zenon
  <1>9. StreamTypeOK'
    BY <1>1, <1>3, <1>6, <1>7, <1>8, EmptyTypes, NoReaders, Zenon DEF StreamTypeOK
  <1>10. WriterInv'
    BY <1>3, <1>6 DEF WriterInv
  <1>11. KeptInv(indexFile)'
    <2>1. KeptAt(indexFile, files, file, writer)
      BY KeptIsAt DEF StreamIInv
    <2>2. Good(indexFile, file, 1) => Good(indexFile, file', 1) \/ indexFile.size > Bytes(file') + 1
      BY <1>1, <1>2, <1>4, <1>5, GoodIsCut
    <2>3. KeptAt(indexFile, files, file', "done")
      BY <1>1, <2>1, <2>2 DEF KeptAt, Writing
    <2> QED
      BY <1>3, <2>3, PrimedIsAt
  <1>12. KeptInv(tmpFile)'
    BY <1>1, <1>3, NoIndexKept, PrimedIsAt
  <1> QED
    BY <1>3, <1>9, <1>10, <1>11, <1>12, NoReaders DEF StreamIInv

(* The file is moved away from its index.                                  *)
LEMMA MoveFileInv ==
  ASSUME StreamIInv, MoveFile
  PROVE  StreamIInv'
  <1>1. StreamTypeOK /\ WriterInv /\ file \in Seq(RecordType) /\ files \in Nat /\ writer = "done"
    BY DEF StreamIInv, StreamTypeOK, MoveFile
  <1>2. /\ writer' = writer /\ frameCount' = frameCount /\ checkpoints' = checkpoints
        /\ files' = files /\ file' = file /\ torn' = torn /\ buffer' = buffer
        /\ synced' = synced /\ UNCHANGED rvars /\ failures' = failures
        /\ indexFile' = NoIndex /\ tmpFile' = NoIndex
    BY DEF MoveFile, disk, wvars
  <1>3. StreamTypeOK'
    BY <1>1, <1>2, EmptyTypes, Zenon DEF StreamTypeOK, rvars
  <1>4. WriterInv'
    BY <1>1, <1>2 DEF WriterInv
  <1>5. KeptInv(indexFile)' /\ KeptInv(tmpFile)'
    BY <1>1, <1>2, NoIndexKept, PrimedIsAt
  <1>6. Extends(file', file)
    BY <1>1, <1>2, ConcatExtends
  <1> QED
    BY <1>1, <1>2, <1>3, <1>4, <1>5, <1>6, OthersStay DEF StreamIInv

(* Where a reader can be.                                                  *)
States == {"idle", "stat", "index", "scan", "size", "tmp", "replace", "open", "empty",
           "torn", "lost"}

(* A step of one reader has only its own part and the two index files to show. *)
LEMMA ReaderFrame ==
  ASSUME StreamIInv, NEW r \in Readers, UNCHANGED <<wvars, disk, failures>>,
         NEW st \in States, NEW idx \in IndexType, NEW z \in Nat,
         reader' = [reader EXCEPT ![r] = st], rindex' = [rindex EXCEPT ![r] = idx],
         rsize' = [rsize EXCEPT ![r] = z], ReaderAt(st, idx, z, files, file),
         indexFile' \in IndexType, KeptAt(indexFile', files, file, writer),
         tmpFile' \in IndexType, KeptAt(tmpFile', files, file, writer)
  PROVE  StreamIInv'
  <1>1. StreamTypeOK /\ WriterInv /\ file \in Seq(RecordType) /\ files \in Nat
    BY DEF StreamIInv, StreamTypeOK
  <1>2. /\ reader \in [Readers -> States] /\ rindex \in [Readers -> IndexType]
        /\ rsize \in [Readers -> Nat]
    BY <1>1 DEF StreamTypeOK, States
  <1>3. /\ writer' = writer /\ frameCount' = frameCount /\ checkpoints' = checkpoints
        /\ files' = files /\ file' = file /\ torn' = torn /\ buffer' = buffer
        /\ synced' = synced /\ failures' = failures
    BY DEF disk, wvars
  <1>4. /\ reader' \in [Readers -> States] /\ rindex' \in [Readers -> IndexType]
        /\ rsize' \in [Readers -> Nat]
    BY <1>2
  <1>5. StreamTypeOK'
    <2>1. reader' \in [Readers -> {"idle", "stat", "index", "scan", "size", "tmp",
                                   "replace", "open", "empty", "torn", "lost"}]
      BY <1>4 DEF States
    <2> QED
      BY <1>1, <1>3, <1>4, <2>1, Zenon DEF StreamTypeOK
  <1>6. WriterInv'
    BY <1>1, <1>3 DEF WriterInv
  <1>7. KeptInv(indexFile)' /\ KeptInv(tmpFile)'
    BY <1>3, PrimedIsAt
  <1>8. ASSUME NEW q \in Readers PROVE ReaderInv(q)'
    <2>1. CASE q = r
      <3>1. reader'[q] = st /\ rindex'[q] = idx /\ rsize'[q] = z
        BY <1>2, <2>1
      <3> QED
        BY <1>3, <3>1, PrimedIsAt
    <2>2. CASE q # r
      <3>1. reader'[q] = reader[q] /\ rindex'[q] = rindex[q] /\ rsize'[q] = rsize[q]
        BY <1>2, <2>2
      <3>2. Extends(file', file)
        BY <1>1, <1>3, ConcatExtends
      <3> QED
        BY <1>1, <1>3, <3>1, <3>2, ReadersStay
    <2> QED
      BY <2>1, <2>2
  <1> QED
    BY <1>5, <1>6, <1>7, <1>8 DEF StreamIInv

(* What a step of a reader starts from.                                    *)
LEMMA ReaderFacts ==
  ASSUME StreamIInv, NEW r \in Readers
  PROVE  /\ file \in Seq(RecordType) /\ Shaped(file) /\ files \in Nat
         /\ rindex[r] \in IndexType /\ rsize[r] \in Nat /\ reader[r] \in States
         /\ rindex = [rindex EXCEPT ![r] = rindex[r]] /\ rsize = [rsize EXCEPT ![r] = rsize[r]]
         /\ ReaderAt(reader[r], rindex[r], rsize[r], files, file)
         /\ indexFile \in IndexType /\ KeptAt(indexFile, files, file, writer)
         /\ tmpFile \in IndexType /\ KeptAt(tmpFile, files, file, writer)
         /\ NoIndex \in IndexType /\ KeptAt(NoIndex, files, file, writer)
         /\ torn \in BOOLEAN
  <1>1. file \in Seq(RecordType) /\ Shaped(file)
    BY FileIsShaped DEF StreamIInv
  <1>2. /\ files \in Nat /\ rindex \in [Readers -> IndexType] /\ rsize \in [Readers -> Nat]
        /\ reader \in [Readers -> States] /\ indexFile \in IndexType /\ tmpFile \in IndexType
        /\ torn \in BOOLEAN
    BY DEF StreamIInv, StreamTypeOK, States
  <1>3. /\ rindex[r] \in IndexType /\ rsize[r] \in Nat /\ reader[r] \in States
        /\ rindex = [rindex EXCEPT ![r] = rindex[r]] /\ rsize = [rsize EXCEPT ![r] = rsize[r]]
    BY <1>2
  <1>4. ReaderAt(reader[r], rindex[r], rsize[r], files, file)
    BY ReaderIsAt DEF StreamIInv
  <1>5. KeptAt(indexFile, files, file, writer) /\ KeptAt(tmpFile, files, file, writer)
    BY KeptIsAt DEF StreamIInv
  <1>6. NoIndex \in IndexType /\ KeptAt(NoIndex, files, file, writer)
    BY <1>2, EmptyTypes, NoIndexKept
  <1> QED
    BY <1>1, <1>2, <1>3, <1>4, <1>5, <1>6

(* The size of the file is that of all its records.                        *)
LEMMA SizeOfAll ==
  ASSUME file \in Seq(RecordType), file # <<>>, torn \in BOOLEAN
  PROVE  /\ Len(file) \in 1 .. Len(file) /\ FileSize \in Nat
         /\ SizeOf(FileSize, file, Len(file))
  <1>1. Len(file) \in 1 .. Len(file) /\ Len(file) \in 0 .. Len(file)
    BY EmptySeq
  <1>2. Ends(file)[Len(file)] \in Nat
    BY <1>1, EndsType
  <1> QED
    BY <1>1, <1>2 DEF SizeOf, FileSize, Bytes

(* read_session_header.                                                    *)
LEMMA ReadHeaderInv ==
  ASSUME StreamIInv, NEW r \in Readers, ReadHeader(r)
  PROVE  StreamIInv'
  <1> DEFINE st == IF file = <<>> THEN "empty" ELSE "stat"
  <1>1. ReaderAt(st, rindex[r], rsize[r], files, file) /\ st \in States
    BY DEF ReadHeader, ReaderAt, States
  <1>2. /\ UNCHANGED <<wvars, disk, failures>> /\ reader' = [reader EXCEPT ![r] = st]
        /\ rindex' = rindex /\ rsize' = rsize /\ indexFile' = indexFile /\ tmpFile' = tmpFile
    BY DEF ReadHeader, index
  <1> HIDE DEF st
  <1> QED
    BY <1>1, <1>2, ReaderFacts, ReaderFrame

(* The reader looks at the size.                                           *)
LEMMA StatInv ==
  ASSUME StreamIInv, NEW r \in Readers, Stat(r)
  PROVE  StreamIInv'
  <1>1. /\ UNCHANGED <<wvars, disk, failures>> /\ reader' = [reader EXCEPT ![r] = "index"]
        /\ rindex' = rindex /\ rsize' = [rsize EXCEPT ![r] = FileSize]
        /\ indexFile' = indexFile /\ tmpFile' = tmpFile /\ reader[r] = "stat"
    BY DEF Stat, index
  <1>2. files > 0 /\ file # <<>>
    BY <1>1, ReaderFacts DEF ReaderAt
  <1>3. Len(file) \in 1 .. Len(file) /\ FileSize \in Nat /\ SizeOf(FileSize, file, Len(file))
    BY <1>2, ReaderFacts, SizeOfAll
  <1>4. ReaderAt("index", rindex[r], FileSize, files, file) /\ "index" \in States
    BY <1>2, <1>3 DEF ReaderAt, States
  <1> QED
    BY <1>1, <1>3, <1>4, ReaderFacts, ReaderFrame

(* The sidecar that has the size which the reader saw was made of the records it *)
(* saw: records are too long for two sizes to be taken for each other.     *)
LEMMA SidecarFits ==
  ASSUME NEW rs \in Seq(RecordType), NEW idx \in IndexType, NEW fs \in Nat, fs > 0, NEW w,
         KeptAt(idx, fs, rs, w), idx.of = fs, NEW j \in 1 .. Len(rs), SizeOf(idx.size, rs, j)
  PROVE  /\ \E m \in 1 .. Len(rs) : Fits(idx, rs, m)
         /\ ~idx.grew => Count(rs, j) <= idx.count
  <1>1. /\ j \in 0 .. Len(rs) /\ Len(rs) \in 0 .. Len(rs) /\ Ends(rs)[j] \in Nat
        /\ Bytes(rs) \in Nat
    <2>1. j \in 0 .. Len(rs) /\ Len(rs) \in 0 .. Len(rs)
      OBVIOUS
    <2> QED
      BY <2>1, EndsType DEF Bytes
  <1>2. Good(idx, rs, 1)
    <2>1. j < Len(rs) => Ends(rs)[j] + 2 <= Bytes(rs)
      BY <1>1, EndsGap DEF Bytes
    <2>2. j = Len(rs) => Ends(rs)[j] = Bytes(rs)
      BY DEF Bytes
    <2>3. Ends(rs)[j] <= Bytes(rs)
      BY <1>1, <2>1, <2>2
    <2>4. idx.size <= Bytes(rs) + 1 /\ idx.size \in Nat
      BY <1>1, <2>3 DEF SizeOf
    <2>5. ~(idx.size > Bytes(rs) + 1)
      BY <1>1, <2>4
    <2> QED
      BY <2>5 DEF KeptAt
  <1>3. PICK m, n \in 1 .. Len(rs) :
           /\ m <= n /\ Fits(idx, rs, m) /\ SizeOf(idx.size, rs, n)
           /\ ~idx.grew => idx.count = Count(rs, n)
    BY <1>2 DEF Good
  <1>4. n = j
    BY <1>3, SizeIsOne
  <1>5. idx.count \in Nat
    BY DEF IndexType
  <1> QED
    BY <1>3, <1>4, <1>5

(* _load_or_build_index, before a scan.                                    *)
LEMMA ReadIndexInv ==
  ASSUME StreamIInv, NEW r \in Readers, ReadIndex(r)
  PROVE  StreamIInv'
  <1>1. /\ UNCHANGED <<wvars, disk, failures>> /\ rsize' = rsize
        /\ indexFile' = indexFile /\ tmpFile' = tmpFile /\ reader[r] = "index"
    BY DEF ReadIndex, index
  <1>2. files > 0 /\ file # <<>>
    BY <1>1, ReaderFacts DEF ReaderAt
  <1>3. PICK j \in 1 .. Len(file) : SizeOf(rsize[r], file, j)
    BY <1>1, ReaderFacts DEF ReaderAt
  <1>4. CASE indexFile # NoIndex /\ indexFile.size = rsize[r]
    <2>1. rindex' = [rindex EXCEPT ![r] = indexFile] /\ reader' = [reader EXCEPT ![r] = "open"]
      BY <1>4 DEF ReadIndex
    <2>2. indexFile.of = files =>
             /\ \E m \in 1 .. Len(file) : Fits(indexFile, file, m)
             /\ ~indexFile.grew => Count(file, j) <= indexFile.count
      BY <1>2, <1>3, <1>4, ReaderFacts, SidecarFits
    <2>3. ReaderAt("open", indexFile, rsize[r], files, file) /\ "open" \in States
      BY <1>2, <1>3, <2>2 DEF ReaderAt, States
    <2> QED
      BY <1>1, <2>1, <2>3, ReaderFacts, ReaderFrame
  <1>5. CASE ~(indexFile # NoIndex /\ indexFile.size = rsize[r])
    <2>1. rindex' = rindex /\ reader' = [reader EXCEPT ![r] = "scan"]
      BY <1>5 DEF ReadIndex
    <2>2. ReaderAt("scan", rindex[r], rsize[r], files, file) /\ "scan" \in States
      BY <1>2, <1>3 DEF ReaderAt, States
    <2> QED
      BY <1>1, <2>1, <2>2, ReaderFacts, ReaderFrame
  <1> QED
    BY <1>4, <1>5

(* _build_index.                                                           *)
LEMMA ScanInv ==
  ASSUME StreamIInv, NEW r \in Readers, Scan(r)
  PROVE  StreamIInv'
  <1>1. /\ UNCHANGED <<wvars, disk, failures>> /\ rsize' = rsize
        /\ indexFile' = indexFile /\ tmpFile' = tmpFile /\ reader[r] = "scan"
    BY DEF Scan, index
  <1>2. files > 0 /\ file # <<>>
    BY <1>1, ReaderFacts DEF ReaderAt
  <1>3. CASE file = <<>> \/ (torn /\ file[Len(file)] # Footer)
    <2>1. rindex' = rindex /\ reader' = [reader EXCEPT ![r] = "torn"]
      BY <1>3 DEF Scan
    <2>2. ReaderAt("torn", rindex[r], rsize[r], files, file) /\ "torn" \in States
      BY <1>2 DEF ReaderAt, States
    <2> QED
      BY <1>1, <2>1, <2>2, ReaderFacts, ReaderFrame
  <1>4. CASE ~(file = <<>> \/ (torn /\ file[Len(file)] # Footer))
    <2> DEFINE idx == BuildIndex(file)
    <2>1. rindex' = [rindex EXCEPT ![r] = idx] /\ reader' = [reader EXCEPT ![r] = "size"]
      BY <1>4 DEF Scan
    <2>2. idx \in IndexType /\ idx.of = files /\ Fits(idx, file, Len(file))
      BY <1>2, ReaderFacts, BuildIndexFits
    <2> HIDE DEF idx
    <2>3. PICK j \in 1 .. Len(file) : SizeOf(rsize[r], file, j)
      BY <1>1, ReaderFacts DEF ReaderAt
    <2>4. Len(file) \in j .. Len(file)
      BY <1>2, ReaderFacts
    <2>5. ReaderAt("size", idx, rsize[r], files, file) /\ "size" \in States
      BY <1>2, <2>2, <2>3, <2>4 DEF ReaderAt, States
    <2> QED
      BY <1>1, <2>1, <2>2, <2>5, ReaderFacts, ReaderFrame
  <1> QED
    BY <1>3, <1>4

(* The frames of a file are as many as are counted in it.                  *)
LEMMA FramesOfAll ==
  ASSUME NEW rs \in Seq(RecordType), Shaped(rs), rs # <<>>
  PROVE  Len(FramesOf(rs)) = Count(rs, Len(rs))
  <1>1. Len(rs) \in 1 .. Len(rs) /\ SubSeq(rs, 1, Len(rs)) = rs
    BY EmptySeq
  <1> QED
    BY <1>1, FramesOfPrefix

(* The size after the scan.                                                *)
LEMMA SizeOfIndexInv ==
  ASSUME StreamIInv, NEW r \in Readers, SizeOfIndex(r)
  PROVE  StreamIInv'
  <1> DEFINE grew == rindex[r].count # Len(FramesOf(file))
             idx == [rindex[r] EXCEPT !.size = FileSize, !.grew = grew]
  <1>1. /\ UNCHANGED <<wvars, disk, failures>> /\ rsize' = rsize
        /\ indexFile' = indexFile /\ tmpFile' = tmpFile /\ reader[r] = "size"
        /\ reader' = [reader EXCEPT ![r] = "tmp"]
    BY DEF SizeOfIndex, index
  <1>2. files > 0 /\ file # <<>>
    BY <1>1, ReaderFacts DEF ReaderAt
  <1>3. rindex' = [rindex EXCEPT ![r] = idx]
    <2>1. r \in DOMAIN rindex
      BY DEF StreamIInv, StreamTypeOK
    <2> QED
      BY <2>1 DEF SizeOfIndex
  <1>4. Len(file) \in 1 .. Len(file) /\ FileSize \in Nat /\ SizeOf(FileSize, file, Len(file))
    BY <1>2, ReaderFacts, SizeOfAll
  <1>5. /\ idx \in IndexType /\ idx.of = rindex[r].of /\ idx.count = rindex[r].count
        /\ idx.points = rindex[r].points /\ idx.size = FileSize /\ idx.grew = grew
    <2>1. grew \in BOOLEAN /\ rindex[r] \in IndexType
      BY ReaderFacts
    <2> HIDE DEF grew
    <2> QED
      BY <1>4, <2>1 DEF IndexType
  <1>6. Len(FramesOf(file)) = Count(file, Len(file))
    BY <1>2, ReaderFacts, FramesOfAll
  <1>7. ~grew => rindex[r].count = Count(file, Len(file))
    BY <1>6
  <1> HIDE DEF grew, idx
  <1>8. PICK j \in 1 .. Len(file) :
           /\ SizeOf(rsize[r], file, j) /\ rindex[r].of = files
           /\ \E m \in j .. Len(file) : Fits(rindex[r], file, m)
    BY <1>1, ReaderFacts DEF ReaderAt
  <1>9. PICK m \in j .. Len(file) : Fits(rindex[r], file, m)
    BY <1>8
  <1>10. Good(idx, file, j)
    <2>1. Fits(idx, file, m)
      BY <1>5, <1>9 DEF Fits
    <2>2. Len(file) \in j .. Len(file) /\ m <= Len(file)
      BY <1>4
    <2>3. SizeOf(idx.size, file, Len(file)) /\ (~idx.grew => idx.count = Count(file, Len(file)))
      BY <1>4, <1>5, <1>7
    <2> QED
      BY <2>1, <2>2, <2>3 DEF Good
  <1>11. ReaderAt("tmp", idx, rsize[r], files, file) /\ "tmp" \in States
    BY <1>2, <1>5, <1>8, <1>10 DEF ReaderAt, States
  <1> QED
    BY <1>1, <1>3, <1>5, <1>11, ReaderFacts, ReaderFrame

(* An index that was made of j records or more was made of one or more.    *)
LEMMA GoodFromOne ==
  ASSUME NEW rs \in Seq(RecordType), NEW idx, NEW j \in 1 .. Len(rs), Good(idx, rs, j)
  PROVE  Good(idx, rs, 1)
  <1>1. \A m \in j .. Len(rs) : m \in 1 .. Len(rs)
    OBVIOUS
  <1> QED
    BY <1>1 DEF Good

(* The temporary file of a reader.                                         *)
LEMMA ReaderTmpInv ==
  ASSUME StreamIInv, NEW r \in Readers, ReaderTmp(r)
  PROVE  StreamIInv'
  <1>1. /\ UNCHANGED <<wvars, disk, failures>> /\ rsize' = rsize /\ rindex' = rindex
        /\ indexFile' = indexFile /\ tmpFile' = rindex[r] /\ reader[r] = "tmp"
        /\ reader' = [reader EXCEPT ![r] = "replace"]
    BY DEF ReaderTmp
  <1>2. files > 0 /\ file # <<>>
    BY <1>1, ReaderFacts DEF ReaderAt
  <1>3. PICK j \in 1 .. Len(file) :
           SizeOf(rsize[r], file, j) /\ rindex[r].of = files /\ Good(rindex[r], file, j)
    BY <1>1, ReaderFacts DEF ReaderAt
  <1>4. KeptAt(rindex[r], files, file, writer)
    <2>1. Good(rindex[r], file, 1)
      BY <1>3, ReaderFacts, GoodFromOne
    <2> QED
      BY <1>3, <2>1, ReaderFacts DEF KeptAt
  <1>5. ReaderAt("replace", rindex[r], rsize[r], files, file) /\ "replace" \in States
    BY <1>2, <1>3 DEF ReaderAt, States
  <1> QED
    BY <1>1, <1>4, <1>5, ReaderFacts, ReaderFrame

(* The replacement of a reader, of whosever temporary file it is.          *)
LEMMA ReaderReplaceInv ==
  ASSUME StreamIInv, NEW r \in Readers, ReaderReplace(r)
  PROVE  StreamIInv'
  <1>1. /\ UNCHANGED <<wvars, disk, failures>> /\ rsize' = rsize /\ rindex' = rindex
        /\ reader[r] = "replace"
    BY DEF ReaderReplace
  <1>2. files > 0 /\ file # <<>>
    BY <1>1, ReaderFacts DEF ReaderAt
  <1>3. CASE tmpFile = NoIndex
    <2>1. /\ reader' = [reader EXCEPT ![r] = "lost"] /\ indexFile' = indexFile
          /\ tmpFile' = tmpFile
      BY <1>3 DEF ReaderReplace, index
    <2>2. ReaderAt("lost", rindex[r], rsize[r], files, file) /\ "lost" \in States
      BY <1>2 DEF ReaderAt, States
    <2> QED
      BY <1>1, <2>1, <2>2, ReaderFacts, ReaderFrame
  <1>4. CASE tmpFile # NoIndex
    <2>1. /\ reader' = [reader EXCEPT ![r] = "open"] /\ indexFile' = tmpFile
          /\ tmpFile' = NoIndex
      BY <1>4 DEF ReaderReplace
    <2>2. PICK j \in 1 .. Len(file) :
             SizeOf(rsize[r], file, j) /\ rindex[r].of = files /\ Good(rindex[r], file, j)
      BY <1>1, ReaderFacts DEF ReaderAt
    <2>3. PICK m, n \in j .. Len(file) :
             /\ m <= n /\ Fits(rindex[r], file, m) /\ SizeOf(rindex[r].size, file, n)
             /\ ~rindex[r].grew => rindex[r].count = Count(file, n)
      BY <2>2 DEF Good
    <2>4. m \in 1 .. Len(file) /\ n \in 1 .. Len(file) /\ j \in 1 .. n
      OBVIOUS
    <2>5. Count(file, j) <= Count(file, n)
      BY <2>4, ReaderFacts, CountBound
    <2>6. ~rindex[r].grew => Count(file, j) <= rindex[r].count
      BY <2>3, <2>5
    <2>7. ReaderAt("open", rindex[r], rsize[r], files, file) /\ "open" \in States
      BY <1>2, <2>2, <2>3, <2>4, <2>6 DEF ReaderAt, States
    <2> QED
      BY <1>1, <2>1, <2>7, ReaderFacts, ReaderFrame
  <1> QED
    BY <1>3, <1>4

(* The reader is thrown away.                                              *)
LEMMA DropReaderInv ==
  ASSUME StreamIInv, NEW r \in Readers, DropReader(r)
  PROVE  StreamIInv'
  <1>1. /\ UNCHANGED <<wvars, disk, failures>> /\ reader' = [reader EXCEPT ![r] = "idle"]
        /\ rindex' = [rindex EXCEPT ![r] = NoIndex] /\ rsize' = [rsize EXCEPT ![r] = 0]
        /\ indexFile' = indexFile /\ tmpFile' = tmpFile
    BY DEF DropReader, index
  <1>2. ReaderAt("idle", NoIndex, 0, files, file) /\ "idle" \in States /\ 0 \in Nat
    BY DEF ReaderAt, States
  <1> QED
    BY <1>1, <1>2, ReaderFacts, ReaderFrame

(* Nothing happens.                                                        *)
LEMMA StutterIInv ==
  ASSUME StreamIInv, UNCHANGED svars
  PROVE  StreamIInv'
  <1>1. /\ UNCHANGED wvars /\ UNCHANGED disk /\ UNCHANGED index /\ UNCHANGED rvars
        /\ failures' = failures
    BY DEF svars
  <1>2. StreamTypeOK /\ WriterInv /\ file \in Seq(RecordType) /\ files \in Nat
    BY DEF StreamIInv, StreamTypeOK
  <1>3. /\ writer' = writer /\ frameCount' = frameCount /\ checkpoints' = checkpoints
        /\ files' = files /\ file' = file /\ torn' = torn /\ buffer' = buffer
        /\ synced' = synced /\ indexFile' = indexFile /\ tmpFile' = tmpFile
        /\ reader' = reader /\ rindex' = rindex /\ rsize' = rsize
    BY <1>1 DEF disk, wvars, index, rvars
  <1>4. StreamTypeOK'
    BY <1>1, <1>2, <1>3, Zenon DEF StreamTypeOK
  <1>5. WriterInv'
    BY <1>2, <1>3 DEF WriterInv
  <1>6. KeptInv(indexFile)' /\ KeptInv(tmpFile)'
    BY <1>3, KeptIsAt, PrimedIsAt DEF StreamIInv
  <1>7. \A r \in Readers : ReaderInv(r)'
    BY <1>3, ReaderIsAt, PrimedIsAt DEF StreamIInv
  <1> QED
    BY <1>4, <1>5, <1>6, <1>7 DEF StreamIInv

(* A step of a reader.                                                     *)
LEMMA ReaderStepInv ==
  ASSUME StreamIInv, NEW r \in Readers, ReaderStep(r)
  PROVE  StreamIInv'
  BY ReadHeaderInv, StatInv, ReadIndexInv, ScanInv, SizeOfIndexInv, ReaderTmpInv,
     ReaderReplaceInv, DropReaderInv DEF ReaderStep

(* A step of the writer.                                                   *)
LEMMA WriterStepInv ==
  ASSUME StreamIInv, WriterStep
  PROVE  StreamIInv'
  BY OpenFileInv, WriteHeaderInv, HeaderFailsInv, AppendFrameInv, SpillInv, CloseFileInv, CloseFailsInv,
     WriteTmpInv, ReplaceInv DEF WriterStep

(* StreamIInv is inductive.                                                *)
LEMMA StreamNextInv == StreamIInv /\ [StreamNext]_svars => StreamIInv'
  <1> SUFFICES ASSUME StreamIInv, [StreamNext]_svars PROVE StreamIInv'
    OBVIOUS
  <1>1. CASE StreamNext
    BY <1>1, WriterStepInv, KillInv, PowerLossInv, MoveFileInv, ReaderStepInv DEF StreamNext
  <1>2. CASE UNCHANGED svars
    BY <1>2, StutterIInv
  <1> QED
    BY <1>1, <1>2

(* The file is a session at every moment, with the checkpoints of the writer at *)
(* its frames; every index on disk that is of this file was made of records it *)
(* still has, or claims a size it cannot have; every reader has an index of what *)
(* it saw.  This holds for every number of readers, of failures and of frames. *)
THEOREM StreamInvariant == StreamSpec => []StreamIInv
  <1> QED
    BY InitIInv, StreamNextInv, PTL DEF StreamSpec

(* An index that fits reads exact pages, up to a cut line.                 *)
LEMMA PagesFollow == StreamIInv => PagesAreExact
  <1> SUFFICES ASSUME StreamIInv, NEW r \in Readers, reader[r] = "open", rindex[r].of = files,
                      NEW start \in 0 .. MaxFrames, NEW limit \in 0 .. MaxFrames
               PROVE  ReadPage(rindex[r], start, limit) =
                        IF start >= rindex[r].count THEN <<>>
                        ELSE IF ComesToCut(start, limit) THEN Broken
                        ELSE Slice(FramesOf(file), start, limit)
    BY DEF PagesAreExact
  <1>1. PICK m \in 1 .. Len(file) : Fits(rindex[r], file, m)
    BY ReaderFacts DEF ReaderAt
  <1>2. start \in Nat /\ limit \in Nat
    BY StreamAssumption
  <1> QED
    BY <1>1, <1>2, ReaderFacts, PageExact

(* The count is of what the reader saw, or of more.                        *)
LEMMA CountFollows == StreamIInv => CountIsComplete
  <1> SUFFICES ASSUME StreamIInv, NEW r \in Readers, reader[r] = "open", rindex[r].of = files,
                      ~rindex[r].grew
               PROVE  /\ Len(FramesOf(UpTo(file, rsize[r]))) <= rindex[r].count
                      /\ rindex[r].count <= Len(FramesOf(file))
    BY DEF CountIsComplete
  <1>1. PICK j \in 1 .. Len(file) :
           /\ SizeOf(rsize[r], file, j)
           /\ \E m \in 1 .. Len(file) : Fits(rindex[r], file, m)
           /\ Count(file, j) <= rindex[r].count
    BY ReaderFacts DEF ReaderAt
  <1>2. PICK m \in 1 .. Len(file) : Fits(rindex[r], file, m)
    BY <1>1
  <1>3. /\ file \in Seq(RecordType) /\ Shaped(file) /\ file # <<>>
        /\ Len(file) \in 1 .. Len(file) /\ m \in 1 .. Len(file)
    BY ReaderFacts, EmptySeq
  <1>4. Len(FramesOf(UpTo(file, rsize[r]))) = Count(file, j)
    BY <1>1, <1>3, UpToSize, FramesOfPrefix
  <1>5. Len(FramesOf(file)) = Count(file, Len(file))
    BY <1>3, FramesOfAll
  <1>6. rindex[r].count = Count(file, m)
    BY <1>2 DEF Fits
  <1>7. Count(file, m) <= Count(file, Len(file))
    BY <1>3, CountBound
  <1> QED
    BY <1>1, <1>4, <1>5, <1>6, <1>7

(* What SessionPagedReader reads of a session is what is in the file, whatever is *)
(* appended, cut, rebuilt or replaced beside it, for every stride and flush rate. *)
THEOREM ReadersExact == StreamSpec => []ReadersAreExact
  <1>1. StreamIInv => ReadersAreExact
    BY PagesFollow, CountFollows DEF ReadersAreExact
  <1> QED
    BY <1>1, StreamInvariant, PTL

(* Every variable of SessionStream holds a value of its kind.              *)
THEOREM StreamTypes == StreamSpec => []StreamTypeOK
  <1>1. StreamIInv => StreamTypeOK
    BY DEF StreamIInv
  <1> QED
    BY <1>1, StreamInvariant, PTL

(* Two sequences of points that fit the same records have the same points before *)
(* the count.                                                              *)
LEMMA FitsAreOne ==
  ASSUME NEW rs, NEW count \in Nat,
         NEW ps \in Seq(Nat \X Nat), NEW qs \in Seq(Nat \X Nat),
         PointsFit(ps, count, rs), PointsFit(qs, count, rs),
         NEW p \in PointSet(ps), p[1] < count
  PROVE  p \in PointSet(qs)
  <1>1. PICK i \in DOMAIN ps : p = ps[i]
    BY DEF PointSet
  <1>2. ps[i] \in Nat \X Nat
    OBVIOUS
  <1>3. p[1] \in 0 .. count /\ Due(p[1]) /\ p[2] = Ends(rs)[p[1] + 1] /\ p = <<p[1], p[2]>>
    <2>1. p[1] <= count /\ Due(p[1]) /\ p[2] = Ends(rs)[p[1] + 1]
      BY <1>1 DEF PointsFit
    <2>2. p \in Nat \X Nat
      BY <1>1, <1>2
    <2>3. p[1] \in Nat /\ p = <<p[1], p[2]>>
      BY <2>2
    <2> QED
      BY <2>1, <2>3
  <1>4. PICK j \in DOMAIN qs : qs[j][1] = p[1]
    BY <1>3 DEF PointsFit
  <1>5. qs[j] \in Nat \X Nat
    OBVIOUS
  <1>6. qs[j][2] = Ends(rs)[p[1] + 1] /\ qs[j] = <<qs[j][1], qs[j][2]>>
    <2>1. qs[j][2] = Ends(rs)[qs[j][1] + 1]
      BY DEF PointsFit
    <2>2. qs[j] = <<qs[j][1], qs[j][2]>>
      BY <1>5
    <2> QED
      BY <1>4, <2>1, <2>2
  <1>7. qs[j] = p
    BY <1>3, <1>4, <1>6
  <1> QED
    BY <1>7 DEF PointSet

(* So the points of the writer are those of a scan.                        *)
LEMMA BuiltFollows == StreamIInv => WriterIndexIsBuilt
  <1> SUFFICES ASSUME StreamIInv, writer \in {"tmp", "replace"}
               PROVE  /\ frameCount = BuildIndex(file).count
                      /\ {p \in PointSet(checkpoints) : p[1] < frameCount}
                           = PointSet(BuildIndex(file).points)
    BY DEF WriterIndexIsBuilt
  <1> DEFINE built == BuildIndex(file)
             qs == built.points
             ps == checkpoints
  <1>1. StreamTypeOK /\ WriterInv /\ files \in Nat /\ frameCount \in Nat /\ ps \in Seq(Nat \X Nat)
    BY DEF StreamIInv, StreamTypeOK
  <1>2. /\ file \in Seq(RecordType) /\ Shaped(file) /\ Whole = file /\ Closed(file)
        /\ frameCount = Len(file) - 2
    BY <1>1, FileIsShaped DEF WriterInv
  <1>3. file # <<>> /\ Len(file) \in Nat /\ frameCount = Total(file)
    BY <1>2 DEF Closed, Total, Count
  <1>4. PointsFit(ps, frameCount, file)
    BY <1>1, <1>2 DEF WriterInv, Whole
  <1>5. /\ built \in IndexType /\ built.count = frameCount /\ PointsFit(qs, frameCount, file)
        /\ \A n \in DOMAIN qs : qs[n][1] < frameCount
    BY <1>1, <1>2, <1>3, BuildIndexFits DEF Fits
  <1>6. qs \in Seq(Nat \X Nat)
    BY <1>5 DEF IndexType
  <1> HIDE DEF built, qs, ps
  <1>7. ASSUME NEW p \in PointSet(ps), p[1] < frameCount PROVE p \in PointSet(qs)
    BY <1>1, <1>4, <1>5, <1>6, <1>7, FitsAreOne
  <1>8. ASSUME NEW p \in PointSet(qs) PROVE p[1] < frameCount /\ p \in PointSet(ps)
    <2>1. p[1] < frameCount
      BY <1>5 DEF PointSet
    <2> QED
      BY <1>1, <1>4, <1>5, <1>6, <2>1, FitsAreOne
  <1>9. {p \in PointSet(ps) : p[1] < frameCount} = PointSet(qs)
    BY <1>7, <1>8
  <1> QED
    BY <1>5, <1>9 DEF built, qs, ps

(* The index that SessionStreamWriter keeps as it goes is the one that a scan of *)
(* its closed file would build.                                            *)
THEOREM WriterIndexBuilt == StreamSpec => []WriterIndexIsBuilt
  <1> QED
    BY BuiltFollows, StreamInvariant, PTL

-----------------------------------------------------------------------------
(* The saving of a log (LiveSave).                                          *)

\* What is known of one log.
LogType == [session : Place, rest : Place, row : {"none", "registered", "final"},
            announced : BOOLEAN, split : BOOLEAN,
            fate : {"none", "finished", "saved", "discarded", "lost", "dropped",
                    "crashed"}]

\* Nothing is under way for these logs.
Settled(ls) ==
    /\ ls \in [Log -> LogType]
    /\ \A l \in Log : l > started => ls[l] = NoLog
    /\ \A l \in Log : ls[l].split \/ ls[l].session = ls[l].rest
    /\ \A l \in Log : ls[l].fate = "saved" =>
         ls[l].session = "project" /\ RestIsMoved(ls[l]) /\ ls[l].row = "final"
    /\ \A l \in Log : ls[l].row # "none" =>
         ls[l].session = "project" /\ RestIsMoved(ls[l])
    /\ \A l \in Log : ls[l].fate = "lost" /\ ls[l].announced =>
         ls[l].session = "project"

\* A log that is over and not in the project has not been announced.
Unknown(ls) ==
    \A l \in Log : ls[l].fate = "finished" =>
        ls[l].session = "project" \/ ~ls[l].announced

\* Every log that is over is in the project.
NoneWaits(ls) == \A l \in Log : ls[l].fate = "finished" => ls[l].session = "project"

-----------------------------------------------------------------------------
(* Logs.                                                                    *)

\* Where one log changes the others stay.
LEMMA OneLog ==
    ASSUME NEW ls \in [Log -> LogType], NEW l \in Log, NEW r \in LogType,
           NEW next, next = [ls EXCEPT ![l] = r]
    PROVE  /\ next \in [Log -> LogType] /\ next[l] = r
           /\ \A k \in Log : k # l => next[k] = ls[k]
OBVIOUS

\* The cleanup removes what is in the temporary directory, and nothing else.
LEMMA CleanedLogs ==
    ASSUME NEW ls \in [Log -> LogType]
    PROVE  /\ Cleaned(ls) \in [Log -> LogType]
           /\ \A l \in Log : ls[l] = NoLog => Cleaned(ls)[l] = NoLog
           /\ \A l \in Log :
                /\ Cleaned(ls)[l].fate = ls[l].fate /\ Cleaned(ls)[l].row = ls[l].row
                /\ Cleaned(ls)[l].split = ls[l].split
                /\ Cleaned(ls)[l].announced = ls[l].announced
                /\ Cleaned(ls)[l].session =
                     IF ls[l].session = "temp" THEN "gone" ELSE ls[l].session
                /\ Cleaned(ls)[l].rest =
                     IF ls[l].rest = "temp" THEN "gone" ELSE ls[l].rest
<1> SUFFICES ASSUME NEW l \in Log
             PROVE  /\ Cleaned(ls)[l] \in LogType
                    /\ ls[l] = NoLog => Cleaned(ls)[l] = NoLog
                    /\ Cleaned(ls)[l].fate = ls[l].fate
                    /\ Cleaned(ls)[l].row = ls[l].row
                    /\ Cleaned(ls)[l].split = ls[l].split
                    /\ Cleaned(ls)[l].announced = ls[l].announced
                    /\ Cleaned(ls)[l].session =
                         IF ls[l].session = "temp" THEN "gone" ELSE ls[l].session
                    /\ Cleaned(ls)[l].rest =
                         IF ls[l].rest = "temp" THEN "gone" ELSE ls[l].rest
  BY Zenon DEF Cleaned
<1>1. PICK o \in LogType : o = ls[l]
  OBVIOUS
<1>2. Cleaned(ls)[l] = [o EXCEPT !.session = IF @ = "temp" THEN "gone" ELSE @,
                                 !.rest    = IF @ = "temp" THEN "gone" ELSE @]
  BY <1>1 DEF Cleaned
<1>3. Cleaned(ls)[l] \in LogType
  BY <1>1, <1>2 DEF LogType, Place
<1>4. ASSUME o = NoLog PROVE Cleaned(ls)[l] = NoLog
  <2>1. NoLog.session = "none" /\ NoLog.rest = "none"
    BY DEF NoLog
  <2>2. Cleaned(ls)[l] = [NoLog EXCEPT !.session = "none", !.rest = "none"]
    BY <1>2, <1>4, <2>1
  <2> QED BY <2>2 DEF NoLog
<1> QED BY <1>1, <1>2, <1>3, <1>4 DEF LogType

\* With its tab goes what is still undecided.
LEMMA LeavingLogs ==
    ASSUME NEW ls \in [Log -> LogType], NEW fate \in {"lost", "dropped"}
    PROVE  /\ Leaving(ls, fate) \in [Log -> LogType]
           /\ \A l \in Log : ls[l].fate # "finished" => Leaving(ls, fate)[l] = ls[l]
           /\ \A l \in Log : ls[l].fate = "finished" =>
                /\ Leaving(ls, fate)[l].fate = fate
                /\ Leaving(ls, fate)[l].row = ls[l].row
                /\ Leaving(ls, fate)[l].split = ls[l].split
                /\ Leaving(ls, fate)[l].announced = ls[l].announced
                /\ Leaving(ls, fate)[l].session = ls[l].session
                /\ Leaving(ls, fate)[l].rest = ls[l].rest
<1>1. \A l \in Log : Leaving(ls, fate)[l] =
        IF ls[l].fate = "finished" THEN [ls[l] EXCEPT !.fate = fate] ELSE ls[l]
  BY DEF Leaving
<1>2. \A l \in Log : ls[l] \in LogType /\ [ls[l] EXCEPT !.fate = fate] \in LogType
  BY DEF LogType
<1>3. Leaving(ls, fate) \in [Log -> LogType]
  BY <1>2 DEF Leaving
<1> QED BY <1>1, <1>2, <1>3 DEF LogType

-----------------------------------------------------------------------------
(* How a decision goes on.                                                  *)

\* A tab that is left over settled logs leaves nothing undecided.
LEMMA LeavingSettles ==
    ASSUME NEW ls, Settled(ls), NEW fate \in {"lost", "dropped"},
           fate = "lost" => Unknown(ls)
    PROVE  /\ Settled(Leaving(ls, fate))
           /\ \A l \in Log : Leaving(ls, fate)[l].fate # "finished"
<1> DEFINE next == Leaving(ls, fate)
<1>1. next \in [Log -> LogType] /\ \A l \in Log : next[l].fate # "finished"
  BY LeavingLogs DEF Settled
<1>2. \A l \in Log : l > started => next[l] = NoLog
  <2>1. NoLog.fate # "finished"
    BY DEF NoLog
  <2> QED BY LeavingLogs, <2>1 DEF Settled
<1>3. \A l \in Log :
        /\ next[l].split \/ next[l].session = next[l].rest
        /\ next[l].row # "none" => next[l].session = "project" /\ RestIsMoved(next[l])
  BY LeavingLogs DEF Settled, RestIsMoved
<1>4. \A l \in Log : next[l].fate = "saved" =>
        next[l].session = "project" /\ RestIsMoved(next[l]) /\ next[l].row = "final"
  BY LeavingLogs DEF Settled, RestIsMoved
<1>5. \A l \in Log : next[l].fate = "lost" /\ next[l].announced =>
        next[l].session = "project"
  BY LeavingLogs DEF Settled, Unknown
<1> QED BY <1>1, <1>2, <1>3, <1>4, <1>5 DEF Settled

\* The cleanup leaves settled logs settled.
LEMMA CleanedSettles ==
    ASSUME NEW ls, Settled(ls)
    PROVE  /\ Settled(Cleaned(ls))
           /\ \A l \in Log : Cleaned(ls)[l].fate = ls[l].fate
BY CleanedLogs DEF Settled, RestIsMoved

\* Logs that are settled, without a tab or with one that knows of none.
LEMMA SettledIsSafe ==
    ASSUME TypeOK, SaveIInv, Settled(logs'), started' = started,
           pending' = 0, pendingStatus' = FALSE, finalized' = FALSE, saving' = "none", after' = "stay",
           deferredReady' \in BOOLEAN, startEnabled' \in BOOLEAN, liveTab' \in BOOLEAN,
           service' \in {"idle", "ended"}, ~liveTab' => service' = "idle",
           crashes' \in Nat,
           \A l \in Log : logs'[l].fate = "finished" =>
               liveTab' /\ logs'[l].session = "project"
    PROVE  (TypeOK /\ SaveIInv)'
<1>1. TypeOK'
  <2>1. started' \in 0 .. MaxLogs /\ pending' \in 0 .. started'
    BY LiveSaveAssumption DEF TypeOK
  <2> QED BY <2>1 DEF TypeOK, Settled, LogType
<1>2. WidgetInv' /\ CaptureInv'
  BY DEF WidgetInv, CaptureInv, Settled
<1>3. WaitingInv' /\ SavingInv' /\ TogetherInv'
  BY DEF WaitingInv, SavingInv, TogetherInv, Settled, Undecided
<1>4. (SavedIsWhole /\ RowHasFile /\ AnnouncedIsAskedFor /\ CaptureCoversNoLog)'
  BY DEF SavedIsWhole, RowHasFile, AnnouncedIsAskedFor, CaptureCoversNoLog, Settled
<1> QED BY <1>1, <1>2, <1>3, <1>4 DEF SaveIInv

\* Each way goes on safely from settled logs: the tab is left over logs nobody has
\* announced, and kept when every log is in the project.
LEMMA GoOnSafe ==
    ASSUME TypeOK, SaveIInv, NEW how \in {"stay", "clean", "tab", "exit"}, NEW ls,
           liveTab, service = "ended" \/ (service = "idle" /\ how \in {"tab", "exit"}),
           Settled(ls), Unknown(ls), how \in {"stay", "clean"} => NoneWaits(ls),
           GoOn(how, ls), started' = started, crashes' = crashes,
           saving' = "none", after' = "stay"
    PROVE  (TypeOK /\ SaveIInv)'
<1>1. crashes' \in Nat /\ liveTab \in BOOLEAN /\ deferredReady \in BOOLEAN
      /\ startEnabled \in BOOLEAN
  BY DEF TypeOK
<1>2. CASE how \in {"stay", "clean"}
  <2>1. /\ logs' = ls /\ liveTab' = liveTab /\ service' = service
        /\ startEnabled' = startEnabled /\ deferredReady' \in BOOLEAN
        /\ pending' = 0 /\ pendingStatus' = FALSE /\ finalized' = FALSE
    BY <1>1, <1>2 DEF GoOn, Forget
  <2> QED BY <1>1, <1>2, <2>1, SettledIsSafe DEF NoneWaits
<1>3. CASE how \in {"tab", "exit"}
  <2>1. /\ liveTab' = FALSE /\ service' = "idle" /\ startEnabled' = FALSE
        /\ deferredReady' = FALSE
        /\ pending' = 0 /\ pendingStatus' = FALSE /\ finalized' = FALSE
        /\ logs' = Leaving(ls, "lost") \/ logs' = Cleaned(Leaving(ls, "lost"))
    BY <1>3 DEF GoOn, DropTab, Forget
  <2>2. Settled(logs') /\ \A l \in Log : logs'[l].fate # "finished"
    <3>1. Settled(Leaving(ls, "lost"))
          /\ \A l \in Log : Leaving(ls, "lost")[l].fate # "finished"
      BY LeavingSettles
    <3> QED BY <2>1, <3>1, CleanedSettles
  <2> QED BY <1>1, <2>1, <2>2, SettledIsSafe
<1> QED BY <1>2, <1>3

\* Between two actions the logs are settled, but for the one that is being moved.
LEMMA LogsAreSettled ==
    ASSUME TypeOK, SaveIInv, saving = "none"
    PROVE  Settled(logs)
BY DEF Settled, LogType, TypeOK, SaveIInv, CaptureInv, TogetherInv, SavedIsWhole,
       RowHasFile, AnnouncedIsAskedFor

\* With nothing to ask about, what is over and not in the project is unknown.
LEMMA NothingToAsk ==
    ASSUME TypeOK, SaveIInv, ~HasUnsaved
    PROVE  Unknown(logs)
BY DEF Unknown, HasUnsaved, SaveIInv, WaitingInv, Undecided, TypeOK

\* A decision about the pending log settles them all.
LEMMA DecidedIsSettled ==
    ASSUME TypeOK, SaveIInv, pending # 0, saving \in {"none", "finalize"},
           NEW r \in LogType, r.fate \in {"saved", "discarded"},
           r.split \/ r.session = r.rest,
           r.fate = "saved" =>
               r.session = "project" /\ RestIsMoved(r) /\ r.row = "final",
           r.row # "none" => r.session = "project" /\ RestIsMoved(r),
           NEW ls, ls = [logs EXCEPT ![pending] = r]
    PROVE  Settled(ls) /\ Unknown(ls) /\ NoneWaits(ls)
<1>1. pending \in Log /\ logs \in [Log -> LogType] /\ pending <= started
  BY LiveSaveAssumption DEF TypeOK, LogType, Log
<1>2. ls \in [Log -> LogType] /\ ls[pending] = r
      /\ \A k \in Log : k # pending => ls[k] = logs[k]
  BY <1>1, OneLog
<1>3. \A l \in Log : l > started => l # pending
  BY <1>1, LiveSaveAssumption DEF TypeOK, Log
<1>4. Settled(ls)
  <2>1. \A l \in Log : l > started => ls[l] = NoLog
    BY <1>2, <1>3 DEF SaveIInv, CaptureInv
  <2> QED BY <1>2, <2>1 DEF Settled, SaveIInv, TogetherInv, SavedIsWhole, RowHasFile,
                            AnnouncedIsAskedFor
<1>5. NoneWaits(ls)
  BY <1>2 DEF NoneWaits, SaveIInv, WaitingInv, Undecided
<1> QED BY <1>4, <1>5 DEF Unknown, NoneWaits

-----------------------------------------------------------------------------
(* The steps that leave the logs as they are.                               *)

\* What is said of the logs alone stays as they do.
LEMMA SameLogs ==
    ASSUME logs' = logs, started' = started
    PROVE  /\ SavedIsWhole => SavedIsWhole'
           /\ RowHasFile => RowHasFile'
           /\ AnnouncedIsAskedFor => AnnouncedIsAskedFor'
BY DEF SavedIsWhole, RowHasFile, AnnouncedIsAskedFor

\* A Live tab opens with nothing pending.
LEMMA OpenLiveKeeps ==
    ASSUME TypeOK, SaveIInv, OpenLive
    PROVE  (TypeOK /\ SaveIInv)'
<1>1. UNCHANGED <<service, started, logs, pending, pendingStatus, finalized,
                  deferredReady, saving, after, crashes>>
      /\ liveTab' = TRUE /\ startEnabled' = TRUE /\ ~liveTab
  BY DEF OpenLive, save
<1>2. TypeOK'
  BY <1>1 DEF TypeOK
<1>3. WidgetInv' /\ CaptureInv' /\ CaptureCoversNoLog'
  BY <1>1 DEF SaveIInv, WidgetInv, CaptureInv, CaptureCoversNoLog, Undecided
<1>4. WaitingInv' /\ SavingInv' /\ TogetherInv'
  BY <1>1 DEF SaveIInv, WaitingInv, SavingInv, TogetherInv, Undecided
<1> QED BY <1>1, <1>2, <1>3, <1>4, SameLogs DEF SaveIInv

\* A capture starts over nothing: a log that is over is in the project, and what
\* the new capture has is not there yet.
LEMMA StartKeeps ==
    ASSUME TypeOK, SaveIInv, Start
    PROVE  (TypeOK /\ SaveIInv)'
<1>1. /\ saving = "none" /\ liveTab /\ startEnabled /\ ~HasUnsaved /\ started < MaxLogs
      /\ service # "active" /\ service' = "active"
      /\ started' = started + 1 /\ pending' = started + 1
      /\ pendingStatus' = FALSE /\ finalized' = FALSE
      /\ deferredReady' = FALSE /\ startEnabled' = FALSE
      /\ UNCHANGED <<logs, liveTab, saving, after, crashes>>
  BY DEF Start, Idle, Free, ResetFinalized, save
<1>2. started \in Nat /\ started + 1 \in Log /\ started + 1 # 0
  BY <1>1, LiveSaveAssumption DEF TypeOK, Log
<1>3. \A l \in Log : l \in Nat
  BY LiveSaveAssumption DEF Log
<1>4. logs[started + 1] = NoLog
  BY <1>2 DEF SaveIInv, CaptureInv
<1>5. NoLog.fate = "none" /\ NoLog.row = "none" /\ NoLog.session = "none"
      /\ NoLog.rest = "none" /\ ~NoLog.announced
  BY DEF NoLog
<1>6. \A l \in Log : Undecided(l) => logs[l].session = "project"
  <2> SUFFICES ASSUME NEW l \in Log, Undecided(l), logs[l].session # "project"
               PROVE  FALSE
    OBVIOUS
  <2>1. l = pending /\ logs[l].session = "temp"
    BY DEF SaveIInv, WaitingInv
  <2>2. pending # 0
    BY <2>1 DEF Log
  <2>3. pendingStatus
    BY <1>1, <2>2 DEF SaveIInv, WidgetInv
  <2> QED BY <1>1, <2>1, <2>2, <2>3 DEF HasUnsaved
<1>7. TypeOK'
  <2>1. started' \in 0 .. MaxLogs /\ pending' \in 0 .. started' /\ pending' # 0
    BY <1>1, <1>2, LiveSaveAssumption
  <2> QED BY <1>1, <2>1 DEF TypeOK
<1>8. WidgetInv' /\ SavingInv'
  BY <1>1, <1>2 DEF SaveIInv, WidgetInv, SavingInv
<1>9. CaptureInv'
  <2>1. \A l \in Log : l > started' => l > started
    BY <1>1, <1>2, <1>3
  <2> QED BY <1>1, <1>2, <1>4, <1>5, <2>1 DEF SaveIInv, CaptureInv
<1>10. WaitingInv' /\ CaptureCoversNoLog'
  BY <1>1, <1>4, <1>5, <1>6 DEF WaitingInv, CaptureCoversNoLog, Undecided
<1>11. TogetherInv'
  BY <1>1 DEF SaveIInv, TogetherInv
<1> QED
  <2>1. SavedIsWhole' /\ RowHasFile' /\ AnnouncedIsAskedFor'
    BY <1>1 DEF SaveIInv, SavedIsWhole, RowHasFile, AnnouncedIsAskedFor
  <2> QED BY <1>7, <1>8, <1>9, <1>10, <1>11, <2>1 DEF SaveIInv

\* A start that fails leaves everything but the readiness for it.
LEMMA StartFailsKeeps ==
    ASSUME TypeOK, SaveIInv, StartFails
    PROVE  (TypeOK /\ SaveIInv)'
<1>1. UNCHANGED <<service, started, logs, liveTab, pending, pendingStatus, finalized,
                  startEnabled, saving, after, crashes>> /\ deferredReady' = FALSE
  BY DEF StartFails, save
<1>2. TypeOK'
  BY <1>1 DEF TypeOK
<1>3. WidgetInv' /\ CaptureInv' /\ CaptureCoversNoLog'
  BY <1>1 DEF SaveIInv, WidgetInv, CaptureInv, CaptureCoversNoLog, Undecided
<1>4. WaitingInv' /\ SavingInv' /\ TogetherInv'
  BY <1>1 DEF SaveIInv, WaitingInv, SavingInv, TogetherInv, Undecided
<1> QED BY <1>1, <1>2, <1>3, <1>4, SameLogs DEF SaveIInv

\* The operator is asked about a log that waits in the temporary directory.
LEMMA AskedLog ==
    ASSUME TypeOK, SaveIInv, NEW how, Asked(how)
    PROVE  /\ pending \in Log /\ pending # 0 /\ pendingStatus /\ liveTab
           /\ saving = "none" /\ service = "ended" /\ Undecided(pending)
           /\ logs[pending].session = "temp" /\ logs[pending].row = "none"
           /\ ~logs[pending].split => logs[pending].rest = "temp"
<1>1. /\ pending # 0 /\ pendingStatus /\ logs[pending].session = "temp"
      /\ liveTab /\ saving = "none" /\ service # "active"
  BY DEF Asked, Idle, Free, HasUnsaved
<1>2. pending \in Log
  BY <1>1, LiveSaveAssumption DEF TypeOK, Log
<1>3. service = "ended"
  BY <1>1 DEF TypeOK, SaveIInv, WidgetInv
<1>4. Undecided(pending)
  BY <1>1, <1>3 DEF SaveIInv, WaitingInv
<1>5. logs[pending].row = "none"
  BY <1>1, <1>2 DEF SaveIInv, RowHasFile
<1>6. ~logs[pending].split => logs[pending].rest = "temp"
  BY <1>1, <1>2 DEF SaveIInv, TogetherInv
<1> QED BY <1>1, <1>2, <1>3, <1>4, <1>5, <1>6

\* A save begins with a log that is where it was recorded.
LEMMA SaveKeeps ==
    ASSUME TypeOK, SaveIInv, NEW how \in {"stay", "clean", "tab", "exit"}, Save(how)
    PROVE  (TypeOK /\ SaveIInv)'
<1>1. /\ saving' = "session" /\ after' = how
      /\ UNCHANGED <<service, started, logs, liveTab, pending, pendingStatus, finalized,
                     deferredReady, startEnabled, crashes>>
  BY DEF Save, widget
<1>2. /\ pending \in Log /\ pending # 0 /\ pendingStatus /\ liveTab
      /\ saving = "none" /\ service = "ended" /\ Undecided(pending)
      /\ logs[pending].session = "temp"
      /\ ~logs[pending].split => logs[pending].rest = "temp"
  BY AskedLog DEF Save
<1>3. TypeOK'
  BY <1>1 DEF TypeOK
<1>4. WidgetInv' /\ CaptureInv' /\ CaptureCoversNoLog'
  BY <1>1, <1>2 DEF SaveIInv, WidgetInv, CaptureInv, CaptureCoversNoLog, Undecided
<1>5. WaitingInv' /\ SavingInv' /\ TogetherInv'
  BY <1>1, <1>2 DEF SaveIInv, WaitingInv, SavingInv, TogetherInv, Undecided
<1> QED BY <1>1, <1>3, <1>4, <1>5, SameLogs DEF SaveIInv

-----------------------------------------------------------------------------
(* The steps that change one log.                                           *)

\* While no capture runs, the pending log may change, and no other does; what is
\* proved of it here is all that the other conjuncts of the invariant ask.
LEMMA PendingChanges ==
    ASSUME TypeOK, SaveIInv, pending # 0, service = "ended", liveTab,
           NEW r \in LogType, logs' = [logs EXCEPT ![pending] = r],
           r.fate \in {"none", "finished", "discarded"},
           r.session = "temp" => r.fate = "finished",
           r.fate = "finished" => r.session \in {"temp", "project"},
           r.announced => pendingStatus',
           r.row # "none" => r.session = "project" /\ RestIsMoved(r),
           UNCHANGED <<service, started, liveTab, pending, crashes>>
    PROVE  /\ logs' \in [Log -> LogType] /\ pending \in Log /\ logs'[pending] = r
           /\ \A k \in Log : k # pending => logs'[k] = logs[k]
           /\ CaptureInv' /\ WaitingInv' /\ SavedIsWhole' /\ RowHasFile'
           /\ AnnouncedIsAskedFor' /\ CaptureCoversNoLog'
<1>1. pending \in Log /\ logs \in [Log -> LogType] /\ pending = started
  BY LiveSaveAssumption DEF TypeOK, LogType, Log, SaveIInv, WidgetInv
<1>2. logs' \in [Log -> LogType] /\ logs'[pending] = r
      /\ \A k \in Log : k # pending => logs'[k] = logs[k]
  BY <1>1, OneLog
<1>3. CaptureInv'
  <2>1. \A l \in Log : l > started => l # pending
    BY <1>1, LiveSaveAssumption DEF Log
  <2> QED BY <1>2, <2>1 DEF SaveIInv, CaptureInv
<1>4. WaitingInv'
  BY <1>1, <1>2 DEF SaveIInv, WaitingInv, Undecided
<1>5. SavedIsWhole' /\ RowHasFile'
  BY <1>2 DEF SaveIInv, SavedIsWhole, RowHasFile
<1>6. AnnouncedIsAskedFor' /\ CaptureCoversNoLog'
  BY <1>2 DEF SaveIInv, AnnouncedIsAskedFor, CaptureCoversNoLog
<1> QED BY <1>1, <1>2, <1>3, <1>4, <1>5, <1>6

\* An unlink that fails leaves the log pending, and known to be split.
LEMMA DiscardFailsKeeps ==
    ASSUME TypeOK, SaveIInv, NEW how, DiscardFails(how)
    PROVE  (TypeOK /\ SaveIInv)'
<1>1. /\ pending \in Log /\ pending # 0 /\ pendingStatus /\ liveTab
      /\ saving = "none" /\ service = "ended" /\ Undecided(pending)
      /\ logs[pending].session = "temp" /\ logs[pending].row = "none"
  BY AskedLog DEF DiscardFails
<1>2. UNCHANGED <<service, started, liveTab, pending, pendingStatus, finalized,
                  deferredReady, startEnabled, saving, after, crashes>>
  BY DEF DiscardFails, widget, save
<1>3. PICK o \in LogType : o = logs[pending]
  BY <1>1 DEF TypeOK, LogType
<1>4. PICK r : /\ logs' = [logs EXCEPT ![pending] = r]
               /\ \/ r = [o EXCEPT !.rest = "gone", !.split = TRUE]
                  \/ r = [o EXCEPT !.session = "gone", !.split = TRUE,
                                   !.fate = "discarded"]
  <2>1. \/ logs' = [logs EXCEPT ![pending].rest = "gone", ![pending].split = TRUE]
        \/ logs' = [logs EXCEPT ![pending].session = "gone", ![pending].split = TRUE,
                                ![pending].fate = "discarded"]
    BY DEF DiscardFails
  <2>2. logs \in [Log -> LogType]
    BY DEF TypeOK, LogType
  <2>3. CASE logs' = [logs EXCEPT ![pending].rest = "gone", ![pending].split = TRUE]
    <3>1. logs' = [logs EXCEPT ![pending] = [o EXCEPT !.rest = "gone", !.split = TRUE]]
      BY <1>1, <1>3, <2>2, <2>3
    <3> QED BY <3>1
  <2>4. CASE logs' = [logs EXCEPT ![pending].session = "gone", ![pending].split = TRUE,
                                  ![pending].fate = "discarded"]
    <3>1. logs' = [logs EXCEPT ![pending] = [o EXCEPT !.session = "gone", !.split = TRUE,
                                                      !.fate = "discarded"]]
      BY <1>1, <1>3, <2>2, <2>4
    <3> QED BY <3>1
  <2> QED BY <2>1, <2>3, <2>4
<1>5. /\ r \in LogType /\ r.split = TRUE /\ r.row = o.row /\ r.announced = o.announced
      /\ \/ r.session = o.session /\ r.fate = o.fate
         \/ r.session = "gone" /\ r.fate = "discarded"
  BY ZenonT(40), <1>3, <1>4 DEF LogType, Place
<1>6. /\ logs' \in [Log -> LogType] /\ logs'[pending] = r
      /\ \A k \in Log : k # pending => logs'[k] = logs[k]
      /\ CaptureInv' /\ WaitingInv' /\ SavedIsWhole' /\ RowHasFile'
      /\ AnnouncedIsAskedFor' /\ CaptureCoversNoLog'
  BY <1>1, <1>2, <1>3, <1>4, <1>5, PendingChanges DEF Undecided
<1>7. TypeOK'
  BY <1>2, <1>6 DEF TypeOK, LogType
<1>8. WidgetInv' /\ SavingInv' /\ TogetherInv'
  BY <1>1, <1>2, <1>5, <1>6 DEF SaveIInv, WidgetInv, SavingInv, TogetherInv
<1> QED BY <1>6, <1>7, <1>8 DEF SaveIInv

\* The pending log at a place of a save.
LEMMA SavingLog ==
    ASSUME TypeOK, SaveIInv, saving # "none"
    PROVE  /\ pending \in Log /\ pending # 0 /\ pendingStatus /\ liveTab
           /\ service = "ended" /\ logs[pending].fate = "finished"
           /\ logs[pending] \in LogType
<1>1. pending # 0 /\ pendingStatus /\ service = "ended" /\ logs[pending].fate = "finished"
  BY DEF SaveIInv, SavingInv, Undecided
<1>2. pending \in Log
  BY <1>1, LiveSaveAssumption DEF TypeOK, Log
<1>3. liveTab
  BY DEF SaveIInv, WidgetInv
<1>4. logs[pending] \in LogType
  BY <1>2 DEF TypeOK, LogType
<1> QED BY <1>1, <1>2, <1>3, <1>4

\* A save that stops without a change leaves a log that is together, for it is
\* either not moved yet or moved altogether.
LEMMA StopKeeps ==
    ASSUME TypeOK, SaveIInv, saving \in {"session", "register"}, SaveStops,
           UNCHANGED <<service, started, logs, liveTab, widget, crashes>>
    PROVE  (TypeOK /\ SaveIInv)'
<1>1. /\ saving' = "none" /\ after' = "stay"
      /\ UNCHANGED <<service, started, logs, liveTab, pending, pendingStatus, finalized,
                     deferredReady, startEnabled, crashes>>
  BY DEF SaveStops, widget
<1>2. TypeOK'
  BY <1>1 DEF TypeOK
<1>3. WidgetInv' /\ CaptureInv' /\ CaptureCoversNoLog'
  BY <1>1 DEF SaveIInv, WidgetInv, CaptureInv, CaptureCoversNoLog, Undecided
<1>4. WaitingInv' /\ SavingInv' /\ TogetherInv'
  BY <1>1 DEF SaveIInv, WaitingInv, SavingInv, TogetherInv, Undecided
<1> QED BY <1>1, <1>2, <1>3, <1>4, SameLogs DEF SaveIInv

\* The session file is moved into the project, or the save stops.
LEMMA MoveSessionKeeps ==
    ASSUME TypeOK, SaveIInv, MoveSession
    PROVE  (TypeOK /\ SaveIInv)'
<1>1. saving = "session" /\ UNCHANGED <<service, started, liveTab, widget, crashes>>
  BY DEF MoveSession
<1>2. CASE SaveStops /\ UNCHANGED logs
  BY <1>1, <1>2, StopKeeps
<1>3. CASE /\ logs' = [logs EXCEPT ![pending].session = "project"]
           /\ saving' = "rest" /\ UNCHANGED after
  <2>1. /\ pending \in Log /\ pending # 0 /\ pendingStatus /\ liveTab
        /\ service = "ended" /\ logs[pending].fate = "finished"
        /\ logs[pending] \in LogType
    BY <1>1, SavingLog
  <2>2. /\ logs[pending].session = "temp" /\ logs[pending].row = "none"
        /\ ~logs[pending].split => logs[pending].rest = "temp"
    BY <1>1, <2>1 DEF SaveIInv, SavingInv, RowHasFile
  <2>3. PICK o \in LogType : o = logs[pending]
    BY <2>1
  <2>4. PICK r : r = [o EXCEPT !.session = "project"]
    OBVIOUS
  <2>5. /\ r \in LogType /\ r.session = "project" /\ r.rest = o.rest /\ r.row = o.row
        /\ r.fate = o.fate /\ r.split = o.split /\ r.announced = o.announced
        /\ logs' = [logs EXCEPT ![pending] = r]
    BY <1>3, <2>3, <2>4 DEF LogType, Place
  <2>6. UNCHANGED <<pending, pendingStatus, finalized, deferredReady, startEnabled>>
    BY <1>1 DEF widget
  <2>7. /\ logs' \in [Log -> LogType] /\ logs'[pending] = r
        /\ \A k \in Log : k # pending => logs'[k] = logs[k]
        /\ CaptureInv' /\ WaitingInv' /\ SavedIsWhole' /\ RowHasFile'
        /\ AnnouncedIsAskedFor' /\ CaptureCoversNoLog'
    BY <1>1, <2>1, <2>2, <2>3, <2>5, <2>6, PendingChanges
  <2>8. TypeOK'
    BY <1>1, <1>3, <2>6, <2>7 DEF TypeOK, LogType
  <2>9. WidgetInv' /\ SavingInv' /\ TogetherInv'
    BY <1>1, <1>3, <2>1, <2>2, <2>3, <2>5, <2>6, <2>7
       DEF SaveIInv, WidgetInv, SavingInv, TogetherInv, Undecided
  <2> QED BY <2>7, <2>8, <2>9 DEF SaveIInv
<1> QED BY <1>2, <1>3 DEF MoveSession

\* The files that follow the session are moved, or what was moved goes back.
LEMMA MoveRestKeeps ==
    ASSUME TypeOK, SaveIInv, MoveRest
    PROVE  (TypeOK /\ SaveIInv)'
<1>1. saving = "rest" /\ UNCHANGED <<service, started, liveTab, widget, crashes>>
  BY DEF MoveRest
<1>2. /\ pending \in Log /\ pending # 0 /\ pendingStatus /\ liveTab
      /\ service = "ended" /\ logs[pending].fate = "finished"
      /\ logs[pending] \in LogType
  BY <1>1, SavingLog
<1>3. /\ logs[pending].session = "project" /\ logs[pending].row = "none"
      /\ ~logs[pending].split => logs[pending].rest = "temp"
  BY <1>1 DEF SaveIInv, SavingInv
<1>4. PICK o \in LogType : o = logs[pending]
  BY <1>2
<1>5. PICK r : /\ logs' = [logs EXCEPT ![pending] = r]
               /\ \/ /\ r = [o EXCEPT !.rest = IF @ = "gone" THEN "gone" ELSE "project"]
                     /\ saving' = "register" /\ after' = after
                  \/ /\ r = [o EXCEPT !.session = "temp"] \/ r = [o EXCEPT !.split = TRUE]
                     /\ saving' = "none" /\ after' = "stay"
  BY <1>4 DEF MoveRest, SaveStops, Rollback
<1>6. /\ r \in LogType /\ r.row = o.row /\ r.fate = o.fate /\ r.announced = o.announced
      /\ \/ /\ r.session = o.session /\ r.split = o.split
            /\ r.rest = IF o.rest = "gone" THEN "gone" ELSE "project"
            /\ saving' = "register" /\ after' = after
         \/ /\ r.session = "temp" /\ r.rest = o.rest /\ r.split = o.split
            /\ saving' = "none" /\ after' = "stay"
         \/ /\ r.session = o.session /\ r.split = TRUE
            /\ saving' = "none" /\ after' = "stay"
  BY <1>4, <1>5 DEF LogType, Place
<1>7. saving' = "register" => RestIsMoved(r) /\ (r.split \/ r.rest = "project")
  BY <1>3, <1>4, <1>6 DEF RestIsMoved
<1>8. UNCHANGED <<pending, pendingStatus, finalized, deferredReady, startEnabled>>
  BY <1>1 DEF widget
<1>9. /\ logs' \in [Log -> LogType] /\ logs'[pending] = r
      /\ \A k \in Log : k # pending => logs'[k] = logs[k]
      /\ CaptureInv' /\ WaitingInv' /\ SavedIsWhole' /\ RowHasFile'
      /\ AnnouncedIsAskedFor' /\ CaptureCoversNoLog'
  BY <1>1, <1>2, <1>3, <1>4, <1>5, <1>6, <1>8, PendingChanges
<1>10. TypeOK'
  BY <1>1, <1>6, <1>8, <1>9 DEF TypeOK, LogType
<1>11. WidgetInv' /\ SavingInv' /\ TogetherInv'
  BY <1>1, <1>2, <1>3, <1>4, <1>6, <1>8, <1>9, <1>7
     DEF SaveIInv, WidgetInv, SavingInv, TogetherInv, Undecided
<1> QED BY <1>9, <1>10, <1>11 DEF SaveIInv

\* The row is added when every file that is left is in the project.
LEMMA RegisterKeeps ==
    ASSUME TypeOK, SaveIInv, Register
    PROVE  (TypeOK /\ SaveIInv)'
<1>1. saving = "register" /\ UNCHANGED <<service, started, liveTab, widget, crashes>>
  BY DEF Register
<1>2. CASE SaveStops /\ UNCHANGED logs
  BY <1>1, <1>2, StopKeeps
<1>3. CASE /\ logs' = [logs EXCEPT ![pending].row = "registered"]
           /\ saving' = "finalize" /\ UNCHANGED after
  <2>1. /\ pending \in Log /\ pending # 0 /\ pendingStatus /\ liveTab
        /\ service = "ended" /\ logs[pending].fate = "finished"
        /\ logs[pending] \in LogType
    BY <1>1, SavingLog
  <2>2. logs[pending].session = "project" /\ RestIsMoved(logs[pending])
    BY <1>1 DEF SaveIInv, SavingInv
  <2>3. PICK o \in LogType : o = logs[pending]
    BY <2>1
  <2>4. PICK r : r = [o EXCEPT !.row = "registered"]
    OBVIOUS
  <2>5. /\ r \in LogType /\ r.row = "registered" /\ r.session = o.session
        /\ r.rest = o.rest /\ r.fate = o.fate /\ r.announced = o.announced
        /\ r.split = o.split /\ logs' = [logs EXCEPT ![pending] = r]
    BY <1>3, <2>3, <2>4 DEF LogType
  <2>6. UNCHANGED <<pending, pendingStatus, finalized, deferredReady, startEnabled>>
    BY <1>1 DEF widget
  <2>7. /\ logs' \in [Log -> LogType] /\ logs'[pending] = r
        /\ \A k \in Log : k # pending => logs'[k] = logs[k]
        /\ CaptureInv' /\ WaitingInv' /\ SavedIsWhole' /\ RowHasFile'
        /\ AnnouncedIsAskedFor' /\ CaptureCoversNoLog'
    BY <1>1, <2>1, <2>2, <2>3, <2>5, <2>6, PendingChanges DEF RestIsMoved
  <2>8. TypeOK'
    BY <1>1, <1>3, <2>6, <2>7 DEF TypeOK, LogType
  <2>9. WidgetInv' /\ SavingInv' /\ TogetherInv'
    BY <1>1, <1>3, <2>1, <2>2, <2>3, <2>5, <2>6, <2>7
       DEF SaveIInv, WidgetInv, SavingInv, TogetherInv, Undecided, RestIsMoved
  <2> QED BY <2>7, <2>8, <2>9 DEF SaveIInv
<1> QED BY <1>2, <1>3 DEF Register

-----------------------------------------------------------------------------
(* The steps that decide.                                                   *)

\* The row gets its counts and the log is saved; or that fails, and the log is in
\* the project with the row it has.
LEMMA FinalizeRowKeeps ==
    ASSUME TypeOK, SaveIInv, FinalizeRow
    PROVE  (TypeOK /\ SaveIInv)'
<1>1. /\ saving = "finalize" /\ saving' = "none" /\ after' = "stay"
      /\ started' = started /\ crashes' = crashes
  BY DEF FinalizeRow, SaveStops
<1>2. /\ pending \in Log /\ pending # 0 /\ pendingStatus /\ liveTab
      /\ service = "ended" /\ logs[pending].fate = "finished"
      /\ logs[pending] \in LogType
  BY <1>1, SavingLog
<1>3. logs[pending].session = "project" /\ RestIsMoved(logs[pending])
  BY <1>1 DEF SaveIInv, SavingInv
<1>4. CASE UNCHANGED <<service, logs, liveTab, widget>>
  <2>1. UNCHANGED <<pending, pendingStatus, finalized, deferredReady, startEnabled>>
    BY <1>4 DEF widget
  <2>2. TypeOK'
    BY <1>1, <1>4, <2>1 DEF TypeOK
  <2>3. WidgetInv' /\ CaptureInv' /\ CaptureCoversNoLog'
    BY <1>1, <1>4, <2>1 DEF SaveIInv, WidgetInv, CaptureInv, CaptureCoversNoLog, Undecided
  <2>4. WaitingInv' /\ SavingInv' /\ TogetherInv'
    BY <1>1, <1>4, <2>1 DEF SaveIInv, WaitingInv, SavingInv, TogetherInv, Undecided
  <2> QED BY <1>1, <1>4, <2>2, <2>3, <2>4, SameLogs DEF SaveIInv
<1>5. CASE GoOn(after, [logs EXCEPT ![pending].row = "final", ![pending].fate = "saved"])
  <2>1. PICK o \in LogType : o = logs[pending]
    BY <1>2
  <2>2. PICK r : r = [o EXCEPT !.row = "final", !.fate = "saved"]
    OBVIOUS
  <2>3. /\ r \in LogType /\ r.session = o.session /\ r.rest = o.rest
        /\ r.split = o.split /\ r.row = "final" /\ r.fate = "saved"
    BY <2>2 DEF LogType
  <2>4. PICK ls : ls = [logs EXCEPT ![pending] = r]
    OBVIOUS
  <2>5. GoOn(after, ls)
    <3>1. logs \in [Log -> LogType]
      BY DEF TypeOK, LogType
    <3>2. [logs EXCEPT ![pending].row = "final", ![pending].fate = "saved"] = ls
      BY <1>2, <2>1, <2>2, <2>4, <3>1
    <3> QED BY <1>5, <3>2
  <2>6. Settled(ls) /\ Unknown(ls) /\ NoneWaits(ls)
    BY <1>1, <1>2, <1>3, <2>1, <2>3, <2>4, DecidedIsSettled DEF RestIsMoved
  <2>7. after \in {"stay", "clean", "tab", "exit"}
    BY DEF TypeOK
  <2> QED BY <1>1, <1>2, <2>5, <2>6, <2>7, GoOnSafe
<1> QED BY <1>4, <1>5 DEF FinalizeRow

\* A discarded log is gone with all its files.
LEMMA DiscardKeeps ==
    ASSUME TypeOK, SaveIInv, NEW how \in {"clean", "tab", "exit"}, Discard(how)
    PROVE  (TypeOK /\ SaveIInv)'
<1>1. /\ pending \in Log /\ pending # 0 /\ pendingStatus /\ liveTab
      /\ saving = "none" /\ service = "ended"
      /\ logs[pending].session = "temp" /\ logs[pending].row = "none"
  BY AskedLog DEF Discard
<1>2. saving' = "none" /\ after' = "stay" /\ started' = started /\ crashes' = crashes
  BY <1>1 DEF Discard, save, TypeOK
<1>3. logs \in [Log -> LogType]
  BY DEF TypeOK, LogType
<1>4. PICK o \in LogType : o = logs[pending]
  BY <1>1, <1>3
<1>5. PICK r : r = [o EXCEPT !.session = "gone", !.rest = "gone", !.fate = "discarded"]
  OBVIOUS
<1>6. /\ r \in LogType /\ r.session = "gone" /\ r.rest = "gone" /\ r.row = o.row
      /\ r.fate = "discarded"
  BY <1>4, <1>5 DEF LogType, Place
<1>7. PICK ls : ls = [logs EXCEPT ![pending] = r]
  OBVIOUS
<1>8. GoOn(how, ls)
  <2>1. [logs EXCEPT ![pending].session = "gone", ![pending].rest = "gone",
                     ![pending].fate = "discarded"] = ls
    BY <1>1, <1>3, <1>4, <1>5, <1>7
  <2> QED BY <2>1 DEF Discard
<1>9. Settled(ls) /\ Unknown(ls) /\ NoneWaits(ls)
  BY <1>1, <1>4, <1>6, <1>7, DecidedIsSettled
<1> QED BY <1>1, <1>2, <1>8, <1>9, GoOnSafe

\* Without a question only what nobody has announced is left behind.
LEMMA LeaveKeeps ==
    ASSUME TypeOK, SaveIInv, NEW how \in {"tab", "exit"}, Leave(how)
    PROVE  (TypeOK /\ SaveIInv)'
<1>1. liveTab /\ saving = "none" /\ service # "active" /\ ~HasUnsaved /\ GoOn(how, logs)
  BY DEF Leave, Idle, Free
<1>2. saving' = "none" /\ after' = "stay" /\ started' = started /\ crashes' = crashes
  BY <1>1 DEF Leave, save, TypeOK
<1>3. service \in {"ended", "idle"}
  BY <1>1 DEF TypeOK
<1>4. Settled(logs) /\ Unknown(logs)
  BY <1>1, LogsAreSettled, NothingToAsk
<1> QED BY <1>1, <1>2, <1>3, <1>4, GoOnSafe

\* Opening the open project again drops the tab with what it knows.
LEMMA ReopenKeeps ==
    ASSUME TypeOK, SaveIInv, Reopen
    PROVE  (TypeOK /\ SaveIInv)'
<1>1. /\ saving = "none" /\ logs' = Leaving(logs, "dropped") /\ DropTab
      /\ started' = started /\ saving' = saving /\ after' = after /\ crashes' = crashes
  BY DEF Reopen, Idle, Free, save
<1>2. /\ liveTab' = FALSE /\ service' = "idle" /\ startEnabled' = FALSE
      /\ deferredReady' = FALSE
      /\ pending' = 0 /\ pendingStatus' = FALSE /\ finalized' = FALSE
  BY <1>1 DEF DropTab, Forget
<1>3. after' = "stay" /\ crashes' \in Nat
  BY <1>1 DEF TypeOK
<1>4. Settled(logs') /\ \A l \in Log : logs'[l].fate # "finished"
  BY <1>1, LogsAreSettled, LeavingSettles
<1> QED BY <1>1, <1>2, <1>3, <1>4, SettledIsSafe

\* The end of the program removes what is temporary; then no log waits.
LEMMA ExitKeeps ==
    ASSUME TypeOK, SaveIInv, Exit
    PROVE  (TypeOK /\ SaveIInv)'
<1>1. /\ ~liveTab /\ logs' = Cleaned(logs)
      /\ UNCHANGED <<service, started, liveTab, pending, pendingStatus, finalized,
                     deferredReady, startEnabled, saving, after, crashes>>
  BY DEF Exit, widget, save
<1>2. service = "idle" /\ saving = "none" /\ pending = 0
  BY <1>1 DEF SaveIInv, WidgetInv
<1>3. \A l \in Log : logs[l].fate # "finished"
  BY <1>1 DEF SaveIInv, WaitingInv, Undecided
<1>4. Settled(logs') /\ \A l \in Log : logs'[l].fate # "finished"
  BY <1>1, <1>2, <1>3, LogsAreSettled, CleanedSettles
<1>5. /\ pendingStatus' = FALSE /\ finalized' = FALSE /\ after' = "stay"
      /\ crashes' \in Nat /\ deferredReady' \in BOOLEAN /\ startEnabled' \in BOOLEAN
      /\ liveTab' \in BOOLEAN
  BY <1>1, <1>2 DEF TypeOK
<1> QED BY <1>1, <1>2, <1>4, <1>5, SettledIsSafe

\* A death leaves every log that was under way to nobody.
LEMMA CrashKeeps ==
    ASSUME TypeOK, SaveIInv, Crash
    PROVE  (TypeOK /\ SaveIInv)'
<1> DEFINE Hit(l) == logs[l].session # "none" /\ logs[l].fate \in {"none", "finished"}
<1>1. /\ liveTab' = FALSE /\ service' = "idle" /\ startEnabled' = FALSE
      /\ deferredReady' = FALSE
      /\ pending' = 0 /\ pendingStatus' = FALSE /\ finalized' = FALSE
      /\ saving' = "none" /\ after' = "stay" /\ started' = started
  BY DEF Crash, DropTab, Forget, SaveStops
<1>2. crashes' \in Nat
  <2>1. crashes \in Nat
    BY DEF TypeOK
  <2>2. crashes' = crashes + 1
    BY DEF Crash
  <2> QED BY <2>1, <2>2
<1>3. logs \in [Log -> LogType]
  BY DEF TypeOK, LogType
<1>4. logs' = [l \in Log |-> IF Hit(l) THEN [logs[l] EXCEPT !.fate = "crashed",
                                                            !.split = TRUE]
                                       ELSE logs[l]]
  BY DEF Crash
<1>5. ASSUME NEW l \in Log
      PROVE  /\ logs'[l] \in LogType
             /\ ~Hit(l) => logs'[l] = logs[l]
             /\ Hit(l) => /\ logs'[l].fate = "crashed" /\ logs'[l].split = TRUE
                          /\ logs'[l].row = logs[l].row
                          /\ logs'[l].session = logs[l].session
                          /\ logs'[l].rest = logs[l].rest
  <2>1. PICK o \in LogType : o = logs[l]
    BY <1>3
  <2>2. logs'[l] = IF Hit(l) THEN [o EXCEPT !.fate = "crashed", !.split = TRUE] ELSE o
    BY <1>4, <2>1
  <2> QED BY <2>1, <2>2 DEF LogType
<1>6. logs' \in [Log -> LogType]
  <2>1. DOMAIN logs' = Log /\ logs' = [l \in Log |-> logs'[l]]
    BY <1>4
  <2> QED BY <1>5, <2>1
<1>7. \A l \in Log : logs'[l].fate # "finished"
  <2>1. \A l \in Log : logs[l].fate = "finished" => logs[l].session # "none"
    BY DEF SaveIInv, WaitingInv, Undecided
  <2> QED BY <1>5, <2>1
<1>8. Settled(logs')
  <2>1. \A l \in Log : l > started => logs'[l] = NoLog
    <3>1. NoLog.session = "none"
      BY DEF NoLog
    <3> QED BY <1>5, <3>1 DEF SaveIInv, CaptureInv
  <2>2. \A l \in Log : logs'[l].split \/ logs'[l].session = logs'[l].rest
    <3> SUFFICES ASSUME NEW l \in Log
                 PROVE  logs'[l].split \/ logs'[l].session = logs'[l].rest
      OBVIOUS
    <3>1. CASE Hit(l)
      BY <1>5, <3>1
    <3>2. CASE ~Hit(l)
      <4>1. ~(saving = "rest" /\ l = pending)
        BY <3>2 DEF SaveIInv, SavingInv, Undecided
      <4> QED BY <1>5, <3>2, <4>1 DEF SaveIInv, TogetherInv
    <3> QED BY <3>1, <3>2
  <2>3. ASSUME NEW l \in Log, RestIsMoved(logs[l]) PROVE RestIsMoved(logs'[l])
    BY <1>5, <2>3 DEF RestIsMoved
  <2>4. \A l \in Log : logs'[l].fate = "saved" =>
          logs'[l].session = "project" /\ RestIsMoved(logs'[l]) /\ logs'[l].row = "final"
    BY ZenonT(40), <1>5, <2>3 DEF SaveIInv, SavedIsWhole
  <2>5. \A l \in Log : logs'[l].row # "none" =>
          logs'[l].session = "project" /\ RestIsMoved(logs'[l])
    BY ZenonT(40), <1>5, <2>3 DEF SaveIInv, RowHasFile
  <2>6. \A l \in Log : logs'[l].fate = "lost" /\ logs'[l].announced =>
          logs'[l].session = "project"
    BY ZenonT(40), <1>5 DEF SaveIInv, AnnouncedIsAskedFor
  <2> QED BY <1>1, <1>6, <2>1, <2>2, <2>4, <2>5, <2>6 DEF Settled
<1> QED BY <1>1, <1>2, <1>7, <1>8, SettledIsSafe

-----------------------------------------------------------------------------
(* The capture and the timer.                                               *)

\* The capture under way.
LEMMA ActiveLog ==
    ASSUME TypeOK, SaveIInv, service = "active"
    PROVE  /\ started \in Log /\ started # 0 /\ pending = started /\ saving = "none"
           /\ ~pendingStatus /\ liveTab /\ logs[started] \in LogType
           /\ logs[started].fate = "none" /\ logs[started].row = "none"
           /\ logs[started].session = logs[started].rest /\ ~logs[started].announced
<1>1. /\ started # 0 /\ pending = started /\ saving = "none" /\ ~pendingStatus
      /\ logs[started].fate = "none" /\ logs[started].row = "none"
      /\ logs[started].session = logs[started].rest /\ ~logs[started].announced
  BY DEF SaveIInv, CaptureInv
<1>2. started \in Log
  BY <1>1, LiveSaveAssumption DEF TypeOK, Log
<1>3. logs[started] \in LogType
  BY <1>2 DEF TypeOK, LogType
<1>4. liveTab
  BY DEF SaveIInv, WidgetInv
<1> QED BY <1>1, <1>2, <1>3, <1>4

\* What is proved of a change of the last capture, which no project knows yet.
LEMMA CaptureChanges ==
    ASSUME TypeOK, SaveIInv, service = "active",
           NEW r \in LogType, logs' = [logs EXCEPT ![started] = r],
           r.session = r.rest, r.row = "none",
           ~r.announced,
           \/ service' = "active" /\ r.fate = "none"
           \/ service' = "ended" /\ \/ r.session = "temp" /\ r.fate = "finished"
                                    \/ r.session # "temp" /\ r.fate = "none",
           UNCHANGED <<started, liveTab, widget, save, crashes>>
    PROVE  (TypeOK /\ SaveIInv)'
<1>1. /\ started \in Log /\ started # 0 /\ pending = started /\ saving = "none"
      /\ ~pendingStatus /\ liveTab /\ logs \in [Log -> LogType]
  BY ActiveLog DEF TypeOK, LogType
<1>2. /\ logs' \in [Log -> LogType] /\ logs'[started] = r
      /\ \A k \in Log : k # started => logs'[k] = logs[k]
  BY <1>1, OneLog
<1>3. UNCHANGED <<started, liveTab, pending, pendingStatus, finalized, deferredReady,
                  startEnabled, saving, after, crashes>>
  BY DEF widget, save
<1>4. TypeOK'
  BY <1>2, <1>3 DEF TypeOK, LogType
<1>5. WidgetInv'
  BY <1>1, <1>3 DEF SaveIInv, WidgetInv
<1>6. CaptureInv'
  <2>1. \A l \in Log : l > started => l # started
    BY <1>1, LiveSaveAssumption DEF Log
  <2> QED BY <1>1, <1>2, <1>3, <2>1 DEF SaveIInv, CaptureInv
<1>7. WaitingInv'
  BY <1>1, <1>2, <1>3 DEF SaveIInv, WaitingInv, Undecided
<1>8. SavingInv' /\ TogetherInv'
  BY <1>1, <1>2, <1>3 DEF SaveIInv, SavingInv, TogetherInv
<1>9. SavedIsWhole' /\ RowHasFile' /\ AnnouncedIsAskedFor'
  BY <1>2 DEF SaveIInv, SavedIsWhole, RowHasFile, AnnouncedIsAskedFor
<1>10. CaptureCoversNoLog'
  <2>1. \A l \in Log : l < started => l # started
    BY <1>1, LiveSaveAssumption DEF Log
  <2> QED BY <1>2, <1>3, <2>1 DEF SaveIInv, CaptureCoversNoLog, Undecided
<1> QED BY <1>4, <1>5, <1>6, <1>7, <1>8, <1>9, <1>10 DEF SaveIInv

\* The worker creates the files of the capture.
LEMMA FilesAppearKeeps ==
    ASSUME TypeOK, SaveIInv, FilesAppear
    PROVE  (TypeOK /\ SaveIInv)'
<1>1. /\ service = "active" /\ logs[started].session = "none"
      /\ UNCHANGED <<service, started, liveTab, widget, save, crashes>>
  BY DEF FilesAppear
<1>2. /\ started \in Log /\ logs[started] \in LogType /\ logs \in [Log -> LogType]
      /\ logs[started].fate = "none" /\ logs[started].row = "none"
      /\ ~logs[started].announced
  BY <1>1, ActiveLog DEF TypeOK, LogType
<1>3. PICK o \in LogType : o = logs[started]
  BY <1>2
<1>4. PICK r : r = [o EXCEPT !.session = "temp", !.rest = "temp"]
  OBVIOUS
<1>5. /\ r \in LogType /\ r.session = "temp" /\ r.rest = "temp" /\ r.row = o.row
      /\ r.fate = o.fate /\ r.announced = o.announced
  BY <1>3, <1>4 DEF LogType, Place
<1>6. logs' = [logs EXCEPT ![started] = r]
  BY <1>2, <1>3, <1>4 DEF FilesAppear
<1> QED BY <1>1, <1>2, <1>3, <1>5, <1>6, CaptureChanges

\* A capture that has files is over and waits.
LEMMA CaptureEndsKeeps ==
    ASSUME TypeOK, SaveIInv, CaptureEnds
    PROVE  (TypeOK /\ SaveIInv)'
<1>1. /\ service = "active" /\ service' = "ended"
      /\ UNCHANGED <<started, liveTab, widget, save, crashes>>
  BY DEF CaptureEnds
<1>2. /\ started \in Log /\ logs[started] \in LogType /\ logs \in [Log -> LogType]
      /\ logs[started].row = "none" /\ logs[started].session = logs[started].rest
      /\ ~logs[started].announced
  BY <1>1, ActiveLog DEF TypeOK, LogType
<1>3. PICK o \in LogType : o = logs[started]
  BY <1>2
<1>4. PICK r : r = [o EXCEPT !.fate = IF o.session = "temp" THEN "finished" ELSE "none"]
  OBVIOUS
<1>5. /\ r \in LogType /\ r.session = o.session /\ r.rest = o.rest /\ r.row = o.row
      /\ r.announced = o.announced
      /\ r.fate = IF o.session = "temp" THEN "finished" ELSE "none"
  BY <1>3, <1>4 DEF LogType
<1>6. logs' = [logs EXCEPT ![started] = r]
  BY <1>2, <1>3, <1>4 DEF CaptureEnds
<1> QED BY <1>1, <1>2, <1>3, <1>5, <1>6, CaptureChanges

\* A capture that has ended becomes the pending log, and is announced.
LEMMA TickKeeps ==
    ASSUME TypeOK, SaveIInv, Tick
    PROVE  (TypeOK /\ SaveIInv)'
<1>1. /\ liveTab /\ saving = "none" /\ startEnabled' = (deferredReady \/ service # "active")
      /\ UNCHANGED <<service, started, liveTab, pending, deferredReady, saving, after,
                     crashes>>
  BY DEF Tick, Free, save
<1>2. startEnabled' \in BOOLEAN /\ deferredReady \in BOOLEAN
  BY <1>1, Zenon DEF TypeOK
<1>3. service = "active" => pending # 0 /\ ~startEnabled'
  BY <1>1, <1>2 DEF SaveIInv, CaptureInv, WidgetInv
<1>4. CASE service = "ended" /\ ~deferredReady /\ ~finalized /\ pending # 0
  <2>1. /\ finalized' = TRUE /\ pendingStatus' = TRUE
        /\ logs' = [logs EXCEPT ![pending].announced = TRUE]
    BY <1>4 DEF Tick
  <2>2. pending \in Log
    BY <1>4, LiveSaveAssumption DEF TypeOK, Log
  <2>3. logs \in [Log -> LogType]
    BY DEF TypeOK, LogType
  <2>4. PICK o \in LogType : o = logs[pending]
    BY <2>2, <2>3
  <2>5. PICK r : r = [o EXCEPT !.announced = TRUE]
    OBVIOUS
  <2>6. /\ r \in LogType /\ r.session = o.session /\ r.rest = o.rest /\ r.row = o.row
        /\ r.fate = o.fate /\ r.split = o.split
        /\ logs' = [logs EXCEPT ![pending] = r]
    BY <2>1, <2>4, <2>5 DEF LogType
  <2>7. /\ o.fate \in {"none", "finished", "discarded"}
        /\ o.session = "temp" => o.fate = "finished"
        /\ o.fate = "finished" => o.session \in {"temp", "project"}
        /\ o.row # "none" => o.session = "project" /\ RestIsMoved(o)
    BY <1>4, <2>2, <2>4 DEF SaveIInv, WaitingInv, RowHasFile, Undecided
  <2>8. /\ logs' \in [Log -> LogType] /\ logs'[pending] = r
        /\ \A k \in Log : k # pending => logs'[k] = logs[k]
        /\ CaptureInv' /\ WaitingInv' /\ SavedIsWhole' /\ RowHasFile'
        /\ AnnouncedIsAskedFor' /\ CaptureCoversNoLog'
    BY <1>1, <1>4, <2>1, <2>6, <2>7, PendingChanges DEF RestIsMoved
  <2>9. TypeOK'
    BY <1>1, <1>2, <1>4, <2>1, <2>8 DEF TypeOK, LogType
  <2>10. WidgetInv' /\ SavingInv' /\ TogetherInv'
    BY <1>1, <1>3, <2>1, <2>4, <2>6, <2>8 DEF SaveIInv, WidgetInv, SavingInv, TogetherInv
  <2> QED BY <2>8, <2>9, <2>10 DEF SaveIInv
<1>5. CASE ~(service = "ended" /\ ~deferredReady /\ ~finalized /\ pending # 0)
  <2>1. UNCHANGED <<finalized, pendingStatus, logs>>
    BY <1>5 DEF Tick
  <2>2. TypeOK'
    BY <1>1, <1>2, <2>1 DEF TypeOK
  <2>3. startEnabled' /\ pending # 0 => pendingStatus
    BY <1>1, <1>3, <1>5 DEF TypeOK, SaveIInv, WidgetInv
  <2>4. WidgetInv' /\ CaptureInv' /\ CaptureCoversNoLog'
    BY <1>1, <2>1, <2>3 DEF SaveIInv, WidgetInv, CaptureInv, CaptureCoversNoLog, Undecided
  <2>5. WaitingInv' /\ SavingInv' /\ TogetherInv'
    BY <1>1, <2>1 DEF SaveIInv, WaitingInv, SavingInv, TogetherInv, Undecided
  <2> QED BY <1>1, <2>1, <2>2, <2>4, <2>5, SameLogs DEF SaveIInv
<1> QED BY <1>4, <1>5

-----------------------------------------------------------------------------

\* Nothing is there at the start.
LEMMA InitSafe ==
    ASSUME Init
    PROVE  TypeOK /\ SaveIInv
<1>1. /\ NoLog \in LogType /\ NoLog.fate = "none" /\ NoLog.row = "none"
      /\ NoLog.session = NoLog.rest
  BY DEF NoLog, LogType, Place
<1>2. logs \in [Log -> LogType] /\ \A l \in Log : logs[l] = NoLog
  BY <1>1 DEF Init
<1>3. 0 \in 0 .. MaxLogs /\ 0 \in 0 .. 0
  BY LiveSaveAssumption
<1>4. TypeOK
  BY <1>2, <1>3 DEF Init, TypeOK, LogType
<1>5. WidgetInv /\ CaptureInv /\ SavingInv
  BY <1>2 DEF Init, WidgetInv, CaptureInv, SavingInv
<1>6. WaitingInv /\ TogetherInv
  BY <1>1, <1>2 DEF Init, WaitingInv, TogetherInv, Undecided
<1>7. SavedIsWhole /\ RowHasFile /\ AnnouncedIsAskedFor /\ CaptureCoversNoLog
  BY <1>1, <1>2 DEF Init, SavedIsWhole, RowHasFile, AnnouncedIsAskedFor,
                    CaptureCoversNoLog
<1> QED BY <1>4, <1>5, <1>6, <1>7 DEF SaveIInv

\* Every step keeps the invariant.
LEMMA NextSafe ==
    ASSUME TypeOK, SaveIInv, Next
    PROVE  (TypeOK /\ SaveIInv)'
<1>1. CASE Operator
  <2>1. CASE OpenLive \/ Start \/ StartFails \/ Exit \/ Reopen
    BY <2>1, OpenLiveKeeps, StartKeeps, StartFailsKeeps, ExitKeeps, ReopenKeeps
  <2>2. CASE \E how \in {"tab", "exit"} : Leave(how)
    BY <2>2, LeaveKeeps
  <2>3. CASE \E how \in {"clean", "tab", "exit"} : Discard(how) \/ DiscardFails(how)
    BY <2>3, DiscardKeeps, DiscardFailsKeeps
  <2>4. CASE \E how \in {"stay", "clean", "tab", "exit"} : Save(how)
    BY <2>4, SaveKeeps
  <2> QED BY <1>1, <2>1, <2>2, <2>3, <2>4 DEF Operator
<1>2. CASE SaveStep
  BY <1>2, MoveSessionKeeps, MoveRestKeeps, RegisterKeeps, FinalizeRowKeeps DEF SaveStep
<1>3. CASE FilesAppear \/ CaptureEnds \/ Tick \/ Crash
  BY <1>3, FilesAppearKeeps, CaptureEndsKeeps, TickKeeps, CrashKeeps
<1> QED BY <1>1, <1>2, <1>3 DEF Next

\* The inductive invariant of a log's life holds after every mixture of captures,
\* decisions, failures and deaths (LiveSaveIntegration).
THEOREM SaveInvariant == Spec => [](TypeOK /\ SaveIInv)
<1>1. Init => TypeOK /\ SaveIInv
  BY InitSafe
<1>2. TypeOK /\ SaveIInv /\ [Next]_vars => (TypeOK /\ SaveIInv)'
  <2>1. CASE Next
    BY <2>1, NextSafe
  <2>2. CASE UNCHANGED vars
    BY <2>2 DEF vars, widget, save, TypeOK, SaveIInv, WidgetInv, CaptureInv, WaitingInv,
                SavingInv, TogetherInv, SavedIsWhole, RowHasFile, AnnouncedIsAskedFor,
                CaptureCoversNoLog, Undecided
  <2> QED BY <2>1, <2>2
<1> QED BY <1>1, <1>2, PTL DEF Spec

\* A saved log is whole but for what a failed discard had deleted, a row has its files, and
\* no log is torn unless a step that moves it back or removes it failed (save_pending_log).
THEOREM LogsStayWhole == Spec => []LogsAreWhole
<1>1. SaveIInv => LogsAreWhole
  BY DEF SaveIInv, LogsAreWhole, TogetherInv, NeverSplit
<1> QED BY <1>1, SaveInvariant, PTL

\* No announced log is lost without a question (confirm_unsaved_log).
THEOREM NothingLostUnasked == Spec => []AnnouncedIsAskedFor
<1>1. SaveIInv => AnnouncedIsAskedFor
  BY DEF SaveIInv
<1> QED BY <1>1, SaveInvariant, PTL

\* A capture starts over no log that still waits (start_capture).
THEOREM StartCoversNoLog == Spec => []CaptureCoversNoLog
<1>1. SaveIInv => CaptureCoversNoLog
  BY DEF SaveIInv
<1> QED BY <1>1, SaveInvariant, PTL
===============================================================================
